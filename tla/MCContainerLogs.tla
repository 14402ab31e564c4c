--------------------------- MODULE MCContainerLogs ---------------------------
(* Five storage drivers, four lists of mounts, and each way to find a json log. *)
EXTENDS ContainerLogs

VarLog == [src |-> <<"vol">>, dst |-> <<"var", "log">>]
Opt == [src |-> <<"opt-vol">>, dst |-> <<"opt">>]

Kind(storage, newer, mounts, json, environment) ==
  [storage |-> storage, newer |-> newer, mounts |-> mounts, json |-> json,
   environment |-> environment]

MCHosts ==
  {Kind("devicemapper", FALSE, <<VarLog>>, "default", "cloudsight"),
   Kind("aufs", FALSE, <<Opt, VarLog>>, "LogPath", "kubernetes"),
   Kind("aufs", TRUE, <<>>, "HostnamePath", "unmanaged"),
   Kind("btrfs", FALSE, <<VarLog, Opt>>, "default", "cloudsight"),
   Kind("btrfs", TRUE, <<>>, "none", "cloudsight"),
   Kind("vfs", TRUE, <<VarLog>>, "default", "kubernetes"),
   Kind("overlay2", TRUE, <<>>, "default", "cloudsight")}

MCParts == {"rootfs", "elsewhere", "beside", "docker", "docker.log", "default", "LogPath",
            "HostnamePath", "vol", "opt-vol", "opt", "var", "log", "logs", "app", "messages",
            "..", "*"}
MCUserLogs == {<<"var", "log", "*">>, <<"var", "*", "app">>, <<"var", "logs", "app">>, <<"..", "app">>,
               <<"opt">>, <<"opt", "app">>}
MCDefaults == {<<"var", "log", "messages">>}
MCMayAppear == {<<"rootfs", "var", "log", "app">>, <<"vol", "app">>, <<"rootfs", "opt", "app">>}
MCLonger == {<<"log", "logs">>}
=============================================================================
