----------------------------- MODULE MCEmission -----------------------------
(***************************************************************************)
(* Settings for TLC: emitters of every kind alone and behind one another,  *)
(* formats they refuse, gzip, and emitters enabled in crawler.conf.        *)
(***************************************************************************)
EXTENDS Emission

MCPlugins == <<"stdout", "file", "kafka", "http", "sas", "fluentd", "cos">>
MCUrl(p, i) == [proto |-> p, id |-> i]
Set(us, f) == [urls |-> us, format |-> f, compress |-> FALSE, conf |-> <<>>, skips |-> FALSE]
Enabled(p, f) == [q \in {p} |-> [url |-> MCUrl(p, 9), format |-> f]]

MCSettings ==
  {Set(<<MCUrl("http", 1), MCUrl("kafka", 1)>>, "json"),
   Set(<<MCUrl("http", 1), MCUrl("fluentd", 1)>>, "json"),
   Set(<<MCUrl("cos", 1), MCUrl("sas", 1)>>, "csv"),
   [Set(<<MCUrl("cos", 1), MCUrl("sas", 1)>>, "csv") EXCEPT !.skips = TRUE],
   Set(<<MCUrl("cos", 1), MCUrl("sas", 1)>>, "json"),
   Set(<<MCUrl("cos", 1)>>, "json"),
   Set(<<MCUrl("file", 1), MCUrl("file", 2)>>, "logstash"),
   Set(<<MCUrl("gopher", 1)>>, "csv"),
   [Set(<<MCUrl("file", 1)>>, "csv") EXCEPT !.conf = Enabled("fluentd", "json")],
   [Set(<<MCUrl("gopher", 1)>>, "csv") EXCEPT !.conf = Enabled("file", "missing_format")],
   [Set(<<MCUrl("stdout", 1), MCUrl("http", 1)>>, "graphite") EXCEPT !.compress = TRUE]}
=============================================================================
