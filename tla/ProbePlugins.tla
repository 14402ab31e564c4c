----------------------------- MODULE ProbePlugins -----------------------------
(* A crawler with one of the two probe plugins enabled; the variables of the  *)
(* other keep their initial values.                                           *)
EXTENDS FlowProbe, CtProbe

vars == <<probeVars, proc, flowVars, ctVars>>

Init == FlowInit /\ CtInit

Crawler == \/ FlowCrawler /\ UNCHANGED ctVars
           \/ CtCrawler /\ UNCHANGED flowVars

World == \/ FlowHost /\ UNCHANGED ctVars
         \/ CtHost /\ UNCHANGED flowVars

Next == Crawler \/ World

\* The crawler goes on crawling: one condition does for both plugins.
Fairness == WF_vars(Crawler) /\ ClockFairness

Spec == Init /\ [][Next]_vars /\ Fairness

\* The types of the variables of the plugin at work.
TypeOK == IF feature = "fprobe" THEN FlowTypeOK ELSE CtTypeOK

\* What ctprobe remembers to have configured, the running conntrackprobe watches:
\* a new process under a new or an old PID never inherits its predecessor's list.
MonitoredConfigured == feature = "ctprobe" => ListConfigured

\* No interface has two softflowd, even after a restart, and a crawler has one
\* conntrackprobe, whatever dies and whoever takes over a PID.
ProbesOnce == IF feature = "fprobe" THEN OneProbe ELSE OneConntrackprobe

\* The import of the fprobe plugin has raised: it is not used before a restart.
Unloaded == feature = "fprobe" /\ loaded = "failed"

Watched(i) == IF feature = "fprobe" THEN Paired(i) \/ Bereft(i) ELSE Monitored(i)
\* Once nothing fails any more, an interface with an address gets its probe and
\* collector, or its place in conntrackprobe's list, unless it goes away first.
\* The code gives two things up: a softflowd whose collector has died, or whose
\* crawler died before it started one, is taken for a pair as long as it runs; and
\* the crawler does without the fprobe plugin when its import has raised.
EventuallyWatched ==
  \A i \in Ifaces : iface[i] = "up" ~> (Watched(i) \/ ~Exists(i) \/ Unloaded)

\* Nothing stays in the output directory for ever: not the last file of an
\* interface that has gone, not one that cannot be read or could not be removed, and
\* not one that its writer never finished; unless the plugin was not loaded.
FilesGo == \A f \in Files : Present(f) ~> (~Present(f) \/ Unloaded)
=============================================================================
