----------------------------- MODULE MCServices -----------------------------
(***************************************************************************)
(* Instances for TLC of the services that share no state with each other:  *)
(* the export index, recovery retention, the UDP diode, the high side's    *)
(* ingest, collect jobs, a job's log, the heartbeat monitor, a git mirror.  *)
(* A behaviour belongs to one area; the others stay in their first state.   *)
(***************************************************************************)
EXTENDS ExportIndex, Recovery, UdpDiode, Ingest, Jobs, JobLog, Monitor, GitMirror

CONSTANTS Areas

VARIABLE area   \* the service at work

all == <<area, vars, recoveryVars, udpVars, ingestVars, jobsVars, jobLogVars, monitorVars, gitVars>>

MCStreamOf == [w \in Watches |-> "go"]
MCUpstream == [p \in Paths |-> IF p \in MutablePaths THEN Hashes ELSE {"h1"}]
MCReaches == [c \in {"c1", "c2"} |-> IF c = "c1" THEN {"c1"} ELSE {"c1", "c2"}]

ServicesInit ==
  /\ area \in Areas
  /\ Init /\ RecoveryInit /\ UdpInit /\ IngestInit /\ JobsInit /\ JobLogInit /\ MonitorInit
  /\ GitInit
  /\ area # "git" => upstream = CHOOSE u \in Listing : \A r \in RefNames : u.refs[r] = "c1" /\ u.head = "main"

ServicesNext ==
  /\ UNCHANGED area
  /\ \/ area = "index" /\ Next
        /\ UNCHANGED <<recoveryVars, udpVars, ingestVars, jobsVars, jobLogVars, monitorVars, gitVars>>
     \/ area = "recovery" /\ RecoveryNext
        /\ UNCHANGED <<vars, udpVars, ingestVars, jobsVars, jobLogVars, monitorVars, gitVars>>
     \/ area = "udp" /\ UdpNext
        /\ UNCHANGED <<vars, recoveryVars, ingestVars, jobsVars, jobLogVars, monitorVars, gitVars>>
     \/ area = "ingest" /\ IngestNext
        /\ UNCHANGED <<vars, recoveryVars, udpVars, jobsVars, jobLogVars, monitorVars, gitVars>>
     \/ area = "jobs" /\ JobsNext
        /\ UNCHANGED <<vars, recoveryVars, udpVars, ingestVars, jobLogVars, monitorVars, gitVars>>
     \/ area = "joblog" /\ JobLogNext
        /\ UNCHANGED <<vars, recoveryVars, udpVars, ingestVars, jobsVars, monitorVars, gitVars>>
     \/ area = "monitor" /\ MonitorNext
        /\ UNCHANGED <<vars, recoveryVars, udpVars, ingestVars, jobsVars, jobLogVars, gitVars>>
     \/ area = "git" /\ GitNext
        /\ UNCHANGED <<vars, recoveryVars, udpVars, ingestVars, jobsVars, jobLogVars, monitorVars>>

(* Safety alone, for every area.                                             *)
SafetySpec == ServicesInit /\ [][ServicesNext]_all

(* The fairness of JobsSpec, MonitorSpec and GitSpec.                        *)
LiveSpec ==
  /\ SafetySpec
  /\ WF_jobsVars(area = "jobs" /\ NextJob("go"))
  /\ \A i \in JobIds : WF_jobsVars(area = "jobs" /\ JobStep(i))
  /\ WF_monitorVars(area = "monitor" /\ SendHeartbeat)
  /\ SF_monitorVars(area = "monitor" /\ Delivers)
  /\ WF_monitorVars(area = "monitor" /\ Age)
  /\ WF_monitorVars(area = "monitor" /\ ImportPass)
  /\ WF_monitorVars(area = "monitor" /\ RemoveHeartbeatFile)
  /\ WF_gitVars(area = "git" /\ PublishStep)

----------------------------------------------------------------------------
(* All variables keep their types.                                           *)
ServicesTypeOK ==
  /\ TypeOK /\ RecoveryTypeOK /\ UdpTypeOK /\ IngestTypeOK
  /\ JobsTypeOK /\ JobLogTypeOK /\ MonitorTypeOK /\ GitTypeOK
=============================================================================
