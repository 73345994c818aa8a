---------------------------- MODULE SyncRequests ----------------------------
(***************************************************************************)
(* Requests for a scan of a connector's source, and the reports that       *)
(* complete them: service/connector_sync.py and sync in                    *)
(* connectors/runner.py.  A request raises a generation; a runner reads    *)
(* the generation, scans, and reports success for the generation it read.  *)
(* Requests arrive at any time; a scan may fail; the answer to a report    *)
(* may be lost before or after it took effect, and a report whose sender   *)
(* no longer waits may arrive after a later one.                           *)
(*                                                                         *)
(* A runner that keeps an inbox of its own (config.capture) reads the      *)
(* generation only after its scan: Retained.                               *)
(*                                                                         *)
(* Left out: the counters of the last scan, and the expected generation of *)
(* a request (two agents that read the same status request once).          *)
(***************************************************************************)
EXTENDS Naturals

CONSTANTS
    ScanRunner,     \* runners of the connector
    Retained,       \* the runners with config.capture
    RequestBound    \* bound: requested_generation

ConstantAssumption == Retained \subseteq ScanRunner /\ RequestBound \in Nat

VARIABLES
    requested, completed,   \* connector_sync_control
    scan,       \* runner: idle, scanning, whole (to be reported)
    control,    \* runner: control["requested_generation"]
    reports,    \* reports on their way, of successful scans
    began,      \* history, runner: the generation when its scan began
    covered     \* history: the newest generation before which a whole scan began

vars == <<requested, completed, scan, control, reports, began, covered>>

Generation == 0..RequestBound

Init ==
    /\ requested = 0
    /\ completed = 0
    /\ scan = [c \in ScanRunner |-> "idle"]
    /\ control = [c \in ScanRunner |-> 0]
    /\ reports = {}
    /\ began = [c \in ScanRunner |-> 0]
    /\ covered = 0

RequestSync ==
    /\ requested < RequestBound
    /\ requested' = requested + 1
    /\ UNCHANGED <<completed, scan, control, reports, began, covered>>

\* sync: the poll interval has passed, or wait_for_sync saw a pending request.
StartScan(c) ==
    /\ scan[c] = "idle"
    /\ scan' = [scan EXCEPT ![c] = "scanning"]
    /\ control' = [control EXCEPT ![c] = requested]
    /\ began' = [began EXCEPT ![c] = requested]
    /\ UNCHANGED <<requested, completed, reports, covered>>

\* The scan is incomplete or the runner stops: its report changes no generation.
ScanFails(c) ==
    /\ scan[c] # "idle"
    /\ scan' = [scan EXCEPT ![c] = "idle"]
    /\ UNCHANGED <<requested, completed, control, reports, began, covered>>

ScanEnds(c) ==
    /\ scan[c] = "scanning"
    /\ scan' = [scan EXCEPT ![c] = "whole"]
    /\ covered' = IF began[c] > covered THEN began[c] ELSE covered
    /\ UNCHANGED <<requested, completed, control, reports, began>>

\* _report_control sends, and does not repeat; with an inbox of its own the runner
\* asks for the generation now.
SendReport(c) ==
    /\ scan[c] = "whole"
    /\ scan' = [scan EXCEPT ![c] = "idle"]
    /\ reports' = reports \cup {IF c \in Retained THEN requested ELSE control[c]}
    /\ UNCHANGED <<requested, completed, control, began, covered>>

\* Mutants: the report completes whatever is requested; only the next generation.
AcknowledgedAll(generation) == requested
AcknowledgedNext(generation) == IF generation = completed + 1 THEN generation ELSE completed

\* greatest(completed_generation, generation)
Acknowledged(generation) == IF generation > completed THEN generation ELSE completed

ReportSync(generation) ==
    /\ generation \in reports
    /\ generation <= requested
    /\ completed' = Acknowledged(generation)
    /\ reports' = reports \ {generation}
    /\ UNCHANGED <<requested, scan, control, began, covered>>

ReportLost(generation) ==
    /\ generation \in reports
    /\ reports' = reports \ {generation}
    /\ UNCHANGED <<requested, completed, scan, control, began, covered>>

Next ==
    \/ RequestSync
    \/ \E c \in ScanRunner : StartScan(c) \/ ScanFails(c) \/ ScanEnds(c) \/ SendReport(c)
    \/ \E g \in Generation : ReportSync(g) \/ ReportLost(g)

Spec == Init /\ [][Next]_vars

(***************************************************************************)
(* Properties.                                                             *)
(***************************************************************************)

TypeOK ==
    /\ requested \in Generation /\ completed \in Generation /\ covered \in Generation
    /\ scan \in [ScanRunner -> {"idle", "scanning", "whole"}]
    /\ control \in [ScanRunner -> Generation] /\ began \in [ScanRunner -> Generation]
    /\ reports \subseteq Generation

\* A request counts as served only once a whole scan that began after it has
\* ended: "requests arriving during that scan remain pending"
\* (docs/service/connectors.md).  report_sync, and the order of control_status
\* and the scan in the runner's sync.
RequestIsHonoured == completed <= covered

\* Every request is served in the end, though scans fail and reports are lost:
\* the pending generation wakes another scan (wait_for_sync).
RequestsAreServed == \A g \in Generation : requested >= g ~> completed >= g
=============================================================================
