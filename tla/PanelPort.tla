----------------------------- MODULE PanelPort -----------------------------
(***************************************************************************)
(* A change of the panel's external or backend port (internal/panelport):  *)
(* the request rewrites the files under a mutex; an external change is     *)
(* verified and put back in the request, a backend change by a detached    *)
(* helper, which restarts the panel and leaves its verdict in a file that  *)
(* a later start of the panel folds into the history row.                  *)
(*                                                                         *)
(* A change moves its port to its own number.  The files are the           *)
(* environment file, which names the backend port, and the panel's vhost,  *)
(* which names both; the vhost of a custom domain moves with it.           *)
(*                                                                         *)
(* A reload of nginx may fail, forward and after a rollback, and a failed  *)
(* one is not tried again; a row may not be inserted or closed, and a live *)
(* helper may be taken for dead.  Putting a file back is assumed to work,  *)
(* and so are a restart of the panel and the removal of the outcome file;  *)
(* a helper whose launch reports an error has not been started.            *)
(***************************************************************************)
EXTENDS Naturals

CONSTANTS MaxChanges, MaxPortFaults, MaxPanelStops    \* bounds

PortAssumption == {MaxChanges, MaxPortFaults, MaxPanelStops} \subseteq Nat

VARIABLES
    env, vhost,           \* the files
    serving, proxied,     \* the port the panel listens on, what nginx has loaded
    unloaded,             \* a reload of nginx failed, and none has worked since
    change,
    changing,             \* the mutex: the change that has it, or 0
    outcome,              \* the outcome file, its id 0 when there is none
    helper,
    history,              \* panel_port_history
    joined,               \* a change accepted by the check went on beside one that runs
    torn,                 \* the panel or the helper died between two of its steps
    portFaults, panelStops

portVars == <<env, vhost, serving, proxied, unloaded, change, changing, outcome, helper, history,
          joined, torn, portFaults, panelStops>>

Change    == 1..MaxChanges
Port      == 0..MaxChanges
NoOutcome == [id |-> 0, state |-> "none"]
NoHelper  == [id |-> 0, at |-> "none"]
NoRequest == [at |-> "idle", kind |-> "none", checked |-> FALSE,
              env |-> 0, vhost |-> [backend |-> 0, external |-> 0]]

PortInit ==
    /\ env = 0 /\ vhost = [backend |-> 0, external |-> 0]
    /\ serving = env /\ proxied = vhost /\ unloaded = FALSE
    /\ change = [c \in Change |-> NoRequest]
    /\ changing = 0 /\ outcome = NoOutcome /\ helper = NoHelper
    /\ history = [c \in Change |-> "none"]
    /\ joined = FALSE /\ torn = FALSE
    /\ portFaults = 0 /\ panelStops = 0

Fine  == UNCHANGED portFaults
PortFault == portFaults < MaxPortFaults /\ portFaults' = portFaults + 1
Proceed(c, a) == change' = [change EXCEPT ![c].at = a]
Running == outcome.state = "running"

\* The request ends and closes its row (finish); that the update fails is only logged.
Finish(c, verdict) ==
    /\ Proceed(c, "done")
    /\ changing' = 0
    /\ \E row \in {verdict, "open"} : history' = [history EXCEPT ![c] = row]

\* nginx is told to load v; or the reload fails, and if it was cancelled with
\* its request nginx may have loaded what it was told to all the same.
Reloads(v)        == proxied' = v /\ unloaded' = FALSE
ReloadFails(told) == proxied' \in {proxied} \cup told /\ unloaded' = TRUE

-----------------------------------------------------------------------------
\* A slip: a change in flight is not looked for.
AcceptableAlways(c) == TRUE

\* The check comes before the mutex and is not repeated under it.
acceptable(c) == ~Running

AskChange(c, kind) ==
    /\ change[c] = NoRequest /\ acceptable(c)
    /\ change' = [change EXCEPT ![c].at = "waiting", ![c].kind = kind, ![c].checked = ~Running]
    /\ UNCHANGED <<env, vhost, serving, proxied, unloaded, changing, outcome, helper, history,
                   joined, torn, portFaults, panelStops>>

\* A port that is the old one, a file that cannot be read or a row that cannot
\* be inserted ends the request.  Else the files as they are become the change's
\* backups; a vhost that does not proxy to the backend port is refused.
Begin(c) ==
    /\ change[c].at = "waiting" /\ changing = 0
    /\ \/ Proceed(c, "done") /\ UNCHANGED <<changing, history, joined>>
       \/ /\ joined' = (joined \/ ((Running \/ helper # NoHelper) /\ change[c].checked))
          /\ IF change[c].kind = "backend" /\ vhost.backend # env
             THEN Finish(c, "failed")
             ELSE /\ changing' = c
                  /\ change' = [change EXCEPT ![c].at = change[c].kind,
                                              ![c].env = env, ![c].vhost = vhost]
                  /\ history' = [history EXCEPT ![c] = "open"]
    /\ UNCHANGED <<env, vhost, serving, proxied, unloaded, outcome, helper, torn,
                   portFaults, panelStops>>

\* writePlan, in the order of the plan; the request's own error closes its row.
WriteEnv(c) ==
    /\ change[c].at = "backend"
    /\ \/ Fine /\ env' = c /\ Proceed(c, "vhost") /\ UNCHANGED <<changing, history>>
       \/ PortFault /\ Finish(c, "failed") /\ UNCHANGED env
    /\ UNCHANGED <<vhost, serving, proxied, unloaded, outcome, helper, joined, torn, panelStops>>

PutBack(c) ==
    /\ env' = IF change[c].kind = "backend" THEN change[c].env ELSE env
    /\ vhost' = change[c].vhost

\* A slip: a plan that fails at its second file leaves the first one written.
WriteVhostLeavesEnv(c) ==
    /\ change[c].at \in {"vhost", "external"}
    /\ \/ /\ Fine
          /\ vhost' = IF change[c].kind = "backend" THEN [vhost EXCEPT !.backend = c]
                                                    ELSE [vhost EXCEPT !.external = c]
          /\ Proceed(c, IF change[c].kind = "backend" THEN "outcome" ELSE "reload")
          /\ UNCHANGED <<changing, history>>
       \/ PortFault /\ Finish(c, "failed") /\ UNCHANGED vhost
    /\ UNCHANGED <<env, serving, proxied, unloaded, outcome, helper, joined, torn, panelStops>>

\* The vhost, and nginx -t: a refusal puts back what was written.
WriteVhost(c) ==
    /\ change[c].at \in {"vhost", "external"}
    /\ \/ /\ Fine
          /\ vhost' = IF change[c].kind = "backend" THEN [vhost EXCEPT !.backend = c]
                                                    ELSE [vhost EXCEPT !.external = c]
          /\ Proceed(c, IF change[c].kind = "backend" THEN "outcome" ELSE "reload")
          /\ UNCHANGED <<env, changing, history>>
       \/ PortFault /\ PutBack(c) /\ Finish(c, "failed")
    /\ UNCHANGED <<serving, proxied, unloaded, outcome, helper, joined, torn, panelStops>>

\* ApplyExternal: the reload, and the one after the file was put back, which may
\* fail for the same reason.
ReloadNginx(c) ==
    /\ change[c].at = "reload"
    /\ \/ Fine /\ Reloads(vhost) /\ Proceed(c, "probe") /\ UNCHANGED <<env, vhost, changing, history>>
       \/ /\ PortFault /\ PutBack(c) /\ Finish(c, "failed")
          /\ Reloads(vhost') \/ ReloadFails({vhost, vhost'})
    /\ UNCHANGED <<serving, outcome, helper, joined, torn, panelStops>>

\* The old port is asked too, once nginx has its vhost back.
portAnswers(c) ==
    /\ change[c].at = "probe"
    /\ \/ Fine /\ Finish(c, "succeeded") /\ UNCHANGED <<env, vhost, proxied, unloaded>>
       \/ /\ PortFault /\ PutBack(c)
          /\ \/ Reloads(vhost') /\ \E verdict \in {"rolledBack", "failed"} : Finish(c, verdict)
             \/ ReloadFails({vhost'}) /\ Finish(c, "failed")
    /\ UNCHANGED <<serving, outcome, helper, joined, torn, panelStops>>

\* StartBackendChange after the files: the outcome file, then the unit, which
\* does not start beside another of its name.
WriteOutcome(c) ==
    /\ change[c].at = "outcome"
    /\ \/ /\ Fine /\ outcome' = [id |-> c, state |-> "running"] /\ Proceed(c, "launch")
          /\ UNCHANGED <<env, vhost, changing, history>>
       \/ PortFault /\ PutBack(c) /\ Finish(c, "failed") /\ UNCHANGED outcome
    /\ UNCHANGED <<serving, proxied, unloaded, helper, joined, torn, panelStops>>

LaunchHelper(c) ==
    /\ change[c].at = "launch"
    /\ \/ /\ helper = NoHelper /\ Fine
          /\ helper' = [id |-> c, at |-> "restart"]
          /\ Proceed(c, "done") /\ changing' = 0
          /\ UNCHANGED <<env, vhost, outcome, history>>
       \/ /\ IF helper = NoHelper THEN PortFault ELSE Fine
          /\ PutBack(c) /\ Finish(c, "failed")
          /\ outcome' = NoOutcome
          /\ UNCHANGED helper
    /\ UNCHANGED <<serving, proxied, unloaded, joined, torn, panelStops>>

-----------------------------------------------------------------------------
Verdict == [succeeded |-> "succeeded", rolledBack |-> "rolledBack", running |-> "failed"]

\* A slip: the file goes also when the row could not be written.
FoldOutcomeAndForget(stillRunning) ==
    IF outcome = NoOutcome \/ (Running /\ stillRunning)
    THEN Fine /\ UNCHANGED <<outcome, history>>
    ELSE /\ outcome' = NoOutcome
         /\ \/ Fine /\ history' = [history EXCEPT ![outcome.id] =
                                      IF @ = "open" THEN Verdict[outcome.state] ELSE @]
            \/ PortFault /\ UNCHANGED history

\* The panel starts: a verdict goes to its row if that is still open.
FoldOutcome(stillRunning) ==
    IF outcome = NoOutcome \/ (Running /\ stillRunning)
    THEN Fine /\ UNCHANGED <<outcome, history>>
    ELSE \/ /\ Fine /\ outcome' = NoOutcome
            /\ history' = [history EXCEPT ![outcome.id] =
                              IF @ = "open" THEN Verdict[outcome.state] ELSE @]
         \/ PortFault /\ UNCHANGED <<outcome, history>>

\* The requests of the old process are gone, and it listens where the file says.
Midway(c) == change[c].at \in {"backend", "vhost", "external", "reload", "probe", "outcome", "launch"}
PanelComesUp(stillRunning) ==
    /\ serving' = env
    /\ change' = [c \in Change |-> IF change[c].at = "idle" THEN change[c]
                                   ELSE [change[c] EXCEPT !.at = "done"]]
    /\ changing' = 0
    /\ FoldOutcome(stillRunning)

\* helperStillRunning: no answer in time is taken for "not running".
helperStillRunning(alive) == {alive, FALSE}

\* The helper's script, one command after the other; it does not look at the
\* status of a reload.
HelperRestart ==
    /\ helper.at \in {"restart", "restartOld"}
    /\ \E still \in helperStillRunning(TRUE) : PanelComesUp(still)
    /\ Reloads(vhost) \/ ReloadFails({vhost})
    /\ torn' = (torn \/ \E c \in Change : Midway(c))
    /\ helper' = [helper EXCEPT !.at = IF @ = "restart" THEN "wait" ELSE "waitOld"]
    /\ UNCHANGED <<env, vhost, joined, panelStops>>

HelperWait ==
    /\ helper.at = "wait"
    /\ \/ /\ serving = helper.id /\ Fine
          /\ outcome' = [id |-> helper.id, state |-> "succeeded"]
          /\ helper' = NoHelper
       \/ /\ IF serving = helper.id THEN PortFault ELSE Fine
          /\ helper' = [helper EXCEPT !.at = "restore"]
          /\ UNCHANGED outcome
    /\ UNCHANGED <<env, vhost, serving, proxied, unloaded, change, changing, history, joined, torn,
                   panelStops>>

HelperRestore ==
    /\ helper.at = "restore"
    /\ env' = change[helper.id].env /\ vhost' = change[helper.id].vhost
    /\ helper' = [helper EXCEPT !.at = "restartOld"]
    /\ UNCHANGED <<serving, proxied, unloaded, change, changing, outcome, history, joined, torn,
                   portFaults, panelStops>>

\* The old port answers; that it does not either is left out.
HelperWaitOld ==
    /\ helper.at = "waitOld"
    /\ outcome' = [id |-> helper.id, state |-> "rolledBack"]
    /\ helper' = NoHelper
    /\ UNCHANGED <<env, vhost, serving, proxied, unloaded, change, changing, history, joined, torn,
                   portFaults, panelStops>>

\* The panel restarts for another reason, or with the whole server.
PanelStops(reboot) ==
    /\ panelStops < MaxPanelStops
    /\ panelStops' = panelStops + 1
    /\ \E still \in helperStillRunning(~reboot /\ helper # NoHelper) : PanelComesUp(still)
    /\ torn' = (torn \/ (\E c \in Change : Midway(c)) \/ (reboot /\ helper # NoHelper))
    /\ IF reboot THEN helper' = NoHelper /\ Reloads(vhost)
                 ELSE UNCHANGED <<helper, proxied, unloaded>>
    /\ UNCHANGED <<env, vhost, joined>>

PortNext ==
    \/ \E c \in Change :
         \/ \E kind \in {"external", "backend"} : AskChange(c, kind)
         \/ Begin(c) \/ WriteEnv(c) \/ WriteVhost(c) \/ ReloadNginx(c) \/ portAnswers(c)
         \/ WriteOutcome(c) \/ LaunchHelper(c)
    \/ HelperRestart \/ HelperWait \/ HelperRestore \/ HelperWaitOld
    \/ \E reboot \in BOOLEAN : PanelStops(reboot)

PortSpec == PortInit /\ [][PortNext]_portVars

-----------------------------------------------------------------------------
\* The types of the variables.
PortTypeOK ==
    LET Vhost == [backend : Port, external : Port]
    IN  /\ env \in Port /\ serving \in Port /\ vhost \in Vhost /\ proxied \in Vhost
        /\ change \in [Change -> [at : {"idle", "waiting", "backend", "external", "vhost", "reload",
                                        "probe", "outcome", "launch", "done"},
                                  kind : {"none", "external", "backend"}, checked : BOOLEAN,
                                  env : Port, vhost : Vhost]]
        /\ changing \in Port
        /\ outcome \in [id : Port, state : {"none", "running", "succeeded", "rolledBack"}]
        /\ helper \in [id : Port, at : {"none", "restart", "wait", "restore", "restartOld", "waitOld"}]
        /\ history \in [Change -> {"none", "open", "succeeded", "rolledBack", "failed"}]
        /\ unloaded \in BOOLEAN /\ joined \in BOOLEAN /\ torn \in BOOLEAN
        /\ portFaults \in 0..MaxPortFaults /\ panelStops \in 0..MaxPanelStops

(***************************************************************************)
(* When no change is at work, the panel listens where its file says, the   *)
(* vhost names that port, and nginx has loaded the vhost (planBackend: "or *)
(* nginx keeps proxying to a port nothing is on"), whatever failed or was  *)
(* rolled back.  Excused are nginx as long as no reload has worked since   *)
(* one failed, which nothing in the code notices; a process that died      *)
(* between two of its steps; and two changes that ran side by side.        *)
(***************************************************************************)
PortsAgree ==
    changing = 0 /\ helper = NoHelper /\ ~joined /\ ~torn =>
        serving = env /\ vhost.backend = env /\ (proxied = vhost \/ unloaded)

(***************************************************************************)
(* The helper's rollback takes back its own change and no other            *)
(* (acceptable: "A change already in flight must not be joined by a second *)
(* one: the first one's rollback restores files the second one just        *)
(* rewrote").  Excused is what the check of the outcome file cannot see: a *)
(* change accepted before the helper was started and kept waiting for the  *)
(* mutex, and one accepted after a start had taken the helper for dead and *)
(* cleared the file.                                                       *)
(***************************************************************************)
OwnRollback ==
    helper.at = "restore" /\ helper'.at = "restartOld" /\ ~joined =>
        vhost'.external = vhost.external /\ env = helper.id

RollbackTakesOnlyItsOwn == [][OwnRollback]_portVars

(***************************************************************************)
(* A verdict leaves the outcome file only when its row has been closed     *)
(* ("The file is only cleared once the row has it"), or when the file is   *)
(* taken by the next change; unless two changes ran side by side, as in    *)
(* RollbackTakesOnlyItsOwn.                                                *)
(***************************************************************************)
KeptVerdict ==
    ~joined /\ outcome.state \in {"succeeded", "rolledBack"} /\ outcome' # outcome =>
        history'[outcome.id] # "open" \/ outcome'.state = "running"

VerdictIsKept == [][KeptVerdict]_portVars

(***************************************************************************)
(* What the mutex promises ("changing serialises port changes against each *)
(* other"): one request at a time is on the files, and leaves them with    *)
(* its verdict or with the process.  The helper is beyond it.  See         *)
(* ExclusiveUse.                                                           *)
(***************************************************************************)
FilesUse == INSTANCE ExclusiveUse WITH
    User <- Change, Resource <- {"files"}, NoResource <- "none",
    using <- [c \in Change |-> IF Midway(c) THEN "files" ELSE "none"]

FilesUseSpec == FilesUse!Spec
=============================================================================
