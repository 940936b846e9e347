---------------------------- MODULE MCCronService ----------------------------
(***************************************************************************)
(* Small instances of CronService: one system job, one or two user's jobs, *)
(* a recurring schedule and a one-shot.  The runs of jobs and the files    *)
(* two processes share are explored one beside the other: a behaviour uses *)
(* the bounds of the part that focus names.                                *)
(***************************************************************************)
EXTENDS CronService

VARIABLE focus

Every == [kind |-> "every", at |-> 1]
Once == [kind |-> "once", at |-> 2]
KeptOnce == [kind |-> "at", at |-> 2]

EveryOnly == {Every}
OnceOnly == {Once}
AllKinds == {Every, Once, KeptOnce}

\* Every kind of schedule, and neither a second process nor a corruption.
Runs ==
    /\ focus = "runs"
    /\ store'.lines = <<>> /\ store'.file # "corrupt"

\* One kind of schedule, no retries, and less time.
Files ==
    /\ focus = "files"
    /\ now' <= 2
    /\ \A j \in DOMAIN store'.jobs \ System :
          store'.jobs[j].schedule = Once /\ store'.jobs[j].attempts = 0
    /\ \A i \in DOMAIN store'.lines :
          store'.lines[i].action # "del" => store'.lines[i].job.schedule = Once

CronInit == Init /\ focus \in {"runs", "files"}
CronNext == Next /\ (Runs \/ Files) /\ UNCHANGED focus
FairCron == CronInit /\ [][CronNext]_<<focus, vars>> /\ Fairness

=============================================================================
