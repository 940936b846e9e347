-------------------------- MODULE CronServiceProofs --------------------------
(***************************************************************************)
(* Who owns the job list.  While the gateway is up the list in memory is   *)
(* authoritative when it is dirty or a job is executing, and otherwise it  *)
(* is what jobs.json says; a job whose creation raised is in neither list  *)
(* that a load may take up.  For any jobs, schedules, bounds and failures. *)
(***************************************************************************)
EXTENDS CronService, SequenceTheorems, FiniteSetTheorems,
        WellFoundedInduction, TLAPS

IsLog(lines) == lines \in Seq({lines[i] : i \in DOMAIN lines})
IsList(f) == DOMAIN f \subseteq Job /\ f = [j \in DOMAIN f |-> f[j]]

\* The fields of the store; memory that could not be saved is there.
Fields == {"loaded", "jobs", "dirty", "file", "disk", "lines"}
IsStore(st) ==
    /\ st = [f \in Fields |-> st[f]]
    /\ st.loaded \in BOOLEAN /\ st.dirty \in BOOLEAN
    /\ IsList(st.jobs) /\ IsList(st.disk)
    /\ IsLog(st.lines)
    /\ st.dirty => st.loaded

Settled(st) == st.dirty \/ st.file # "good" \/ st.disk = st.jobs

\* No line creates or changes a job of out.
Unnamed(lines, out) ==
    \A i \in DOMAIN lines : lines[i].action = "del" \/ lines[i].id \notin out

\* No load of st takes up a job of out.
KeepsOut(st, out) ==
    /\ DOMAIN st.jobs \cap out = {}
    /\ st.dirty \/ DOMAIN st.disk \cap out = {}
    /\ Unnamed(st.lines, out)

\* The jobs that are not: their creation raised, or nobody created them.
Unborn == {j \in Job : born[j] = "nobody"}
Outcast == refused \cup Unborn

CInv ==
    /\ IsStore(store)
    /\ phase = "up" => store.loaded
    /\ phase # "up" => timer.pc = "off" /\ manual = NoJob
    /\ phase = "up" /\ timer.pc = "asleep" => Settled(store)
    /\ KeepsOut(store, Outcast) /\ DOMAIN store.disk \cap Unborn = {}
    /\ timer.job \notin Outcast /\ DOMAIN timer.due \cap Outcast = {}
    /\ born = [j \in Job |-> born[j]]
    /\ refused \subseteq Job \ System
    /\ \A j \in refused \cup System : born[j] = "gateway"

-----------------------------------------------------------------------------
\* What a load and a save leave.

(* An edit of a job list is a job list (the mutators of service.py).        *)
LEMMA EditedLists ==
    ASSUME NEW jobs, IsList(jobs), NEW j, NEW job, NEW gone
    PROVE  /\ IsList(Without(jobs, gone))
           /\ DOMAIN Without(jobs, gone) = DOMAIN jobs \ gone
           /\ DOMAIN With(jobs, j, job) = DOMAIN jobs \cup {j}
           /\ j \in Job => IsList(With(jobs, j, job))
BY DEF IsList, Without, With

(* Among the lines about a job there is a last one: the sets of the lines    *)
(* that follow them are well founded (_merge_action replays in order).      *)
Above(n, k) == {i \in 1..n : i > k}
LEMMA HasLast ==
    ASSUME NEW n \in Nat, NEW T \in SUBSET (1..n), T # {}
    PROVE  \E m \in T : \A k \in T : k <= m
<1> DEFINE S == 1..n
           R == StrictSubsetOrdering(S)
           U == {Above(n, k) : k \in T}
<1>1. FiniteSubsetsOf(S) = SUBSET S
  <2>1. IsFiniteSet(S)
    BY FS_Interval
  <2>. QED BY <2>1, FS_FiniteSubsetsOfFinite
<1>2. IsWellFoundedOn(R, FiniteSubsetsOf(S))
  BY FS_StrictSubsetOrderingWellFounded
<1>3. U \subseteq SUBSET S /\ U # {}
  BY DEF Above
<1>4. \E x \in U : \A y \in U : ~(<<y, x>> \in R)
  <2> HIDE DEF R, U, S
  <2>. QED BY <1>1, <1>2, <1>3, WFMin
<1>5. PICK m \in T : \A k \in T : ~(<<Above(n, k), Above(n, m)>> \in R)
  BY <1>4
<1>6. ASSUME NEW k \in T, k > m
      PROVE  FALSE
  <2>1. Above(n, k) \subseteq S /\ Above(n, m) \subseteq S
    BY DEF Above
  <2>2. Above(n, k) \subseteq Above(n, m) /\ k \in Above(n, m) /\ k \notin Above(n, k)
    BY <1>6 DEF Above
  <2>3. <<Above(n, k), Above(n, m)>> \in R
    BY <2>1, <2>2 DEF StrictSubsetOrdering
  <2>. QED BY <1>5, <2>3
<1>. QED BY <1>5, <1>6

(* A merge leaves a job list, without the jobs that no line and no list     *)
(* brings in (_merge_action).                                               *)
LEMMA MergedLists ==
    ASSUME NEW jobs, IsList(jobs), NEW lines, IsLog(lines), NEW out,
           DOMAIN jobs \cap out = {}, Unnamed(lines, out)
    PROVE  /\ IsList(Merge(jobs, lines))
           /\ DOMAIN Merge(jobs, lines) \cap out = {}
<1> DEFINE about(j) == {i \in DOMAIN lines : lines[i].id = j}
           last(j) == CHOOSE i \in about(j) : \A k \in about(j) : k <= i
           kept == {j \in Job : IF about(j) = {} THEN j \in DOMAIN jobs
                                ELSE lines[last(j)].action # "del"}
<1>1. DOMAIN lines = 1..Len(lines) /\ Len(lines) \in Nat
  BY DEF IsLog
<1>2. ASSUME NEW j, about(j) # {}
      PROVE  last(j) \in about(j)
  <2>1. \E m \in about(j) : \A k \in about(j) : k <= m
    <3> HIDE DEF last
    <3>1. about(j) \in SUBSET (1..Len(lines))
      BY <1>1
    <3>. QED BY <1>1, <1>2, <3>1, HasLast
  <2>. QED BY <2>1
<1>3. kept \subseteq Job /\ kept \cap out = {}
  <2>1. ASSUME NEW j \in kept, j \in out
        PROVE  FALSE
    <3>1. j \notin DOMAIN jobs
      BY <2>1
    <3>2. about(j) # {} /\ lines[last(j)].action # "del"
      BY <2>1, <3>1
    <3>3. last(j) \in DOMAIN lines /\ lines[last(j)].id = j
      BY <3>2, <1>2
    <3>. QED BY <2>1, <3>2, <3>3 DEF Unnamed
  <2>. QED BY <2>1
<1>4. Merge(jobs, lines) = [j \in kept |-> IF about(j) = {} THEN jobs[j]
                                          ELSE lines[last(j)].job]
  BY DEF Merge
<1>. QED
  <2> HIDE DEF kept, about, last
  <2>. QED BY <1>3, <1>4 DEF IsList

(* Merging nothing changes nothing.                                         *)
LEMMA MergedNothing ==
    ASSUME NEW jobs, IsList(jobs)
    PROVE  Merge(jobs, <<>>) = jobs
BY DEF Merge, IsList

(* A run takes no job into the list (_execute_job).                         *)
LEMMA RunLists ==
    ASSUME NEW jobs, IsList(jobs), NEW j, NEW o, NEW r \in After(jobs, j, o)
    PROVE  IsList(r) /\ DOMAIN r \subseteq DOMAIN jobs
<1>1. CASE j \notin DOMAIN jobs
  BY <1>1 DEF After
<1>2. CASE j \in DOMAIN jobs
  <2>1. j \in Job
    BY <1>2 DEF IsList
  <2>2. \/ \E job : r = With(jobs, j, job)
        \/ r = Without(jobs, {j})
    BY <1>2 DEF After
  <2>3. ASSUME NEW job, r = With(jobs, j, job)
        PROVE  IsList(r) /\ DOMAIN r \subseteq DOMAIN jobs
    <3>1. IsList(With(jobs, j, job)) /\ DOMAIN With(jobs, j, job) = DOMAIN jobs \cup {j}
      BY <2>1, EditedLists
    <3>. QED BY <1>2, <2>3, <3>1
  <2>4. CASE r = Without(jobs, {j})
    <3>1. IsList(Without(jobs, {j})) /\ DOMAIN Without(jobs, {j}) = DOMAIN jobs \ {j}
      BY EditedLists
    <3>. QED BY <2>4, <3>1
  <2>. QED BY <2>2, <2>3, <2>4
<1>. QED BY <1>1, <1>2

(* A save puts memory and file together or leaves the memory dirty.         *)
LEMMA SaveSettles ==
    ASSUME NEW st, IsStore(st), st.loaded, NEW out,
           DOMAIN st.jobs \cap out = {}, Unnamed(st.lines, out),
           NEW s \in Save(st)
    PROVE  /\ IsStore(s.st) /\ s.st.loaded /\ Settled(s.st)
           /\ KeepsOut(s.st, out) /\ s.st.jobs = st.jobs /\ s.st.lines = st.lines
           /\ s.st.disk \in {st.disk, st.jobs}
           /\ ~s.ok => s.st.dirty
<1>1. \/ s = Result(TRUE, [OnDisk(st) EXCEPT !.dirty = FALSE], 0)
      \/ s = Result(FALSE, [st EXCEPT !.dirty = TRUE], 1)
      \/ s = Result(FALSE, [OnDisk(st) EXCEPT !.dirty = TRUE], 1)
  BY DEF Save
<1>2. CASE s = Result(TRUE, [OnDisk(st) EXCEPT !.dirty = FALSE], 0)
  BY <1>2 DEF Result, OnDisk, IsStore, Fields, Settled, KeepsOut
<1>3. CASE s = Result(FALSE, [st EXCEPT !.dirty = TRUE], 1)
  BY <1>3 DEF Result, IsStore, Fields, Settled, KeepsOut
<1>4. CASE s = Result(FALSE, [OnDisk(st) EXCEPT !.dirty = TRUE], 1)
  BY <1>4 DEF Result, OnDisk, IsStore, Fields, Settled, KeepsOut
<1>. QED BY <1>1, <1>2, <1>3, <1>4

(* A load of the owner leaves memory and file together, unless it keeps the *)
(* memory because a job is executing; it takes up nobody it should not.     *)
LEMMA LoadSettles ==
    ASSUME NEW st, IsStore(st), NEW out, KeepsOut(st, out),
           NEW owner, NEW executing, NEW l \in Load(st, owner, executing)
    PROVE  /\ IsStore(l.st) /\ KeepsOut(l.st, out)
           /\ st.loaded \/ l.ok => l.st.loaded
           /\ l.st.disk \in {st.disk, l.st.jobs}
           /\ owner /\ (executing => Settled(st)) => Settled(l.st)
<1>1. CASE st.loaded /\ (st.dirty \/ executing)
  <2>1. l = Result(TRUE, st, 0)
    BY <1>1 DEF Load
  <2>. QED BY <1>1, <2>1 DEF Result, Settled
<1>2. CASE ~(st.loaded /\ (st.dirty \/ executing)) /\ st.file = "corrupt"
  <2>1. l = Result(st.loaded, [st EXCEPT !.file = "missing"], 0)
    BY <1>2 DEF Load
  <2>. QED BY <1>2, <2>1 DEF Result, IsStore, Fields, KeepsOut, Settled
<1>3. CASE ~(st.loaded /\ (st.dirty \/ executing)) /\ st.file # "corrupt"
  <2> DEFINE merged == [st EXCEPT !.loaded = TRUE, !.jobs = Merge(st.disk, st.lines)]
             emptied == [merged EXCEPT !.lines = <<>>]
  <2>1. ~st.dirty /\ DOMAIN st.disk \cap out = {} /\ Unnamed(st.lines, out)
    BY <1>3 DEF IsStore, KeepsOut
  <2>2. IsList(Merge(st.disk, st.lines)) /\ DOMAIN Merge(st.disk, st.lines) \cap out = {}
    BY <2>1, MergedLists DEF IsStore
  <2>3. /\ IsStore(merged) /\ KeepsOut(merged, out) /\ merged.loaded
        /\ merged.disk = st.disk /\ merged.jobs = Merge(st.disk, st.lines)
    <3>1. /\ merged = [f \in Fields |-> merged[f]]
          /\ merged.loaded = TRUE /\ merged.jobs = Merge(st.disk, st.lines)
          /\ merged.dirty = st.dirty /\ merged.file = st.file
          /\ merged.disk = st.disk /\ merged.lines = st.lines
      BY DEF IsStore, Fields
    <3> HIDE DEF merged
    <3>. QED BY <2>1, <2>2, <3>1 DEF IsStore, KeepsOut
  <2>4. CASE owner /\ st.lines # <<>>
    <3>1. l \in Save(emptied)
      BY <1>3, <2>4 DEF Load
    <3>2. IsLog(<<>>) /\ Unnamed(<<>>, out)
      BY DEF IsLog, Unnamed
    <3>3. /\ IsStore(emptied) /\ emptied.loaded
          /\ DOMAIN emptied.jobs \cap out = {} /\ Unnamed(emptied.lines, out)
          /\ emptied.disk = st.disk
      <4>1. /\ emptied = [f \in Fields |-> emptied[f]] /\ emptied.lines = <<>>
            /\ emptied.loaded = merged.loaded /\ emptied.jobs = merged.jobs
            /\ emptied.dirty = merged.dirty /\ emptied.disk = merged.disk
        <5> HIDE DEF merged
        <5>. QED BY <2>3 DEF IsStore, Fields
      <4> HIDE DEF emptied, merged
      <4>. QED BY <2>3, <3>2, <4>1 DEF IsStore, KeepsOut
    <3> HIDE DEF emptied, merged
    <3>. QED BY <3>1, <3>3, SaveSettles
  <2>5. CASE ~(owner /\ st.lines # <<>>)
    <3>1. l = Result(TRUE, merged, 0)
      BY <1>3, <2>5 DEF Load
    <3>2. owner => merged.jobs = merged.disk
      BY <2>5, <2>3, MergedNothing DEF IsStore
    <3> HIDE DEF merged
    <3>. QED BY <2>3, <3>1, <3>2 DEF Result, Settled
  <2>. QED BY <2>4, <2>5
<1>. QED BY <1>1, <1>2, <1>3

(* Between two jobs of a tick the list is as the last one left it, and the  *)
(* tick ends with a save (_on_timer).                                       *)
LEMMA RunDueSettles ==
    ASSUME NEW st, IsStore(st), st.loaded, NEW out, KeepsOut(st, out),
           NoJob \notin out, NEW due, DOMAIN due \cap out = {}, RunDue(st, due)
    PROVE  /\ IsStore(store') /\ store'.loaded /\ KeepsOut(store', out)
           /\ store'.disk \in {st.disk, st.jobs}
           /\ timer'.job \notin out /\ DOMAIN timer'.due \cap out = {}
           /\ timer'.pc = "asleep" => Settled(store')
<1>1. CASE DOMAIN due = {}
  <2>1. PICK s \in Save(st) : store' = s.st
    BY <1>1 DEF RunDue, Becomes
  <2>2. timer'.job = NoJob /\ DOMAIN timer'.due = {}
    BY <1>1 DEF RunDue, Asleep, NoJobs
  <2>3. /\ IsStore(s.st) /\ s.st.loaded /\ Settled(s.st) /\ KeepsOut(s.st, out)
        /\ s.st.disk \in {st.disk, st.jobs}
    BY <2>1, SaveSettles DEF KeepsOut
  <2>. QED BY <2>1, <2>2, <2>3
<1>2. CASE DOMAIN due # {}
  <2>1. PICK j \in DOMAIN due :
           /\ Becomes(Result(TRUE, st, 0))
           /\ timer' = [pc |-> "executing", job |-> j, due |-> Without(due, {j})]
    BY <1>2 DEF RunDue
  <2>2. store' = st
    BY <2>1 DEF Becomes, Result
  <2>3. timer'.pc = "executing" /\ timer'.job = j
        /\ DOMAIN timer'.due \subseteq DOMAIN due
    BY <2>1 DEF Without
  <2>. QED BY <2>2, <2>3
<1>. QED BY <1>1, <1>2

-----------------------------------------------------------------------------
\* Each action preserves the invariant.

(* The gateway goes down, in order or not.                                  *)
LEMMA EndsPreserves ==
    ASSUME ConstantsOK, CInv, NEW st, IsStore(st), Unnamed(st.lines, Outcast),
           DOMAIN st.disk \cap Unborn = {}, Ends(st)
    PROVE  CInv'
<1>1. /\ store' = [st EXCEPT !.loaded = FALSE, !.jobs = NoJobs, !.dirty = FALSE]
      /\ phase' = "down" /\ timer' = Off /\ manual' = NoJob
      /\ refused' = {} /\ born' = born
  BY DEF Ends
<1>2. /\ store' = [f \in Fields |-> store'[f]]
      /\ store'.loaded = FALSE /\ store'.jobs = NoJobs /\ store'.dirty = FALSE
      /\ store'.disk = st.disk /\ store'.lines = st.lines
  BY <1>1 DEF IsStore, Fields
<1>3. IsList(NoJobs) /\ DOMAIN NoJobs = {}
  BY DEF IsList, NoJobs
<1>4. IsStore(store')
  BY <1>2, <1>3 DEF IsStore
<1>5. Outcast' = Unborn /\ Unborn' = Unborn /\ Unborn \subseteq Outcast
  BY <1>1 DEF Outcast, Unborn
<1>6. KeepsOut(store', Outcast')
  BY <1>2, <1>3, <1>5 DEF KeepsOut, Unnamed
<1>7. timer'.pc = "off" /\ timer'.job = NoJob /\ DOMAIN timer'.due = {}
  BY <1>1, <1>3 DEF Off
<1>8. NoJob \notin Outcast'
  BY <1>5 DEF Unborn, ConstantsOK
<1>. QED BY <1>1, <1>2, <1>4, <1>5, <1>6, <1>7, <1>8 DEF CInv

(* No system job is among those no load may take up, and neither is the    *)
(* value that stands for no job.                                           *)
LEMMA NoOutcasts ==
    ASSUME ConstantsOK, CInv
    PROVE  NoJob \notin Outcast /\ Unborn \subseteq Outcast /\ Outcast \cap System = {}
BY DEF CInv, Outcast, Unborn, ConstantsOK

(* The gateway is killed.                                                  *)
LEMMA CrashPreserves == ASSUME ConstantsOK, CInv, Crash PROVE CInv'
BY EndsPreserves DEF Crash, CInv, KeepsOut

(* gateway_runtime lists the jobs before the service starts.               *)
LEMMA BootPreserves == ASSUME ConstantsOK, CInv, Boot PROVE CInv'
<1>1. PICK l \in Load(store, FALSE, FALSE) : store' = l.st
  BY DEF Boot, Becomes
<1>2. /\ IsStore(store') /\ KeepsOut(store', Outcast)
      /\ store'.disk \in {store.disk, store'.jobs}
  BY <1>1, LoadSettles DEF CInv
<1>3. phase = "down" /\ phase' = "boot" /\ UNCHANGED <<timer, manual, born, refused>>
  BY DEF Boot, history
<1>4. Outcast' = Outcast /\ Unborn' = Unborn
  BY <1>3 DEF Outcast, Unborn
<1>. QED BY <1>2, <1>3, <1>4, NoOutcasts DEF CInv, KeepsOut

(* What has to be shown of a step that creates and refuses no job.          *)
LEMMA SameJobs ==
    ASSUME CInv, UNCHANGED <<born, refused>>,
           IsStore(store'), KeepsOut(store', Outcast),
           DOMAIN store'.disk \cap Unborn = {},
           phase' = "up" => store'.loaded,
           phase' # "up" => timer'.pc = "off" /\ manual' = NoJob,
           phase' = "up" /\ timer'.pc = "asleep" => Settled(store'),
           timer'.job \notin Outcast, DOMAIN timer'.due \cap Outcast = {}
    PROVE  CInv'
<1>1. Outcast' = Outcast /\ Unborn' = Unborn
  BY DEF Outcast, Unborn
<1>. QED BY <1>1 DEF CInv, KeepsOut

(* A list that is changed changes nothing else.                             *)
LEMMA EditedStore ==
    ASSUME NEW st, IsStore(st), NEW jobs, IsList(jobs)
    PROVE  LET e == [st EXCEPT !.jobs = jobs]
           IN  /\ IsStore(e) /\ e.loaded = st.loaded /\ e.jobs = jobs
               /\ e.dirty = st.dirty /\ e.disk = st.disk /\ e.lines = st.lines
<1> DEFINE e == [st EXCEPT !.jobs = jobs]
<1>1. /\ e = [f \in Fields |-> e[f]]
      /\ e.loaded = st.loaded /\ e.jobs = jobs /\ e.dirty = st.dirty
      /\ e.disk = st.disk /\ e.lines = st.lines
  BY DEF IsStore, Fields
<1>2. IsStore(e)
  <2> HIDE DEF e
  <2>. QED BY <1>1 DEF IsStore
<1>. QED BY <1>1, <1>2

(* Arming the timer schedules nobody (_arm_timer).                          *)
LEMMA ArmedKeepsOut ==
    ASSUME ConstantsOK, CInv
    PROVE  /\ Armed.job \notin Outcast /\ DOMAIN Armed.due \cap Outcast = {}
           /\ Armed.pc = "asleep" => timer.pc # "executing"
BY NoOutcasts DEF Armed, Asleep, NoJobs, CInv

(* What the gateway loads before it changes the list.                       *)
LEMMA LoadsSettle ==
    ASSUME ConstantsOK, CInv, NEW l \in Loads
    PROVE  /\ IsStore(l.st) /\ KeepsOut(l.st, Outcast)
           /\ DOMAIN l.st.disk \cap Unborn = {}
           /\ store.loaded \/ l.ok => l.st.loaded
           /\ phase = "up" /\ timer.pc = "asleep" => Settled(l.st)
<1>1. /\ IsStore(l.st) /\ KeepsOut(l.st, Outcast)
      /\ l.st.disk \in {store.disk, l.st.jobs}
      /\ store.loaded \/ l.ok => l.st.loaded
      /\ phase = "up" /\ (Executing => Settled(store)) => Settled(l.st)
  BY LoadSettles DEF Loads, CInv
<1>. QED BY <1>1, NoOutcasts DEF CInv, KeepsOut

(* A job list is changed and saved (every mutator, registration and start). *)
LEMMA EditSettles ==
    ASSUME ConstantsOK, CInv, NEW st, IsStore(st), st.loaded,
           KeepsOut(st, Outcast), DOMAIN st.disk \cap Unborn = {},
           NEW jobs, IsList(jobs), DOMAIN jobs \cap Outcast = {},
           NEW s \in Save([st EXCEPT !.jobs = jobs])
    PROVE  /\ IsStore(s.st) /\ s.st.loaded /\ Settled(s.st)
           /\ KeepsOut(s.st, Outcast) /\ DOMAIN s.st.disk \cap Unborn = {}
           /\ s.st.jobs = jobs
<1>1. Unnamed(st.lines, Outcast) /\ Unborn \subseteq Outcast
  BY NoOutcasts DEF KeepsOut
<1>2. /\ IsStore(s.st) /\ s.st.loaded /\ Settled(s.st)
      /\ KeepsOut(s.st, Outcast) /\ s.st.jobs = jobs
      /\ s.st.disk \in {st.disk, jobs}
  <2> DEFINE e == [st EXCEPT !.jobs = jobs]
  <2>1. s \in Save(e) /\ e = [st EXCEPT !.jobs = jobs]
    OBVIOUS
  <2>2. /\ IsStore(e) /\ e.loaded = st.loaded /\ e.jobs = jobs
        /\ e.dirty = st.dirty /\ e.disk = st.disk /\ e.lines = st.lines
    BY EditedStore
  <2> HIDE DEF e
  <2>. QED BY <1>1, <2>1, <2>2, SaveSettles
<1>3. DOMAIN s.st.disk \cap Unborn = {}
  BY <1>1, <1>2
<1>. QED BY <1>2, <1>3

(* A system job is registered and saved, or the boot fails.                *)
LEMMA RegisterPreserves ==
    ASSUME ConstantsOK, CInv, NEW j \in System, NEW schedule, Register(j, schedule)
    PROVE  CInv'
<1>1. phase = "boot"
  BY DEF Register
<1>2. PICK l \in Loads :
         \/ ~l.ok /\ Ends(l.st)
         \/ /\ l.ok
            /\ \E s \in Save([l.st EXCEPT !.jobs =
                        With(@, j, RegisteredJob(@, j, schedule))]) :
                  \/ Ends(s.st)
                  \/ /\ store' = s.st
                     /\ UNCHANGED <<phase, timer, manual, born, refused>>
  BY DEF Register, Becomes, history
<1>3. /\ IsStore(l.st) /\ KeepsOut(l.st, Outcast)
      /\ DOMAIN l.st.disk \cap Unborn = {}
      /\ l.ok => l.st.loaded
  BY LoadsSettle
<1>4. CASE Ends(l.st)
  BY <1>3, <1>4, EndsPreserves DEF KeepsOut
<1>5. ASSUME l.ok,
             NEW s \in Save([l.st EXCEPT !.jobs =
                        With(@, j, RegisteredJob(@, j, schedule))]),
             \/ Ends(s.st)
             \/ store' = s.st /\ UNCHANGED <<phase, timer, manual, born, refused>>
      PROVE  CInv'
  <2> DEFINE jobs == With(l.st.jobs, j, RegisteredJob(l.st.jobs, j, schedule))
  <2>1. IsList(jobs) /\ DOMAIN jobs = DOMAIN l.st.jobs \cup {j}
    BY <1>3, EditedLists DEF IsStore, ConstantsOK
  <2>2. DOMAIN jobs \cap Outcast = {}
    BY <1>3, <2>1, NoOutcasts DEF KeepsOut
  <2>3. s \in Save([l.st EXCEPT !.jobs = jobs])
    BY <1>5
  <2> HIDE DEF jobs
  <2>4. /\ IsStore(s.st) /\ s.st.loaded /\ KeepsOut(s.st, Outcast)
        /\ DOMAIN s.st.disk \cap Unborn = {}
    <3>1. l.st.loaded
      BY <1>3, <1>5
    <3>. QED BY <1>3, <2>1, <2>2, <2>3, <3>1, EditSettles
  <2>5. CASE Ends(s.st)
    BY <2>4, <2>5, EndsPreserves DEF KeepsOut
  <2>6. CASE store' = s.st /\ UNCHANGED <<phase, timer, manual, born, refused>>
    BY <1>1, <2>4, <2>6, SameJobs DEF CInv
  <2>. QED BY <1>5, <2>5, <2>6
<1>. QED BY <1>2, <1>4, <1>5

(* start: loads, recomputes the slots, saves and arms the timer.           *)
LEMMA StartPreserves == ASSUME ConstantsOK, CInv, Start PROVE CInv'
<1>1. phase = "boot"
  BY DEF Start
<1>2. PICK l \in Load(store, TRUE, FALSE) :
         \/ ~l.ok /\ Ends(l.st)
         \/ /\ l.ok
            /\ \E s \in Save([l.st EXCEPT !.jobs = Recomputed(@)]) :
                  \/ Ends(s.st)
                  \/ /\ store' = s.st /\ phase' = "up" /\ timer' = Asleep
                     /\ UNCHANGED <<manual, born, refused>>
  BY DEF Start, Becomes, history
<1>3. /\ IsStore(l.st) /\ KeepsOut(l.st, Outcast)
      /\ DOMAIN l.st.disk \cap Unborn = {}
      /\ l.ok => l.st.loaded
  <2>1. /\ IsStore(l.st) /\ KeepsOut(l.st, Outcast)
        /\ l.ok => l.st.loaded
        /\ l.st.disk \in {store.disk, l.st.jobs}
    BY LoadSettles DEF CInv
  <2>. QED BY <2>1, NoOutcasts DEF CInv, KeepsOut
<1>4. CASE Ends(l.st)
  BY <1>3, <1>4, EndsPreserves DEF KeepsOut
<1>5. ASSUME l.ok, NEW s \in Save([l.st EXCEPT !.jobs = Recomputed(@)]),
             \/ Ends(s.st)
             \/ /\ store' = s.st /\ phase' = "up" /\ timer' = Asleep
                /\ UNCHANGED <<manual, born, refused>>
      PROVE  CInv'
  <2> DEFINE jobs == Recomputed(l.st.jobs)
  <2>1. IsList(jobs) /\ DOMAIN jobs = DOMAIN l.st.jobs
    BY <1>3 DEF Recomputed, IsStore, IsList
  <2>2. DOMAIN jobs \cap Outcast = {}
    BY <1>3, <2>1 DEF KeepsOut
  <2>3. s \in Save([l.st EXCEPT !.jobs = jobs])
    BY <1>5
  <2> HIDE DEF jobs
  <2>4. /\ IsStore(s.st) /\ s.st.loaded /\ KeepsOut(s.st, Outcast)
        /\ Settled(s.st) /\ DOMAIN s.st.disk \cap Unborn = {}
    <3>1. l.st.loaded
      BY <1>3, <1>5
    <3>. QED BY <1>3, <2>1, <2>2, <2>3, <3>1, EditSettles
  <2>5. CASE Ends(s.st)
    BY <2>4, <2>5, EndsPreserves DEF KeepsOut
  <2>6. CASE /\ store' = s.st /\ phase' = "up" /\ timer' = Asleep
             /\ UNCHANGED <<manual, born, refused>>
    <3>1. timer'.job = NoJob /\ DOMAIN timer'.due = {}
      BY <2>6 DEF Asleep, NoJobs
    <3>. QED BY <2>4, <2>6, <3>1, NoOutcasts, SameJobs
  <2>. QED BY <1>5, <2>5, <2>6
<1>. QED BY <1>2, <1>4, <1>5

(* A tick of the timer.                                                     *)
LEMMA TickSettles ==
    ASSUME ConstantsOK, CInv, NEW st, IsStore(st), st.loaded,
           KeepsOut(st, Outcast), DOMAIN st.disk \cap Unborn = {},
           NEW due, DOMAIN due \cap Outcast = {}, RunDue(st, due),
           phase = "up", UNCHANGED <<phase, born, refused>>
    PROVE  CInv'
<1>1. /\ IsStore(store') /\ store'.loaded /\ KeepsOut(store', Outcast)
      /\ store'.disk \in {st.disk, st.jobs}
      /\ timer'.job \notin Outcast /\ DOMAIN timer'.due \cap Outcast = {}
      /\ timer'.pc = "asleep" => Settled(store')
  BY NoOutcasts, RunDueSettles
<1>2. DOMAIN store'.disk \cap Unborn = {}
  BY <1>1, NoOutcasts DEF KeepsOut
<1>. QED BY <1>1, <1>2, SameJobs

(* _on_timer: a dirty store is saved, another one is loaded and run.       *)
LEMMA TimerFiresPreserves == ASSUME ConstantsOK, CInv, TimerFires PROVE CInv'
<1>1. phase = "up" /\ timer.pc = "asleep" /\ UNCHANGED <<phase, born, refused>>
  BY DEF TimerFires
<1>2. /\ IsStore(store) /\ store.loaded /\ Settled(store)
      /\ KeepsOut(store, Outcast) /\ DOMAIN store.disk \cap Unborn = {}
  BY <1>1 DEF CInv
<1>3. CASE store.dirty
  <2>1. RunDue(store, NoJobs) /\ DOMAIN NoJobs = {}
    BY <1>3 DEF TimerFires, NoJobs
  <2>. QED BY <1>1, <1>2, <2>1, TickSettles
<1>4. CASE ~store.dirty
  <2>1. PICK l \in Load(store, TRUE, manual # NoJob) :
           \/ l.ok /\ RunDue(l.st, DueSlots(l.st.jobs))
           \/ store' = l.st /\ UNCHANGED timer
    BY <1>4 DEF TimerFires, Becomes
  <2>2. /\ IsStore(l.st) /\ KeepsOut(l.st, Outcast)
        /\ l.st.loaded /\ l.st.disk \in {store.disk, l.st.jobs}
        /\ Settled(l.st)
    BY <1>2, LoadSettles
  <2>3. DOMAIN l.st.disk \cap Unborn = {}
    BY <1>2, <2>2, NoOutcasts DEF KeepsOut
  <2>4. CASE RunDue(l.st, DueSlots(l.st.jobs))
    <3>1. DOMAIN DueSlots(l.st.jobs) \cap Outcast = {}
      BY <2>2 DEF DueSlots, KeepsOut
    <3>. QED BY <1>1, <2>2, <2>3, <2>4, <3>1, TickSettles
  <2>5. CASE store' = l.st /\ UNCHANGED timer
    BY <1>1, <2>2, <2>3, <2>5, SameJobs DEF CInv
  <2>. QED BY <2>1, <2>4, <2>5
<1>. QED BY <1>3, <1>4

(* _execute_job ends: the next due job, or the save of the tick.           *)
LEMMA TimerJobEndsPreserves ==
    ASSUME ConstantsOK, CInv, NEW o, TimerJobEnds(o)
    PROVE  CInv'
<1>1. phase = "up" /\ UNCHANGED <<phase, born, refused>>
  BY DEF TimerJobEnds, CInv
<1>2. PICK jobs \in After(store.jobs, timer.job, o) :
         RunDue([store EXCEPT !.jobs = jobs], timer.due)
  BY DEF TimerJobEnds
<1>3. /\ IsStore(store) /\ store.loaded
      /\ KeepsOut(store, Outcast) /\ DOMAIN store.disk \cap Unborn = {}
      /\ DOMAIN timer.due \cap Outcast = {}
  BY <1>1 DEF CInv
<1>4. IsList(jobs) /\ DOMAIN jobs \subseteq DOMAIN store.jobs
  BY <1>3, RunLists DEF IsStore
<1> DEFINE e == [store EXCEPT !.jobs = jobs]
<1>5. /\ IsStore(e) /\ e.loaded = store.loaded /\ e.jobs = jobs
      /\ e.dirty = store.dirty /\ e.disk = store.disk /\ e.lines = store.lines
  BY <1>3, <1>4, EditedStore
<1>6. RunDue(e, timer.due)
  BY <1>2
<1> HIDE DEF e
<1>7. KeepsOut(e, Outcast)
  BY <1>3, <1>4, <1>5 DEF KeepsOut
<1>. QED BY <1>1, <1>3, <1>5, <1>6, <1>7, TickSettles

(* run_job up to on_job: a save of what is dirty, and a load.              *)
LEMMA ManualRunPreserves ==
    ASSUME ConstantsOK, CInv, NEW j, ManualRun(j)
    PROVE  CInv'
<1>1. phase = "up" /\ timer' = Armed /\ UNCHANGED <<phase, born, refused>>
  BY DEF ManualRun, history
<1>2. PICK s \in IF store.dirty THEN Save(store) ELSE {Result(TRUE, store, 0)} :
         \/ ~s.ok /\ store' = s.st
         \/ \E l \in Load(s.st, TRUE, timer.pc = "executing") : store' = l.st
  BY DEF ManualRun, Becomes
<1>3. /\ IsStore(store) /\ store.loaded
      /\ KeepsOut(store, Outcast) /\ DOMAIN store.disk \cap Unborn = {}
      /\ timer.pc = "asleep" => Settled(store)
  BY <1>1 DEF CInv
<1>4. /\ IsStore(s.st) /\ s.st.loaded /\ KeepsOut(s.st, Outcast)
      /\ DOMAIN s.st.disk \cap Unborn = {}
      /\ ~s.ok => s.st.dirty
  <2>1. CASE store.dirty
    <3>1. /\ IsStore(s.st) /\ s.st.loaded /\ KeepsOut(s.st, Outcast)
          /\ s.st.disk \in {store.disk, store.jobs}
          /\ ~s.ok => s.st.dirty
      BY <1>2, <1>3, <2>1, SaveSettles DEF KeepsOut
    <3>. QED BY <1>3, <3>1, NoOutcasts DEF KeepsOut
  <2>2. CASE ~store.dirty
    <3>1. s = Result(TRUE, store, 0)
      BY <1>2, <2>2
    <3>. QED BY <1>3, <3>1 DEF Result
  <2>. QED BY <2>1, <2>2
<1>5. /\ IsStore(store') /\ store'.loaded /\ KeepsOut(store', Outcast)
      /\ DOMAIN store'.disk \cap Unborn = {}
      /\ timer.pc # "executing" => Settled(store')
  <2>1. CASE ~s.ok /\ store' = s.st
    BY <1>4, <2>1 DEF Settled
  <2>2. CASE \E l \in Load(s.st, TRUE, timer.pc = "executing") : store' = l.st
    <3>1. PICK l \in Load(s.st, TRUE, timer.pc = "executing") : store' = l.st
      BY <2>2
    <3>2. /\ IsStore(l.st) /\ KeepsOut(l.st, Outcast) /\ l.st.loaded
          /\ l.st.disk \in {s.st.disk, l.st.jobs}
          /\ timer.pc # "executing" => Settled(l.st)
      BY <1>4, LoadSettles
    <3>. QED BY <1>4, <3>1, <3>2, NoOutcasts DEF KeepsOut
  <2>. QED BY <1>2, <2>1, <2>2
<1>6. /\ timer'.job \notin Outcast /\ DOMAIN timer'.due \cap Outcast = {}
      /\ timer'.pc = "asleep" => Settled(store')
  BY <1>1, <1>5, ArmedKeepsOut
<1>. QED BY <1>1, <1>5, <1>6, SameJobs

(* run_job after on_job: the outcome is saved, the timer armed.            *)
LEMMA ManualRunEndsPreserves ==
    ASSUME ConstantsOK, CInv, NEW o, ManualRunEnds(o)
    PROVE  CInv'
<1>1. phase = "up" /\ timer' = Armed /\ UNCHANGED <<phase, born, refused>>
  BY DEF ManualRunEnds, CInv
<1>2. PICK jobs \in After(store.jobs, manual, o) :
         \E s \in Save([store EXCEPT !.jobs = jobs]) : store' = s.st
  BY DEF ManualRunEnds, Becomes
<1>3. /\ IsStore(store) /\ store.loaded
      /\ KeepsOut(store, Outcast) /\ DOMAIN store.disk \cap Unborn = {}
  BY <1>1 DEF CInv
<1>4. IsList(jobs) /\ DOMAIN jobs \cap Outcast = {}
  BY <1>3, RunLists DEF IsStore, KeepsOut
<1>5. /\ IsStore(store') /\ store'.loaded /\ Settled(store')
      /\ KeepsOut(store', Outcast) /\ DOMAIN store'.disk \cap Unborn = {}
  BY <1>2, <1>3, <1>4, EditSettles
<1>6. timer'.job \notin Outcast /\ DOMAIN timer'.due \cap Outcast = {}
  BY <1>1, ArmedKeepsOut
<1>. QED BY <1>1, <1>5, <1>6, SameJobs

(* list_jobs, get_job and status load.                                     *)
LEMMA PollPreserves == ASSUME ConstantsOK, CInv, Poll PROVE CInv'
<1>1. PICK l \in Loads : store' = l.st
  BY DEF Poll, Becomes
<1>2. phase = "up" /\ UNCHANGED <<phase, timer, manual, born, refused>>
  BY DEF Poll, history
<1>3. /\ IsStore(l.st) /\ KeepsOut(l.st, Outcast) /\ l.st.loaded
      /\ DOMAIN l.st.disk \cap Unborn = {}
      /\ timer.pc = "asleep" => Settled(l.st)
  BY <1>2, LoadsSettle DEF CInv
<1>. QED BY <1>1, <1>2, <1>3, SameJobs DEF CInv

(* A mutator: what it loaded stays, or a list without new jobs is saved.    *)
LEMMA ChangePreserves ==
    ASSUME ConstantsOK, CInv, phase = "up", NEW l \in Loads,
           UNCHANGED <<phase, manual, born, refused>>,
           \/ store' = l.st /\ timer' = timer
           \/ \E jobs :
                 /\ IsList(jobs) /\ DOMAIN jobs \subseteq DOMAIN l.st.jobs
                 /\ \E s \in Save([l.st EXCEPT !.jobs = jobs]) :
                       store' = s.st /\ timer' \in {Armed, timer}
    PROVE  CInv'
<1>1. /\ IsStore(l.st) /\ KeepsOut(l.st, Outcast) /\ l.st.loaded
      /\ DOMAIN l.st.disk \cap Unborn = {}
      /\ timer.pc = "asleep" => Settled(l.st)
  BY LoadsSettle DEF CInv
<1>2. CASE store' = l.st /\ timer' = timer
  BY <1>1, <1>2, SameJobs DEF CInv
<1>3. ASSUME NEW jobs, IsList(jobs), DOMAIN jobs \subseteq DOMAIN l.st.jobs,
             NEW s \in Save([l.st EXCEPT !.jobs = jobs]),
             store' = s.st, timer' \in {Armed, timer}
      PROVE  CInv'
  <2>1. DOMAIN jobs \cap Outcast = {}
    BY <1>1, <1>3 DEF KeepsOut
  <2>2. /\ IsStore(s.st) /\ s.st.loaded /\ Settled(s.st)
        /\ KeepsOut(s.st, Outcast) /\ DOMAIN s.st.disk \cap Unborn = {}
    BY <1>1, <1>3, <2>1, EditSettles
  <2>3. timer'.job \notin Outcast /\ DOMAIN timer'.due \cap Outcast = {}
    BY <1>3, ArmedKeepsOut DEF CInv
  <2>. QED BY <1>3, <2>2, <2>3, SameJobs
<1>. QED BY <1>2, <1>3

(* The operator's edits of a job: none of them adds one.                    *)
LEMMA EditPreserves ==
    ASSUME ConstantsOK, CInv, NEW j \in Job,
           \/ Remove(j)
           \/ \E s \in Schedules : Update(j, s)
           \/ \E b \in BOOLEAN : Enable(j, b) \/ SetCommissioning(j, b)
    PROVE  CInv'
<1>1. phase = "up" /\ UNCHANGED <<phase, manual, born, refused>>
  BY DEF Remove, Update, Enable, SetCommissioning, Change
<1>2. PICK l \in Loads :
         \/ store' = l.st /\ timer' = timer
         \/ /\ j \in DOMAIN l.st.jobs
            /\ \E jobs :
                  /\ \/ jobs = Without(l.st.jobs, {j})
                     \/ \E job : jobs = With(l.st.jobs, j, job)
                  /\ \E s \in Save([l.st EXCEPT !.jobs = jobs]) :
                        store' = s.st /\ timer' \in {Armed, timer}
  <2>1. CASE Remove(j)
    BY <2>1 DEF Remove, Change, Becomes
  <2>2. CASE \E s \in Schedules : Update(j, s)
    BY <2>2 DEF Update, Change, Becomes
  <2>3. CASE \E b \in BOOLEAN : Enable(j, b)
    BY <2>3 DEF Enable, Change, Becomes
  <2>4. CASE \E b \in BOOLEAN : SetCommissioning(j, b)
    BY <2>4 DEF SetCommissioning, Change, Becomes
  <2>. QED BY <2>1, <2>2, <2>3, <2>4
<1>3. IsList(l.st.jobs)
  BY LoadsSettle DEF IsStore
<1>4. CASE store' = l.st /\ timer' = timer
  BY <1>1, <1>4, ChangePreserves
<1>5. ASSUME j \in DOMAIN l.st.jobs, NEW jobs,
             \/ jobs = Without(l.st.jobs, {j})
             \/ \E job : jobs = With(l.st.jobs, j, job),
             \E s \in Save([l.st EXCEPT !.jobs = jobs]) :
                store' = s.st /\ timer' \in {Armed, timer}
      PROVE  CInv'
  <2>1. IsList(jobs) /\ DOMAIN jobs \subseteq DOMAIN l.st.jobs
    <3>1. /\ IsList(Without(l.st.jobs, {j}))
          /\ DOMAIN Without(l.st.jobs, {j}) = DOMAIN l.st.jobs \ {j}
      BY <1>3, EditedLists
    <3>2. ASSUME NEW job
          PROVE  /\ IsList(With(l.st.jobs, j, job))
                 /\ DOMAIN With(l.st.jobs, j, job) = DOMAIN l.st.jobs \cup {j}
      BY <1>3, EditedLists
    <3>. QED BY <1>5, <3>1, <3>2
  <2>. QED BY <1>1, <1>5, <2>1, ChangePreserves
<1>. QED BY <1>2, <1>4, <1>5

(* Creating a job: a job that could not be saved is out of the list again,  *)
(* though it may be in the file (add_job).                                  *)
LEMMA AddPreserves ==
    ASSUME ConstantsOK, CInv, NEW j \in Job, NEW schedule, Add(j, schedule)
    PROVE  CInv'
<1> DEFINE out == Outcast \ {j}
<1>1. /\ phase = "up" /\ phase' = "up" /\ manual' = manual
      /\ born[j] = "nobody" /\ born' = [born EXCEPT ![j] = "gateway"]
  BY DEF Add
<1>2. /\ born' = [k \in Job |-> born'[k]] /\ Unborn' = Unborn \ {j}
      /\ \A k \in refused \cup System : born'[k] = "gateway"
      /\ j \in Outcast /\ j \notin refused /\ j \notin System
      /\ born'[j] = "gateway"
  BY <1>1 DEF CInv, Unborn, Outcast, ConstantsOK
<1>3. /\ refused' = refused => Outcast' = out
      /\ refused' = refused \cup {j} => Outcast' = Outcast
  BY <1>2 DEF Outcast
<1>4. PICK l \in Loads :
         \/ ~l.ok /\ store' = l.st /\ refused' = refused \cup {j} /\ timer' = timer
         \/ \E s \in Save([l.st EXCEPT !.jobs = With(@, j, NewJob(schedule))]) :
               \/ s.ok /\ store' = s.st /\ timer' = Armed /\ refused' = refused
               \/ /\ ~s.ok /\ store' = RolledBack(s.st, j) /\ timer' = timer
                  /\ refused' = refused \cup {j}
  BY DEF Add, Becomes, Result
<1>5. /\ IsStore(l.st) /\ KeepsOut(l.st, Outcast) /\ l.st.loaded
      /\ DOMAIN l.st.disk \cap Unborn = {}
      /\ timer.pc = "asleep" => Settled(l.st)
  BY <1>1, LoadsSettle DEF CInv
<1>6. /\ timer' \in {Armed, timer}
      /\ refused' \in {refused, refused \cup {j}}
  BY <1>4
<1>7. /\ timer'.job \notin Outcast /\ DOMAIN timer'.due \cap Outcast = {}
      /\ Outcast' \subseteq Outcast
  BY <1>2, <1>3, <1>6, ArmedKeepsOut DEF CInv
<1>8. refused' \subseteq Job \ System /\ \A k \in refused' \cup System : born'[k] = "gateway"
  BY <1>2, <1>6 DEF CInv
<1>9. SUFFICES /\ IsStore(store') /\ store'.loaded
               /\ timer'.pc = "asleep" => Settled(store')
               /\ KeepsOut(store', Outcast') /\ DOMAIN store'.disk \cap Unborn' = {}
  BY <1>1, <1>2, <1>7, <1>8 DEF CInv
<1>10. CASE store' = l.st /\ refused' = refused \cup {j} /\ timer' = timer
  BY <1>2, <1>3, <1>5, <1>10
<1>11. ASSUME NEW s \in Save([l.st EXCEPT !.jobs = With(@, j, NewJob(schedule))]),
              \/ s.ok /\ store' = s.st /\ timer' = Armed /\ refused' = refused
              \/ /\ ~s.ok /\ store' = RolledBack(s.st, j) /\ timer' = timer
                 /\ refused' = refused \cup {j}
       PROVE  /\ IsStore(store') /\ store'.loaded
              /\ timer'.pc = "asleep" => Settled(store')
              /\ KeepsOut(store', Outcast') /\ DOMAIN store'.disk \cap Unborn' = {}
  <2> DEFINE jobs == With(l.st.jobs, j, NewJob(schedule))
             e == [l.st EXCEPT !.jobs = jobs]
  <2>1. IsList(jobs) /\ DOMAIN jobs = DOMAIN l.st.jobs \cup {j}
    <3>1. IsList(l.st.jobs)
      BY <1>5 DEF IsStore
    <3>. QED BY <3>1, EditedLists
  <2>2. s \in Save(e)
    BY <1>11
  <2>3. /\ IsStore(e) /\ e.loaded = l.st.loaded /\ e.jobs = jobs
        /\ e.dirty = l.st.dirty /\ e.disk = l.st.disk /\ e.lines = l.st.lines
    <3> HIDE DEF jobs
    <3>. QED BY <1>5, <2>1, EditedStore
  <2> HIDE DEF e, jobs
  <2>4. DOMAIN jobs \cap out = {} /\ Unnamed(l.st.lines, out)
    BY <1>5, <2>1 DEF KeepsOut, Unnamed
  <2> HIDE DEF out
  <2>5. /\ IsStore(s.st) /\ s.st.loaded /\ Settled(s.st) /\ KeepsOut(s.st, out)
        /\ s.st.jobs = jobs /\ s.st.lines = l.st.lines
        /\ s.st.disk \in {l.st.disk, jobs}
        /\ ~s.ok => s.st.dirty
    BY <1>5, <2>2, <2>3, <2>4, SaveSettles
  <2>6. DOMAIN s.st.disk \cap Unborn' = {}
    BY <1>2, <1>5, <2>1, <2>5, NoOutcasts DEF KeepsOut
  <2>7. CASE s.ok /\ store' = s.st /\ timer' = Armed /\ refused' = refused
    BY <1>3, <2>5, <2>6, <2>7
  <2>8. CASE /\ ~s.ok /\ store' = RolledBack(s.st, j)
             /\ refused' = refused \cup {j}
    <3> DEFINE rest == Without(jobs, {j})
               e2 == [s.st EXCEPT !.jobs = rest]
    <3>1. IsList(rest) /\ DOMAIN rest = DOMAIN jobs \ {j}
      BY <2>1, EditedLists
    <3>2. store' = e2
      BY <2>5, <2>8 DEF RolledBack
    <3> HIDE DEF rest
    <3>3. /\ IsStore(e2) /\ e2.loaded = s.st.loaded /\ e2.jobs = rest
          /\ e2.dirty = s.st.dirty /\ e2.disk = s.st.disk /\ e2.lines = s.st.lines
      <4>1. IsStore(s.st)
        BY <2>5
      <4>. QED BY <3>1, <4>1, EditedStore
    <3> HIDE DEF e2
    <3>4. /\ IsStore(store') /\ store'.loaded /\ store'.dirty
          /\ store'.jobs = rest /\ store'.disk = s.st.disk
          /\ store'.lines = l.st.lines
      BY <2>5, <2>8, <3>2, <3>3
    <3>5. DOMAIN store'.jobs \cap Outcast = {}
      BY <1>5, <2>1, <3>1, <3>4 DEF KeepsOut
    <3>. QED BY <1>3, <1>5, <2>6, <2>8, <3>4, <3>5 DEF KeepsOut, Settled
  <2>. QED BY <1>11, <2>7, <2>8
<1>. QED BY <1>4, <1>10, <1>11

(* A log with one more line is a log.                                       *)
LEMMA LongerLog ==
    ASSUME NEW lines, IsLog(lines), NEW line, NEW out, Unnamed(lines, out),
           line.action = "del" \/ line.id \notin out
    PROVE  IsLog(Append(lines, line)) /\ Unnamed(Append(lines, line), out)
<1> DEFINE longer == Append(lines, line)
           S == {lines[i] : i \in DOMAIN lines} \cup {line}
<1>1. lines \in Seq(S)
  BY SeqDef DEF IsLog
<1>2. /\ longer \in Seq(S) /\ Len(longer) = Len(lines) + 1
      /\ \A i \in 1..Len(lines) : longer[i] = lines[i]
      /\ longer[Len(lines) + 1] = line
  <2>1. line \in S
    OBVIOUS
  <2> HIDE DEF S
  <2>. QED BY <1>1, <2>1, AppendProperties
<1>3. DOMAIN lines = 1..Len(lines) /\ DOMAIN longer = 1..(Len(lines) + 1)
      /\ Len(lines) \in Nat
  <2> HIDE DEF longer, S
  <2>. QED BY <1>1, <1>2, LenProperties
<1> HIDE DEF longer
<1>4. \A i \in DOMAIN longer : i \in DOMAIN lines \/ i = Len(lines) + 1
  BY <1>3
<1>5. Unnamed(longer, out)
  BY <1>2, <1>3, <1>4 DEF Unnamed
<1>6. longer \in [1..(Len(lines) + 1) -> {longer[i] : i \in DOMAIN longer}]
  <2>1. longer \in [1..Len(longer) -> S]
    BY <1>2, LenProperties
  <2> HIDE DEF S
  <2>. QED BY <1>2, <1>3, <2>1
<1>7. IsLog(longer)
  BY <1>3, <1>6, SeqDef DEF IsLog
<1>. QED BY <1>5, <1>7 DEF longer

(* A line of the second process: about a job that is none, it is a "del".   *)
LEMMA LinePreserves ==
    ASSUME ConstantsOK, CInv, NEW action, NEW j \in Job, NEW job,
           AppendAction(action, j, job),
           \/ born' = born /\ (action = "del" \/ j \notin Outcast)
           \/ born[j] = "nobody" /\ born' = [born EXCEPT ![j] = "agent"]
    PROVE  CInv'
<1> DEFINE line == [action |-> action, id |-> j, job |-> job]
<1>1. /\ store' = [store EXCEPT !.lines = Append(store.lines, line)]
      /\ UNCHANGED <<phase, timer, manual, refused>>
  BY DEF AppendAction
<1>2. IsStore(store) /\ IsLog(store.lines)
  BY DEF CInv, IsStore
<1>3. /\ Outcast' \subseteq Outcast /\ Unborn' \subseteq Unborn
      /\ action = "del" \/ j \notin Outcast'
      /\ born' = [k \in Job |-> born'[k]]
      /\ \A k \in refused \cup System : born'[k] = "gateway"
  <2>1. CASE born' = born /\ (action = "del" \/ j \notin Outcast)
    BY <1>1, <2>1 DEF CInv, Outcast, Unborn
  <2>2. CASE born[j] = "nobody" /\ born' = [born EXCEPT ![j] = "agent"]
    BY <1>1, <2>2 DEF CInv, Outcast, Unborn
  <2>. QED BY <2>1, <2>2
<1>4. Unnamed(store.lines, Outcast')
  BY <1>3 DEF CInv, KeepsOut, Unnamed
<1>5. IsLog(Append(store.lines, line)) /\ Unnamed(Append(store.lines, line), Outcast')
  <2>1. line.action = "del" \/ line.id \notin Outcast'
    BY <1>3
  <2> HIDE DEF line
  <2>. QED BY <1>2, <1>4, <2>1, LongerLog
<1> HIDE DEF line
<1>6. /\ store' = [f \in Fields |-> store'[f]]
      /\ store'.loaded = store.loaded /\ store'.jobs = store.jobs
      /\ store'.dirty = store.dirty /\ store'.file = store.file
      /\ store'.disk = store.disk /\ store'.lines = Append(store.lines, line)
  BY <1>1, <1>2 DEF IsStore, Fields
<1>7. IsStore(store')
  BY <1>2, <1>5, <1>6 DEF IsStore
<1>. QED BY <1>1, <1>3, <1>5, <1>6, <1>7 DEF CInv, KeepsOut, Settled

(* What the second process appends: it names jobs that it or the gateway   *)
(* gave.                                                                   *)
LEMMA AgentPreserves ==
    ASSUME ConstantsOK, CInv, NEW j \in Job,
           \/ \E s \in Schedules : AgentAdds(j, s)
           \/ AgentRemoves(j)
           \/ \E b \in BOOLEAN : AgentJudges(j, b)
    PROVE  CInv'
<1>1. ASSUME NEW s, AgentAdds(j, s)
      PROVE  CInv'
  <2>1. /\ AppendAction("add", j, NewJob(s)) /\ born[j] = "nobody"
        /\ born' = [born EXCEPT ![j] = "agent"]
    BY <1>1 DEF AgentAdds
  <2>. QED BY <2>1, LinePreserves
<1>2. CASE AgentRemoves(j)
  <2>1. AppendAction("del", j, NoJob) /\ born' = born
    BY <1>2 DEF AgentRemoves
  <2>. QED BY <2>1, LinePreserves
<1>3. ASSUME NEW b, AgentJudges(j, b)
      PROVE  CInv'
  <2>1. /\ AppendAction("update", j, Judged(Seen[j], b)) /\ born' = born
        /\ born[j] = "agent"
    BY <1>3 DEF AgentJudges
  <2>2. j \notin Outcast
    BY <2>1 DEF CInv, Outcast, Unborn
  <2>. QED BY <2>1, <2>2, LinePreserves
<1>. QED BY <1>1, <1>2, <1>3

(* Time passes.                                                            *)
LEMMA TickPreserves == ASSUME ConstantsOK, CInv, Tick PROVE CInv'
BY SameJobs DEF Tick, history, CInv

(* jobs.json becomes unreadable, and is moved away by whoever meets it.     *)
LEMMA CorruptionPreserves ==
    ASSUME ConstantsOK, CInv, Corrupt \/ MeetsCorruption
    PROVE  CInv'
<1>1. UNCHANGED <<phase, timer, manual, born, refused>>
  BY DEF Corrupt, MeetsCorruption, history
<1>2. \/ store' = [store EXCEPT !.file = "corrupt", !.disk = NoJobs]
      \/ store' = [store EXCEPT !.file = "missing"]
  BY DEF Corrupt, MeetsCorruption
<1>3. IsStore(store) /\ IsList(NoJobs) /\ DOMAIN NoJobs = {}
  BY DEF CInv, IsList, NoJobs
<1>4. /\ store' = [f \in Fields |-> store'[f]]
      /\ store'.loaded = store.loaded /\ store'.jobs = store.jobs
      /\ store'.dirty = store.dirty /\ store'.file # "good"
      /\ store'.disk \in {store.disk, NoJobs} /\ store'.lines = store.lines
  BY <1>2, <1>3 DEF IsStore, Fields
<1>5. IsStore(store')
  BY <1>3, <1>4 DEF IsStore
<1>6. KeepsOut(store', Outcast) /\ DOMAIN store'.disk \cap Unborn = {}
  BY <1>3, <1>4 DEF CInv, KeepsOut
<1>. QED BY <1>1, <1>4, <1>5, <1>6, SameJobs DEF CInv, Settled

-----------------------------------------------------------------------------
\* The theorems.

(* A machine without a job file.                                           *)
LEMMA CInitially == ASSUME ConstantsOK, Init PROVE CInv
<1>1. store = NewStore /\ phase = "down" /\ timer = Off /\ manual = NoJob
      /\ refused = {} /\ born = [j \in Job |-> IF j \in System THEN "gateway" ELSE "nobody"]
  BY DEF Init
<1>2. IsList(NoJobs) /\ DOMAIN NoJobs = {} /\ IsLog(<<>>)
  BY DEF IsList, NoJobs, IsLog
<1>3. /\ store = [f \in Fields |-> store[f]]
      /\ store.loaded = FALSE /\ store.jobs = NoJobs /\ store.dirty = FALSE
      /\ store.disk = NoJobs /\ store.lines = <<>>
  BY <1>1 DEF NewStore, Fields
<1>4. IsStore(store)
  BY <1>2, <1>3 DEF IsStore
<1>5. /\ timer.pc = "off" /\ timer.job = NoJob /\ DOMAIN timer.due = {}
  BY <1>1, <1>2 DEF Off
<1>6. NoJob \notin Outcast
  BY <1>1 DEF Outcast, Unborn, ConstantsOK
<1>7. KeepsOut(store, Outcast) /\ DOMAIN store.disk \cap Unborn = {}
  BY <1>2, <1>3 DEF KeepsOut, Unnamed
<1>. QED BY <1>1, <1>4, <1>5, <1>6, <1>7 DEF CInv, ConstantsOK

(* Every step.                                                             *)
LEMMA CPreserved == ASSUME ConstantsOK, CInv, [Next]_vars PROVE CInv'
<1>1. CASE Next
  BY <1>1, BootPreserves, StartPreserves, CrashPreserves, RegisterPreserves,
     TimerFiresPreserves, PollPreserves, TimerJobEndsPreserves,
     ManualRunEndsPreserves, ManualRunPreserves, AddPreserves, EditPreserves,
     AgentPreserves, CorruptionPreserves, TickPreserves DEF Next
<1>2. CASE UNCHANGED vars
  BY <1>2, SameJobs DEF vars, history, CInv
<1>. QED BY <1>1, <1>2

(* Who owns the job list: while the gateway is up the list in memory is the *)
(* file's, or is marked dirty, or belongs to a run in progress; and nothing *)
(* a load may take up, in the file, in memory or among the lines of the     *)
(* second process, is a job whose creation raised.                          *)
THEOREM StoreIsOwned == Spec => []CInv
<1>1. Init => CInv
  BY ConstantsOK, CInitially
<1>2. CInv /\ [Next]_vars => CInv'
  BY ConstantsOK, CPreserved
<1>. QED BY <1>1, <1>2, PTL DEF Spec

(* Between ticks, a memory that is not marked dirty is what the file says:  *)
(* a reload changes nothing (_load_store, _save_store, _on_timer).          *)
THEOREM CleanIsSaved == Spec => []CleanMeansSaved
<1>1. CInv => CleanMeansSaved
  BY DEF CInv, CleanMeansSaved, Settled
<1>. QED BY <1>1, StoreIsOwned, PTL

(* A job whose creation raised is never listed, armed or run by the process *)
(* that refused it, whatever the failed write left in the file (add_job).   *)
THEOREM RefusalIsFinal == Spec => []RefusedJobIsNoJob
<1>1. CInv => RefusedJobIsNoJob
  BY DEF CInv, RefusedJobIsNoJob, KeepsOut, Outcast
<1>. QED BY <1>1, StoreIsOwned, PTL

-----------------------------------------------------------------------------
\* A save and a load, field by field.

\* The store but for its list of jobs.
SameBut(st, st2) ==
    /\ IsStore(st2) /\ st2.loaded = st.loaded /\ st2.dirty = st.dirty
    /\ st2.file = st.file /\ st2.disk = st.disk /\ st2.lines = st.lines

\* A save of st whose list is jobs.
SavedAs(st, jobs, s) ==
    /\ IsStore(s.st) /\ s.st.loaded /\ s.st.jobs = jobs /\ s.st.lines = st.lines
    /\ s.ok => ~s.st.dirty /\ s.st.file = "good" /\ s.st.disk = jobs
    /\ ~s.ok => /\ s.st.dirty
                /\ \/ s.st.file = st.file /\ s.st.disk = st.disk
                   \/ s.st.file = "good" /\ s.st.disk = jobs

(* What a save leaves (_save_store).                                        *)
LEMMA SaveReads ==
    ASSUME NEW st, IsStore(st), st.loaded, NEW s \in Save(st)
    PROVE  SavedAs(st, st.jobs, s)
<1>1. \/ s = Result(TRUE, [OnDisk(st) EXCEPT !.dirty = FALSE], 0)
      \/ s = Result(FALSE, [st EXCEPT !.dirty = TRUE], 1)
      \/ s = Result(FALSE, [OnDisk(st) EXCEPT !.dirty = TRUE], 1)
  BY DEF Save
<1>2. DOMAIN st.jobs \cap {} = {} /\ Unnamed(st.lines, {})
  BY DEF Unnamed
<1>3. /\ IsStore(s.st) /\ s.st.loaded /\ s.st.jobs = st.jobs
      /\ s.st.lines = st.lines /\ (~s.ok => s.st.dirty)
  BY <1>2, SaveSettles
<1>4. /\ s.ok => ~s.st.dirty /\ s.st.file = "good" /\ s.st.disk = st.jobs
      /\ ~s.ok => \/ s.st.file = st.file /\ s.st.disk = st.disk
                  \/ s.st.file = "good" /\ s.st.disk = st.jobs
  <2>1. CASE s = Result(TRUE, [OnDisk(st) EXCEPT !.dirty = FALSE], 0)
    BY <2>1 DEF Result, OnDisk, IsStore, Fields
  <2>2. CASE s = Result(FALSE, [st EXCEPT !.dirty = TRUE], 1)
    BY <2>2 DEF Result, IsStore, Fields
  <2>3. CASE s = Result(FALSE, [OnDisk(st) EXCEPT !.dirty = TRUE], 1)
    BY <2>3 DEF Result, OnDisk, IsStore, Fields
  <2>. QED BY <1>1, <2>1, <2>2, <2>3
<1>. QED BY <1>3, <1>4 DEF SavedAs

(* An edit, and the save that follows it.                                   *)
LEMMA EditReads ==
    ASSUME NEW st, IsStore(st), NEW jobs, IsList(jobs)
    PROVE  /\ SameBut(st, [st EXCEPT !.jobs = jobs])
           /\ [st EXCEPT !.jobs = jobs].jobs = jobs
           /\ st.loaded => \A s \in Save([st EXCEPT !.jobs = jobs]) :
                              SavedAs(st, jobs, s)
<1> DEFINE e == [st EXCEPT !.jobs = jobs]
<1>1. /\ IsStore(e) /\ e.loaded = st.loaded /\ e.jobs = jobs
      /\ e.dirty = st.dirty /\ e.disk = st.disk /\ e.lines = st.lines
  BY EditedStore
<1>2. e.file = st.file
  BY DEF IsStore, Fields
<1> HIDE DEF e
<1>3. ASSUME st.loaded, NEW s \in Save(e)
      PROVE  SavedAs(st, jobs, s)
  <2>1. SavedAs(e, e.jobs, s)
    BY <1>1, <1>3, SaveReads
  <2>. QED BY <1>1, <1>2, <2>1 DEF SavedAs
<1>4. SameBut(st, e)
  BY <1>1, <1>2 DEF SameBut
<1>. QED BY <1>1, <1>3, <1>4 DEF e

\* A load of st keeps the memory, meets an unreadable file, or merges the
\* lines, which the owner then truncates and saves.
LoadKept(st, l) == l.ok /\ l.st = st
LoadMet(st, l) ==
    /\ st.file = "corrupt" /\ l.ok = st.loaded
    /\ SameBut([st EXCEPT !.file = "missing"], l.st) /\ l.st.jobs = st.jobs
LoadMerged(st, l) ==
    /\ st.file # "corrupt" /\ ~st.dirty /\ l.st.loaded
    /\ l.st.jobs = Merge(st.disk, st.lines)
LoadRead(st, l) ==
    /\ l.ok /\ ~l.st.dirty /\ l.st.file = st.file
    /\ l.st.disk = st.disk /\ l.st.lines = st.lines
LoadSaved(st, l) ==
    /\ l.st.lines = <<>>
    /\ l.ok => ~l.st.dirty /\ l.st.file = "good" /\ l.st.disk = l.st.jobs
    /\ ~l.ok => /\ l.st.dirty
                /\ \/ l.st.file = st.file /\ l.st.disk = st.disk
                   \/ l.st.file = "good" /\ l.st.disk = l.st.jobs

(* What a load leaves (_load_store, _require_store).                        *)
LEMMA LoadReads ==
    ASSUME NEW st, IsStore(st), NEW owner, NEW executing,
           NEW l \in Load(st, owner, executing)
    PROVE  /\ IsStore(l.st) /\ (st.loaded \/ l.ok => l.st.loaded)
           /\ IF st.loaded /\ (st.dirty \/ executing) THEN LoadKept(st, l)
              ELSE IF st.file = "corrupt" THEN LoadMet(st, l)
              ELSE LoadMerged(st, l) /\ IF owner /\ st.lines # <<>>
                                        THEN LoadSaved(st, l)
                                        ELSE LoadRead(st, l)
<1>1. CASE st.loaded /\ (st.dirty \/ executing)
  <2>1. l = Result(TRUE, st, 0)
    BY <1>1 DEF Load
  <2>. QED BY <1>1, <2>1 DEF Result, LoadKept
<1>2. CASE ~(st.loaded /\ (st.dirty \/ executing)) /\ st.file = "corrupt"
  <2> DEFINE moved == [st EXCEPT !.file = "missing"]
  <2>1. l = Result(st.loaded, moved, 0)
    BY <1>2 DEF Load
  <2>2. /\ moved = [f \in Fields |-> moved[f]] /\ moved.jobs = st.jobs
        /\ moved.loaded = st.loaded /\ moved.dirty = st.dirty
        /\ moved.disk = st.disk /\ moved.lines = st.lines
    BY DEF IsStore, Fields
  <2> HIDE DEF moved
  <2>3. IsStore(moved)
    BY <2>2 DEF IsStore
  <2>4. l.ok = st.loaded /\ l.st = moved
    BY <2>1 DEF Result
  <2>5. LoadMet(st, l)
    BY <1>2, <2>2, <2>3, <2>4 DEF LoadMet, SameBut, moved
  <2>. QED BY <1>2, <2>2, <2>3, <2>4, <2>5
<1>3. CASE ~(st.loaded /\ (st.dirty \/ executing)) /\ st.file # "corrupt"
  <2> DEFINE merged == [st EXCEPT !.loaded = TRUE, !.jobs = Merge(st.disk, st.lines)]
             emptied == [merged EXCEPT !.lines = <<>>]
  <2>1. ~st.dirty
    BY <1>3 DEF IsStore
  <2>2. IsList(Merge(st.disk, st.lines))
    <3>1. DOMAIN st.disk \cap {} = {} /\ Unnamed(st.lines, {})
      BY DEF Unnamed
    <3>. QED BY <3>1, MergedLists DEF IsStore
  <2>3. /\ merged = [f \in Fields |-> merged[f]]
        /\ merged.loaded = TRUE /\ merged.jobs = Merge(st.disk, st.lines)
        /\ merged.dirty = st.dirty /\ merged.disk = st.disk
        /\ merged.lines = st.lines /\ merged.file = st.file
    BY DEF IsStore, Fields
  <2>4. /\ emptied = [f \in Fields |-> emptied[f]] /\ emptied.lines = <<>>
        /\ emptied.loaded = merged.loaded /\ emptied.jobs = merged.jobs
        /\ emptied.dirty = merged.dirty /\ emptied.disk = merged.disk
        /\ emptied.file = merged.file
    <3> HIDE DEF merged
    <3>. QED BY <2>3 DEF Fields
  <2>5. CASE owner /\ st.lines # <<>>
    <3>1. l \in Save(emptied)
      BY <1>3, <2>5 DEF Load
    <3> HIDE DEF emptied, merged
    <3>2. IsStore(emptied) /\ emptied.loaded
      <4>1. IsLog(<<>>)
        BY DEF IsLog
      <4>. QED BY <2>1, <2>2, <2>3, <2>4, <4>1 DEF IsStore
    <3>3. SavedAs(emptied, emptied.jobs, l)
      BY <3>1, <3>2, SaveReads
    <3>4. /\ IsStore(l.st) /\ l.st.loaded /\ l.st.lines = <<>>
          /\ l.st.jobs = Merge(st.disk, st.lines)
      BY <2>3, <2>4, <3>3 DEF SavedAs
    <3>5. LoadMerged(st, l) /\ LoadSaved(st, l)
      BY <1>3, <2>1, <2>3, <2>4, <3>3, <3>4 DEF SavedAs, LoadMerged, LoadSaved
    <3>. QED BY <1>3, <2>5, <3>4, <3>5
  <2>6. CASE ~(owner /\ st.lines # <<>>)
    <3>1. l = Result(TRUE, merged, 0)
      BY <1>3, <2>6 DEF Load
    <3> HIDE DEF emptied, merged
    <3>2. IsStore(merged) /\ l.ok /\ l.st = merged
      BY <2>1, <2>2, <2>3, <3>1 DEF IsStore, Result
    <3>3. LoadMerged(st, l) /\ LoadRead(st, l)
      BY <1>3, <2>1, <2>3, <3>2 DEF LoadMerged, LoadRead
    <3>. QED BY <1>3, <2>3, <2>6, <3>2, <3>3
  <2>. QED BY <2>5, <2>6
<1>. QED BY <1>1, <1>2, <1>3

-----------------------------------------------------------------------------
\* What a merge leaves, job by job.

About(lines, j) == {i \in DOMAIN lines : lines[i].id = j}
LastLine(lines, j) ==
    lines[CHOOSE i \in About(lines, j) : \A k \in About(lines, j) : k <= i]
Survives(jobs, lines, j) ==
    IF About(lines, j) = {} THEN j \in DOMAIN jobs
    ELSE LastLine(lines, j).action # "del"

(* The last line about a job decides, and without one the list             *)
(* (_merge_action).                                                         *)
LEMMA MergeReads ==
    ASSUME NEW jobs, NEW lines
    PROVE  /\ DOMAIN Merge(jobs, lines) = {j \in Job : Survives(jobs, lines, j)}
           /\ \A j \in DOMAIN Merge(jobs, lines) :
                 Merge(jobs, lines)[j] = IF About(lines, j) = {} THEN jobs[j]
                                         ELSE LastLine(lines, j).job
BY DEF Merge, Survives, About, LastLine

(* The last line about a job is one of the lines.                           *)
LEMMA LastIsALine ==
    ASSUME NEW lines, IsLog(lines), NEW j, About(lines, j) # {}
    PROVE  \E i \in DOMAIN lines : lines[i].id = j /\ LastLine(lines, j) = lines[i]
<1>1. DOMAIN lines = 1..Len(lines) /\ Len(lines) \in Nat
  BY DEF IsLog
<1>2. About(lines, j) \in SUBSET (1..Len(lines))
  BY <1>1 DEF About
<1>3. \E m \in About(lines, j) : \A k \in About(lines, j) : k <= m
  BY <1>1, <1>2, HasLast
<1> DEFINE m == CHOOSE i \in About(lines, j) : \A k \in About(lines, j) : k <= i
<1>4. m \in About(lines, j) /\ LastLine(lines, j) = lines[m]
  BY <1>3 DEF LastLine
<1> HIDE DEF m
<1>. QED BY <1>4 DEF About

(* What an appended line says is the last word about its job, and nothing   *)
(* about the others.                                                        *)
LEMMA AppendedLine ==
    ASSUME NEW lines, IsLog(lines), NEW line
    PROVE  LET longer == Append(lines, line)
           IN  /\ \A i \in DOMAIN longer :
                     longer[i] = line \/ \E k \in DOMAIN lines : longer[i] = lines[k]
               /\ About(longer, line.id) # {} /\ LastLine(longer, line.id) = line
               /\ \A j : j # line.id => /\ About(longer, j) = About(lines, j)
                                        /\ About(lines, j) # {} =>
                                           LastLine(longer, j) = LastLine(lines, j)
<1> DEFINE longer == Append(lines, line)
           S == {lines[i] : i \in DOMAIN lines} \cup {line}
           n == Len(lines)
<1>1. lines \in Seq(S)
  BY SeqDef DEF IsLog
<1>2. /\ longer \in Seq(S) /\ Len(longer) = n + 1
      /\ \A i \in 1..n : longer[i] = lines[i]
      /\ longer[n + 1] = line
  <2>1. line \in S
    OBVIOUS
  <2> HIDE DEF S
  <2>. QED BY <1>1, <2>1, AppendProperties
<1>3. DOMAIN lines = 1..n /\ DOMAIN longer = 1..(n + 1) /\ n \in Nat
  <2> HIDE DEF longer, S
  <2>. QED BY <1>1, <1>2, LenProperties
<1> HIDE DEF longer, S, n
<1>4. \A i \in DOMAIN longer : i = n + 1 \/ (i \in DOMAIN lines /\ i <= n)
  BY <1>3
<1>5. \A i \in DOMAIN longer :
         longer[i] = line \/ \E k \in DOMAIN lines : longer[i] = lines[k]
  BY <1>2, <1>3, <1>4
<1>6. About(longer, line.id) # {} /\ LastLine(longer, line.id) = line
  <2>1. n + 1 \in About(longer, line.id)
    BY <1>2, <1>3 DEF About
  <2>2. \A k \in About(longer, line.id) : k <= n + 1 /\ k \in Nat
    BY <1>3, <1>4 DEF About
  <2>3. (CHOOSE i \in About(longer, line.id) :
            \A k \in About(longer, line.id) : k <= i) = n + 1
    BY <1>3, <2>1, <2>2
  <2>. QED BY <1>2, <2>1, <2>3 DEF LastLine
<1>7. ASSUME NEW j, j # line.id
      PROVE  /\ About(longer, j) = About(lines, j)
             /\ About(lines, j) # {} => LastLine(longer, j) = LastLine(lines, j)
  <2>1. About(longer, j) = About(lines, j)
    BY <1>2, <1>3, <1>4, <1>7 DEF About
  <2>2. ASSUME About(lines, j) # {}
        PROVE  LastLine(longer, j) = LastLine(lines, j)
    <3> DEFINE m == CHOOSE i \in About(lines, j) : \A k \in About(lines, j) : k <= i
    <3>1. \E i \in About(lines, j) : \A k \in About(lines, j) : k <= i
      <4>1. About(lines, j) \in SUBSET (1..n)
        BY <1>3 DEF About
      <4>. QED BY <1>3, <2>2, <4>1, HasLast
    <3>2. m \in About(lines, j)
      BY <3>1
    <3>3. LastLine(longer, j) = longer[m] /\ LastLine(lines, j) = lines[m]
      BY <2>1 DEF LastLine
    <3> HIDE DEF m
    <3>. QED BY <1>2, <1>3, <3>2, <3>3 DEF About
  <2>. QED BY <2>1, <2>2
<1>. QED BY <1>5, <1>6, <1>7 DEF longer

-----------------------------------------------------------------------------
\* A job whose creation was acknowledged is kept.

\* A load of st finds every job of kept, whatever it takes for the truth, and
\* no line is about a job that nobody created.
KeepsIn(st, kept, unborn) ==
    /\ \A i \in DOMAIN st.lines : st.lines[i].id \notin unborn
    /\ ~st.dirty => kept \subseteq DOMAIN Merge(st.disk, st.lines)
    /\ st.loaded => kept \subseteq DOMAIN Merge(st.jobs, st.lines)

(* A job that neither the old nor the new list lacks survives the merge of   *)
(* either, and a second merge of the same lines loses nothing.              *)
LEMMA MergeKeeps ==
    ASSUME NEW jobs, NEW jobs2, NEW lines, NEW gone, NEW kept,
           DOMAIN jobs \ gone \subseteq DOMAIN jobs2,
           kept \subseteq DOMAIN Merge(jobs, lines)
    PROVE  /\ kept \ gone \subseteq DOMAIN Merge(jobs2, lines)
           /\ kept \subseteq DOMAIN Merge(Merge(jobs, lines), lines)
<1>1. kept \ gone \subseteq DOMAIN Merge(jobs2, lines)
  <2>1. /\ DOMAIN Merge(jobs, lines) = {j \in Job : Survives(jobs, lines, j)}
        /\ DOMAIN Merge(jobs2, lines) = {j \in Job : Survives(jobs2, lines, j)}
    BY MergeReads
  <2>2. ASSUME NEW j \in kept \ gone
        PROVE  j \in Job /\ Survives(jobs2, lines, j)
    BY <2>1 DEF Survives
  <2>. QED BY <2>1, <2>2
<1>2. DOMAIN Merge(jobs, lines) \subseteq DOMAIN Merge(Merge(jobs, lines), lines)
  <2> DEFINE merged == Merge(jobs, lines)
  <2>1. DOMAIN merged = {j \in Job : Survives(jobs, lines, j)}
    BY MergeReads
  <2> HIDE DEF merged
  <2>2. DOMAIN Merge(merged, lines) = {j \in Job : Survives(merged, lines, j)}
    BY MergeReads
  <2>3. DOMAIN merged \subseteq DOMAIN Merge(merged, lines)
    BY <2>1, <2>2 DEF Survives
  <2>. QED BY <2>3 DEF merged
<1>. QED BY <1>1, <1>2

(* A save puts the list in the file, or leaves the memory the truth; it     *)
(* loses the jobs that the list does not have any more (_save_store).       *)
LEMMA SaveKeeps ==
    ASSUME NEW st, st.loaded, NEW kept, NEW unborn, KeepsIn(st, kept, unborn),
           NEW jobs, NEW gone, DOMAIN st.jobs \ gone \subseteq DOMAIN jobs,
           NEW s, SavedAs(st, jobs, s)
    PROVE  KeepsIn(s.st, kept \ gone, unborn)
<1>1. kept \subseteq DOMAIN Merge(st.jobs, st.lines)
  BY DEF KeepsIn
<1>2. kept \ gone \subseteq DOMAIN Merge(jobs, st.lines)
  BY <1>1, MergeKeeps
<1>3. /\ s.st.jobs = jobs /\ s.st.lines = st.lines
      /\ s.st.dirty \/ s.st.disk = jobs
  BY DEF SavedAs
<1>. QED BY <1>2, <1>3 DEF KeepsIn

(* A load forgets nobody (_load_store): it truncates the lines only after   *)
(* it has merged them.                                                      *)
LEMMA LoadKeeps ==
    ASSUME NEW st, IsStore(st), NEW kept, NEW unborn, KeepsIn(st, kept, unborn),
           NEW owner, NEW executing, NEW l \in Load(st, owner, executing)
    PROVE  /\ KeepsIn(l.st, kept, unborn) /\ IsStore(l.st)
           /\ st.loaded \/ l.ok => l.st.loaded
<1>1. IsStore(l.st) /\ (st.loaded \/ l.ok => l.st.loaded)
  BY LoadReads
<1>2. CASE LoadKept(st, l)
  BY <1>1, <1>2 DEF LoadKept
<1>3. CASE LoadMet(st, l)
  <2>1. /\ l.st.dirty = st.dirty /\ l.st.disk = st.disk /\ l.st.jobs = st.jobs
        /\ l.st.lines = st.lines /\ l.st.loaded = st.loaded
    BY <1>3 DEF LoadMet, SameBut, IsStore, Fields
  <2>. QED BY <1>1, <2>1 DEF KeepsIn
<1>4. ASSUME LoadMerged(st, l)
      PROVE  /\ kept \subseteq DOMAIN l.st.jobs /\ IsList(l.st.jobs)
             /\ kept \subseteq DOMAIN Merge(st.disk, st.lines)
             /\ kept \subseteq DOMAIN Merge(l.st.jobs, st.lines)
  <2>1. /\ kept \subseteq DOMAIN Merge(st.disk, st.lines)
        /\ l.st.jobs = Merge(st.disk, st.lines)
    BY <1>4 DEF LoadMerged, KeepsIn
  <2>. QED BY <1>1, <2>1, MergeKeeps DEF IsStore
<1>5. CASE LoadMerged(st, l) /\ LoadSaved(st, l)
  <2>1. Merge(l.st.jobs, <<>>) = l.st.jobs
    BY <1>4, <1>5, MergedNothing
  <2>2. l.st.lines = <<>> /\ (l.st.dirty \/ l.st.disk = l.st.jobs)
    BY <1>5 DEF LoadSaved
  <2>. QED BY <1>1, <1>4, <1>5, <2>1, <2>2 DEF KeepsIn
<1>6. CASE LoadMerged(st, l) /\ LoadRead(st, l)
  <2>1. l.st.lines = st.lines /\ l.st.disk = st.disk
    BY <1>6 DEF LoadRead
  <2>. QED BY <1>1, <1>4, <1>6, <2>1 DEF KeepsIn
<1>. QED BY <1>1, <1>2, <1>3, <1>5, <1>6, LoadReads

KInv == KeepsIn(store, acked, Unborn)

(* A step that creates no job changes only what was promised.               *)
LEMMA SamePromise ==
    ASSUME UNCHANGED born, KeepsIn(store', acked', Unborn)
    PROVE  KInv'
BY DEF KInv, Unborn, KeepsIn

(* The process ends: what was on disk alone is kept.                        *)
LEMMA EndsKeeps ==
    ASSUME NEW st, IsStore(st), KeepsIn(st, acked, Unborn), Ends(st)
    PROVE  KInv'
<1>1. /\ store'.loaded = FALSE /\ store'.dirty = FALSE
      /\ store'.disk = st.disk /\ store'.lines = st.lines
      /\ UNCHANGED born
  BY DEF Ends, IsStore, Fields
<1>2. acked' = IF st.dirty THEN acked \cap DOMAIN Merge(st.disk, st.lines) ELSE acked
  BY DEF Ends
<1>3. KeepsIn(store', acked', Unborn)
  BY <1>1, <1>2 DEF KeepsIn
<1>. QED BY <1>1, <1>3, SamePromise

(* What the gateway loads, whoever asks.                                    *)
LEMMA LoadsKeep ==
    ASSUME CInv, KInv, NEW l, \/ l \in Loads
                              \/ l \in Load(store, TRUE, FALSE)
                              \/ l \in Load(store, FALSE, FALSE)
                              \/ l \in Load(store, TRUE, manual # NoJob)
    PROVE  /\ IsStore(l.st) /\ KeepsIn(l.st, acked, Unborn)
           /\ store.loaded \/ l.ok => l.st.loaded
<1>1. IsStore(store) /\ KeepsIn(store, acked, Unborn)
  BY DEF CInv, KInv
<1>2. \E owner, executing : l \in Load(store, owner, executing)
  BY DEF Loads
<1>. QED BY <1>1, <1>2, LoadKeeps

(* The steps of the boot.                                                   *)
LEMMA BootKeeps ==
    ASSUME ConstantsOK, CInv, KInv,
           Boot \/ Start \/ Crash \/ \E j \in System, s \in SystemSchedules : Register(j, s)
    PROVE  KInv'
<1>1. CASE Boot
  BY <1>1, LoadsKeep, SamePromise DEF Boot, Becomes, history
<1>2. CASE Crash
  BY <1>2, EndsKeeps DEF Crash, CInv, KInv
<1>3. ASSUME NEW l, IsStore(l.st), KeepsIn(l.st, acked, Unborn),
             \/ Ends(l.st)
             \/ /\ l.st.loaded
                /\ \E jobs : /\ IsList(jobs) /\ DOMAIN l.st.jobs \subseteq DOMAIN jobs
                             /\ \E s \in Save([l.st EXCEPT !.jobs = jobs]) :
                                   \/ Ends(s.st)
                                   \/ store' = s.st /\ UNCHANGED <<acked, born>>
      PROVE  KInv'
  <2>1. CASE Ends(l.st)
    BY <1>3, <2>1, EndsKeeps
  <2>2. ASSUME l.st.loaded, NEW jobs, IsList(jobs), DOMAIN l.st.jobs \subseteq DOMAIN jobs,
               NEW s \in Save([l.st EXCEPT !.jobs = jobs]),
               Ends(s.st) \/ (store' = s.st /\ UNCHANGED <<acked, born>>)
        PROVE  KInv'
    <3>1. SavedAs(l.st, jobs, s)
      BY <1>3, <2>2, EditReads
    <3>2. IsStore(s.st)
      BY <3>1 DEF SavedAs
    <3>3. KeepsIn(s.st, acked, Unborn)
      <4>1. DOMAIN l.st.jobs \ {} \subseteq DOMAIN jobs /\ acked \ {} = acked
        BY <2>2
      <4>2. KeepsIn(s.st, acked \ {}, Unborn)
        BY <1>3, <2>2, <3>1, <4>1, SaveKeeps
      <4>. QED BY <4>1, <4>2
    <3>4. CASE Ends(s.st)
      BY <3>2, <3>3, <3>4, EndsKeeps
    <3>5. CASE store' = s.st /\ UNCHANGED <<acked, born>>
      BY <3>3, <3>5, SamePromise
    <3>. QED BY <2>2, <3>4, <3>5
  <2>. QED BY <1>3, <2>1, <2>2
<1>4. CASE Start
  <2>1. PICK l \in Load(store, TRUE, FALSE) :
           \/ Ends(l.st)
           \/ l.ok /\ \E s \in Save([l.st EXCEPT !.jobs = Recomputed(@)]) :
                         Ends(s.st) \/ (store' = s.st /\ UNCHANGED <<acked, born>>)
    BY <1>4 DEF Start, Becomes, history
  <2>2. /\ IsStore(l.st) /\ KeepsIn(l.st, acked, Unborn) /\ (l.ok => l.st.loaded)
    BY LoadsKeep
  <2>3. IsList(Recomputed(l.st.jobs)) /\ DOMAIN Recomputed(l.st.jobs) = DOMAIN l.st.jobs
    BY <2>2 DEF Recomputed, IsStore, IsList
  <2>. QED BY <2>1, <2>2, <2>3, <1>3
<1>5. ASSUME NEW j \in System, NEW schedule, Register(j, schedule)
      PROVE  KInv'
  <2> DEFINE jobs(l) == With(l.st.jobs, j, RegisteredJob(l.st.jobs, j, schedule))
  <2>1. PICK l \in Loads :
           \/ Ends(l.st)
           \/ l.ok /\ \E s \in Save([l.st EXCEPT !.jobs = jobs(l)]) :
                         Ends(s.st) \/ (store' = s.st /\ UNCHANGED <<acked, born>>)
    BY <1>5 DEF Register, Becomes, history
  <2>2. /\ IsStore(l.st) /\ KeepsIn(l.st, acked, Unborn) /\ (l.ok => l.st.loaded)
    BY LoadsKeep
  <2>3. IsList(jobs(l)) /\ DOMAIN l.st.jobs \subseteq DOMAIN jobs(l)
    <3>1. IsList(l.st.jobs) /\ j \in Job
      BY <2>2, <1>5 DEF IsStore, ConstantsOK
    <3>2. ASSUME NEW job
          PROVE  /\ IsList(With(l.st.jobs, j, job))
                 /\ DOMAIN With(l.st.jobs, j, job) = DOMAIN l.st.jobs \cup {j}
      BY <3>1, EditedLists
    <3>. QED BY <3>2
  <2> HIDE DEF jobs
  <2>. QED BY <2>1, <2>2, <2>3, <1>3
<1>. QED BY <1>1, <1>2, <1>4, <1>5

(* A tick or a turn of the timer.                                           *)
LEMMA RunDueKeeps ==
    ASSUME NEW st, IsStore(st), st.loaded, KeepsIn(st, acked', Unborn),
           NEW due, RunDue(st, due), UNCHANGED born
    PROVE  KInv'
<1>1. CASE DOMAIN due = {}
  <2>1. PICK s \in Save(st) : store' = s.st
    BY <1>1 DEF RunDue, Becomes
  <2>2. SavedAs(st, st.jobs, s)
    BY <2>1, SaveReads
  <2>3. DOMAIN st.jobs \ {} \subseteq DOMAIN st.jobs /\ acked' \ {} = acked'
    OBVIOUS
  <2>4. KeepsIn(s.st, acked' \ {}, Unborn)
    BY <2>2, <2>3, SaveKeeps
  <2>. QED BY <2>1, <2>3, <2>4, SamePromise
<1>2. CASE DOMAIN due # {}
  <2>1. store' = st
    BY <1>2 DEF RunDue, Becomes, Result
  <2>. QED BY <2>1, SamePromise
<1>. QED BY <1>1, <1>2

(* The runs of jobs: what a run removes from the list is no longer         *)
(* promised.                                                                *)
LEMMA RunKeeps ==
    ASSUME ConstantsOK, CInv, KInv,
           \/ TimerFires
           \/ \E o \in Outcomes : TimerJobEnds(o) \/ ManualRunEnds(o)
    PROVE  KInv'
<1>1. /\ IsStore(store) /\ IsList(store.jobs) /\ (phase = "up" => store.loaded)
      /\ UNCHANGED born
  BY DEF CInv, IsStore, TimerFires, TimerJobEnds, ManualRunEnds
<1>2. CASE TimerFires
  <2>1. store.loaded /\ acked' = acked
    BY <1>1, <1>2 DEF TimerFires
  <2>2. CASE store.dirty
    BY <1>1, <1>2, <2>1, <2>2, RunDueKeeps DEF TimerFires, KInv
  <2>3. CASE ~store.dirty
    <3>1. PICK l \in Load(store, TRUE, manual # NoJob) :
             RunDue(l.st, DueSlots(l.st.jobs)) \/ store' = l.st
      BY <1>2, <2>3 DEF TimerFires, Becomes
    <3>2. IsStore(l.st) /\ KeepsIn(l.st, acked, Unborn) /\ l.st.loaded
      BY <2>1, LoadsKeep
    <3>. QED BY <1>1, <2>1, <3>1, <3>2, RunDueKeeps, SamePromise
  <2>. QED BY <2>2, <2>3
<1>3. ASSUME NEW j, NEW o, NEW jobs \in After(store.jobs, j, o),
             store.loaded, Finished(jobs)
      PROVE  LET e == [store EXCEPT !.jobs = jobs]
             IN  /\ IsStore(e) /\ e.loaded /\ KeepsIn(e, acked', Unborn)
  <2> DEFINE e == [store EXCEPT !.jobs = jobs]
             gone == DOMAIN store.jobs \ DOMAIN jobs
  <2>1. IsList(jobs)
    BY <1>1, <1>3, RunLists
  <2>2. SameBut(store, e) /\ e.jobs = jobs
    BY <1>1, <2>1, EditReads
  <2> HIDE DEF e
  <2>3. acked' = acked \ gone /\ DOMAIN store.jobs \ gone \subseteq DOMAIN jobs
    BY <1>3 DEF Finished
  <2>4. acked \ gone \subseteq DOMAIN Merge(jobs, store.lines)
    <3> HIDE DEF gone
    <3>1. acked \subseteq DOMAIN Merge(store.jobs, store.lines)
      BY <1>3 DEF KInv, KeepsIn
    <3>2. DOMAIN store.jobs \ gone \subseteq DOMAIN jobs
      BY <2>3
    <3>. QED BY ONLY <3>1, <3>2, MergeKeeps
  <2>5. IsStore(e) /\ e.loaded /\ KeepsIn(e, acked', Unborn)
    BY <1>3, <2>2, <2>3, <2>4 DEF KInv, KeepsIn, SameBut
  <2>. QED BY <2>5 DEF e
<1>4. ASSUME NEW o, TimerJobEnds(o)
      PROVE  KInv'
  <2>1. PICK jobs \in After(store.jobs, timer.job, o) :
           /\ RunDue([store EXCEPT !.jobs = jobs], timer.due)
           /\ Finished(jobs)
    BY <1>4 DEF TimerJobEnds
  <2>2. store.loaded
    BY <1>4 DEF TimerJobEnds, CInv
  <2> DEFINE e == [store EXCEPT !.jobs = jobs]
  <2>3. IsStore(e) /\ e.loaded /\ KeepsIn(e, acked', Unborn) /\ RunDue(e, timer.due)
    BY <2>1, <2>2, <1>3
  <2> HIDE DEF e
  <2>. QED BY <1>1, <2>3, RunDueKeeps
<1>5. ASSUME NEW o, ManualRunEnds(o)
      PROVE  KInv'
  <2>1. PICK jobs \in After(store.jobs, manual, o) :
           /\ \E s \in Save([store EXCEPT !.jobs = jobs]) : store' = s.st
           /\ Finished(jobs)
    BY <1>5 DEF ManualRunEnds, Becomes
  <2>2. store.loaded
    BY <1>5 DEF ManualRunEnds, CInv
  <2> DEFINE e == [store EXCEPT !.jobs = jobs]
  <2>3. IsStore(e) /\ e.loaded /\ KeepsIn(e, acked', Unborn)
    BY <2>1, <2>2, <1>3
  <2>4. PICK s \in Save(e) : store' = s.st
    BY <2>1
  <2> HIDE DEF e
  <2>5. SavedAs(e, e.jobs, s)
    BY <2>3, <2>4, SaveReads
  <2>6. DOMAIN e.jobs \ {} \subseteq DOMAIN e.jobs /\ acked' \ {} = acked'
    OBVIOUS
  <2>7. KeepsIn(s.st, acked' \ {}, Unborn)
    BY <2>3, <2>5, <2>6, SaveKeeps
  <2>. QED BY <1>1, <2>4, <2>6, <2>7, SamePromise
<1>. QED BY <1>2, <1>4, <1>5

(* A manual run begins with a save and a load.                              *)
LEMMA ManualRunKeeps == ASSUME CInv, KInv, NEW j, ManualRun(j) PROVE KInv'
<1>1. /\ IsStore(store) /\ store.loaded /\ UNCHANGED <<acked, born>>
  BY DEF ManualRun, CInv, history
<1>2. PICK s \in IF store.dirty THEN Save(store) ELSE {Result(TRUE, store, 0)} :
         \/ store' = s.st
         \/ \E l \in Load(s.st, TRUE, timer.pc = "executing") : store' = l.st
  BY DEF ManualRun, Becomes
<1>3. IsStore(s.st) /\ KeepsIn(s.st, acked, Unborn)
  <2>1. CASE store.dirty
    <3>1. SavedAs(store, store.jobs, s)
      BY <1>1, <1>2, <2>1, SaveReads
    <3>2. DOMAIN store.jobs \ {} \subseteq DOMAIN store.jobs /\ acked \ {} = acked
      OBVIOUS
    <3>3. KeepsIn(s.st, acked \ {}, Unborn)
      BY <1>1, <3>1, <3>2, SaveKeeps DEF KInv
    <3>. QED BY <3>1, <3>2, <3>3 DEF SavedAs
  <2>2. CASE ~store.dirty
    BY <1>1, <1>2, <2>2 DEF Result, KInv
  <2>. QED BY <2>1, <2>2
<1>4. CASE store' = s.st
  BY <1>1, <1>3, <1>4, SamePromise
<1>5. ASSUME NEW l \in Load(s.st, TRUE, timer.pc = "executing"), store' = l.st
      PROVE  KInv'
  <2>1. KeepsIn(l.st, acked, Unborn)
    BY <1>3, LoadKeeps
  <2>. QED BY <1>1, <1>5, <2>1, SamePromise
<1>. QED BY <1>2, <1>4, <1>5

(* The operator's edits: a job that is removed was asked to be.             *)
LEMMA EditsKeep ==
    ASSUME CInv, KInv, NEW j \in Job,
           \/ Remove(j)
           \/ \E s \in Schedules : Update(j, s)
           \/ \E b \in BOOLEAN : Enable(j, b) \/ SetCommissioning(j, b)
    PROVE  KInv'
<1>1. PICK l \in Loads :
         \/ store' = l.st /\ acked' \in {acked, acked \ {j}}
         \/ /\ j \in DOMAIN l.st.jobs
            /\ \E jobs :
                  /\ \/ jobs = Without(l.st.jobs, {j}) /\ acked' = acked \ {j}
                     \/ /\ \E job : jobs = With(l.st.jobs, j, job)
                        /\ acked' = acked
                  /\ \E s \in Save([l.st EXCEPT !.jobs = jobs]) : store' = s.st
  <2>1. CASE Remove(j)
    BY <2>1 DEF Remove, Change, Becomes
  <2>2. CASE \E s \in Schedules : Update(j, s)
    BY <2>2 DEF Update, Change, Becomes
  <2>3. CASE \E b \in BOOLEAN : Enable(j, b)
    BY <2>3 DEF Enable, Change, Becomes
  <2>4. CASE \E b \in BOOLEAN : SetCommissioning(j, b)
    BY <2>4 DEF SetCommissioning, Change, Becomes
  <2>. QED BY <2>1, <2>2, <2>3, <2>4
<1>2. phase = "up" /\ UNCHANGED born
  BY DEF Remove, Update, Enable, SetCommissioning, Change
<1>3. /\ IsStore(l.st) /\ KeepsIn(l.st, acked, Unborn) /\ l.st.loaded
      /\ IsList(l.st.jobs)
  BY <1>2, LoadsKeep DEF CInv, IsStore
<1>4. CASE store' = l.st /\ acked' \in {acked, acked \ {j}}
  <2>1. KeepsIn(l.st, acked', Unborn)
    BY <1>3, <1>4 DEF KeepsIn
  <2>. QED BY <1>2, <1>4, <2>1, SamePromise
<1>5. ASSUME NEW jobs,
             \/ jobs = Without(l.st.jobs, {j}) /\ acked' = acked \ {j}
             \/ (\E job : jobs = With(l.st.jobs, j, job)) /\ acked' = acked,
             NEW s \in Save([l.st EXCEPT !.jobs = jobs]), store' = s.st
      PROVE  KInv'
  <2>1. /\ IsList(Without(l.st.jobs, {j}))
        /\ DOMAIN Without(l.st.jobs, {j}) = DOMAIN l.st.jobs \ {j}
    BY <1>3, EditedLists
  <2>2. ASSUME NEW job
        PROVE  /\ IsList(With(l.st.jobs, j, job))
               /\ DOMAIN With(l.st.jobs, j, job) = DOMAIN l.st.jobs \cup {j}
    BY <1>3, EditedLists
  <2>3. PICK gone : /\ acked' = acked \ gone
                    /\ IsList(jobs) /\ DOMAIN l.st.jobs \ gone \subseteq DOMAIN jobs
    <3>1. CASE jobs = Without(l.st.jobs, {j}) /\ acked' = acked \ {j}
      BY <2>1, <3>1
    <3>2. CASE (\E job : jobs = With(l.st.jobs, j, job)) /\ acked' = acked
      <4>1. acked' = acked \ {} /\ IsList(jobs)
            /\ DOMAIN l.st.jobs \ {} \subseteq DOMAIN jobs
        BY <2>2, <3>2
      <4>. QED BY <4>1
    <3>. QED BY <1>5, <3>1, <3>2
  <2>4. SavedAs(l.st, jobs, s)
    BY <1>3, <1>5, <2>3, EditReads
  <2>5. KeepsIn(s.st, acked \ gone, Unborn)
    BY <1>3, <2>3, <2>4, SaveKeeps
  <2>. QED BY <1>2, <1>5, <2>3, <2>5, SamePromise
<1>. QED BY <1>1, <1>4, <1>5

(* A job that could not be written is taken out again, and no other one is; *)
(* one that was written was in no list and in no line before.               *)
LEMMA AddKeeps ==
    ASSUME ConstantsOK, CInv, KInv, NEW j \in Job, NEW schedule, Add(j, schedule)
    PROVE  KInv'
<1>1. phase = "up" /\ j \in Unborn /\ Unborn' = Unborn \ {j}
  BY DEF Add, Unborn, CInv
<1>2. PICK l \in Loads :
         \/ store' = l.st /\ acked' = acked
         \/ \E s \in Save([l.st EXCEPT !.jobs = With(@, j, NewJob(schedule))]) :
               \/ store' = s.st /\ acked' = acked \cup {j}
               \/ ~s.ok /\ store' = RolledBack(s.st, j) /\ acked' = acked
  BY DEF Add, Becomes, Result
<1>3. /\ IsStore(l.st) /\ KeepsIn(l.st, acked, Unborn) /\ l.st.loaded
      /\ IsList(l.st.jobs) /\ j \notin DOMAIN l.st.jobs
  BY <1>1, LoadsKeep, LoadsSettle, NoOutcasts DEF CInv, IsStore, KeepsOut
<1>4. SUFFICES KeepsIn(store', acked', Unborn)
  BY <1>1 DEF KInv, KeepsIn
<1>5. CASE store' = l.st /\ acked' = acked
  BY <1>3, <1>5
<1> DEFINE jobs == With(l.st.jobs, j, NewJob(schedule))
<1>6. ASSUME NEW s \in Save([l.st EXCEPT !.jobs = jobs]),
             \/ store' = s.st /\ acked' = acked \cup {j}
             \/ ~s.ok /\ store' = RolledBack(s.st, j) /\ acked' = acked
      PROVE  KeepsIn(store', acked', Unborn)
  <2>1. IsList(jobs) /\ DOMAIN jobs = DOMAIN l.st.jobs \cup {j}
    BY <1>3, EditedLists
  <2> HIDE DEF jobs
  <2>2. SavedAs(l.st, jobs, s)
    BY <1>3, <1>6, <2>1, EditReads
  <2>3. KeepsIn(s.st, acked, Unborn)
    <3>1. DOMAIN l.st.jobs \ {} \subseteq DOMAIN jobs /\ acked \ {} = acked
      BY <2>1
    <3>2. KeepsIn(s.st, acked \ {}, Unborn)
      BY <1>3, <2>2, <3>1, SaveKeeps
    <3>. QED BY <3>1, <3>2
  <2>4. CASE store' = s.st /\ acked' = acked \cup {j}
    <3>1. /\ s.st.jobs = jobs /\ s.st.lines = l.st.lines
          /\ s.st.dirty \/ s.st.disk = jobs
      BY <2>2 DEF SavedAs
    <3>2. About(l.st.lines, j) = {}
      BY <1>1, <1>3 DEF KeepsIn, About
    <3>3. j \in DOMAIN Merge(jobs, l.st.lines)
      <4>1. DOMAIN Merge(jobs, l.st.lines) = {k \in Job : Survives(jobs, l.st.lines, k)}
        BY MergeReads
      <4>. QED BY <2>1, <3>2, <4>1 DEF Survives
    <3>. QED BY <2>3, <2>4, <3>1, <3>3 DEF KeepsIn
  <2>5. CASE ~s.ok /\ store' = RolledBack(s.st, j) /\ acked' = acked
    <3> DEFINE rest == Without(jobs, {j})
    <3>1. IsStore(s.st) /\ s.st.jobs = jobs /\ s.st.lines = l.st.lines /\ s.st.dirty
      BY <2>2, <2>5 DEF SavedAs
    <3>2. IsList(rest) /\ DOMAIN rest = DOMAIN l.st.jobs
      <4>1. IsList(rest) /\ DOMAIN rest = DOMAIN jobs \ {j}
        BY <2>1, EditedLists
      <4>. QED BY <1>3, <2>1, <4>1
    <3>3. store' = [s.st EXCEPT !.jobs = rest]
      BY <2>5, <3>1 DEF RolledBack
    <3> HIDE DEF rest
    <3>4. SameBut(s.st, store') /\ store'.jobs = rest
      BY <3>1, <3>2, <3>3, EditReads
    <3>5. acked \ {} \subseteq DOMAIN Merge(rest, l.st.lines)
      <4>1. acked \subseteq DOMAIN Merge(l.st.jobs, l.st.lines)
        BY <1>3 DEF KeepsIn
      <4>2. DOMAIN l.st.jobs \ {} \subseteq DOMAIN rest
        BY <3>2
      <4>. QED BY ONLY <4>1, <4>2, MergeKeeps
    <3>. QED BY <2>3, <2>5, <3>1, <3>4, <3>5 DEF KeepsIn, SameBut
  <2>. QED BY <1>6, <2>4, <2>5
<1>. QED BY <1>2, <1>5, <1>6

(* A line of the second process: only a "del" takes a job away.             *)
LEMMA LineKeeps ==
    ASSUME CInv, KInv, NEW action, NEW j \in Job, NEW job, AppendAction(action, j, job),
           \/ action # "del" /\ acked' = acked \cup {j}
           \/ action # "del" /\ acked' = acked
           \/ acked' = acked \ {j},
           Unborn' \subseteq Unborn, j \notin Unborn'
    PROVE  KInv'
<1> DEFINE line == [action |-> action, id |-> j, job |-> job]
           longer == Append(store.lines, line)
<1>1. IsStore(store) /\ IsLog(store.lines)
  BY DEF CInv, IsStore
<1>2. /\ store'.lines = longer /\ store'.disk = store.disk /\ store'.jobs = store.jobs
      /\ store'.dirty = store.dirty /\ store'.loaded = store.loaded
  BY <1>1 DEF AppendAction, IsStore, Fields
<1>3. line.id = j /\ line.action = action
  OBVIOUS
<1> HIDE DEF line
<1>4. /\ \A i \in DOMAIN longer :
            longer[i] = line \/ \E k \in DOMAIN store.lines : longer[i] = store.lines[k]
      /\ About(longer, j) # {} /\ LastLine(longer, j) = line
      /\ \A k : k # j => /\ About(longer, k) = About(store.lines, k)
                         /\ About(store.lines, k) # {} =>
                            LastLine(longer, k) = LastLine(store.lines, k)
  BY <1>1, <1>3, AppendedLine
<1> HIDE DEF longer
<1>5. ASSUME NEW jobs, acked \subseteq DOMAIN Merge(jobs, store.lines)
      PROVE  acked' \subseteq DOMAIN Merge(jobs, longer)
  <2>1. /\ DOMAIN Merge(jobs, store.lines) = {k \in Job : Survives(jobs, store.lines, k)}
        /\ DOMAIN Merge(jobs, longer) = {k \in Job : Survives(jobs, longer, k)}
    BY MergeReads
  <2>2. ASSUME NEW k \in acked, k # j
        PROVE  k \in Job /\ Survives(jobs, longer, k)
    BY <1>4, <1>5, <2>1, <2>2 DEF Survives
  <2>3. action # "del" => Survives(jobs, longer, j)
    BY <1>3, <1>4 DEF Survives
  <2>. QED BY <2>1, <2>2, <2>3
<1>6. \A i \in DOMAIN longer : longer[i].id \notin Unborn'
  BY <1>3, <1>4 DEF KInv, KeepsIn
<1>. QED BY <1>2, <1>5, <1>6 DEF KInv, KeepsIn

(* The second process, whatever it appends.                                 *)
LEMMA AgentKeeps ==
    ASSUME ConstantsOK, CInv, KInv, NEW j \in Job,
           \/ \E s \in Schedules : AgentAdds(j, s)
           \/ AgentRemoves(j)
           \/ \E b \in BOOLEAN : AgentJudges(j, b)
    PROVE  KInv'
<1>1. ASSUME NEW s, AgentAdds(j, s)
      PROVE  KInv'
  <2>1. /\ AppendAction("add", j, NewJob(s)) /\ acked' = acked \cup {j}
        /\ Unborn' \subseteq Unborn /\ j \notin Unborn'
    BY <1>1 DEF AgentAdds, Unborn, CInv
  <2>. QED BY <2>1, LineKeeps
<1>2. CASE AgentRemoves(j)
  <2>1. /\ AppendAction("del", j, NoJob) /\ acked' = acked \ {j} /\ Unborn' = Unborn
        /\ j \in DOMAIN Merge(store.disk, store.lines)
    BY <1>2 DEF AgentRemoves, Unborn, Seen
  <2>2. j \notin Unborn
    <3>1. Unnamed(store.lines, Unborn)
      BY DEF KInv, KeepsIn, Unnamed
    <3>2. IsList(store.disk) /\ IsLog(store.lines) /\ DOMAIN store.disk \cap Unborn = {}
      BY DEF CInv, IsStore
    <3>. QED BY <2>1, <3>1, <3>2, MergedLists
  <2>. QED BY <2>1, <2>2, LineKeeps
<1>3. ASSUME NEW b, AgentJudges(j, b)
      PROVE  KInv'
  <2>1. /\ AppendAction("update", j, Judged(Seen[j], b)) /\ acked' = acked
        /\ Unborn' = Unborn /\ j \notin Unborn
    BY <1>3 DEF AgentJudges, Unborn
  <2>. QED BY <2>1, LineKeeps
<1>. QED BY <1>1, <1>2, <1>3

(* Time, polls and the corruption of the file.                              *)
LEMMA WorldKeeps ==
    ASSUME CInv, KInv, Poll \/ Tick \/ Corrupt \/ MeetsCorruption
    PROVE  KInv'
<1>1. CASE Poll
  BY <1>1, LoadsKeep, SamePromise DEF Poll, Becomes, history
<1>2. CASE Tick
  BY <1>2, SamePromise DEF Tick, history, KInv
<1>3. CASE Corrupt
  <2>1. store'.lines = store.lines /\ acked' = {} /\ UNCHANGED born
    BY <1>3 DEF Corrupt, CInv, IsStore, Fields
  <2>2. KeepsIn(store', acked', Unborn)
    BY <2>1 DEF KInv, KeepsIn
  <2>. QED BY <2>1, <2>2, SamePromise
<1>4. CASE MeetsCorruption
  <2>1. /\ store'.lines = store.lines /\ store'.disk = store.disk
        /\ store'.jobs = store.jobs /\ store'.dirty = store.dirty
        /\ store'.loaded = store.loaded /\ UNCHANGED <<acked, born>>
    BY <1>4 DEF MeetsCorruption, history, CInv, IsStore, Fields
  <2>2. KeepsIn(store', acked', Unborn)
    BY <2>1 DEF KInv, KeepsIn
  <2>. QED BY <2>1, <2>2, SamePromise
<1>. QED BY <1>1, <1>2, <1>3, <1>4

(* Every step.                                                              *)
LEMMA KPreserved == ASSUME ConstantsOK, CInv, KInv, [Next]_vars PROVE KInv'
<1>1. CASE Next
  BY <1>1, BootKeeps, RunKeeps, ManualRunKeeps, EditsKeep, AddKeeps, AgentKeeps,
     WorldKeeps DEF Next
<1>2. CASE UNCHANGED vars
  BY <1>2, SamePromise DEF vars, history, KInv
<1>. QED BY <1>1, <1>2

(* From the answer that acknowledged it on, a job is in the list a restart  *)
(* would load, or in the memory that a failed write made authoritative, or  *)
(* among the lines of the second process (add_job, _save_store,             *)
(* _merge_action): no failed save, load, merge, boot, run or crash loses    *)
(* it.                                                                      *)
THEOREM AcknowledgmentIsKept == Spec => []AcknowledgedJobIsKept
<1>1. Init => KInv
  <2> SUFFICES ASSUME Init PROVE KInv
    OBVIOUS
  <2>1. /\ acked = {} /\ DOMAIN store.lines = {}
    BY DEF Init, NewStore
  <2>. QED BY <2>1 DEF KInv, KeepsIn
<1>2. CInv /\ KInv /\ [Next]_vars => KInv'
  BY ConstantsOK, KPreserved
<1>3. CInv /\ KInv => AcknowledgedJobIsKept
  BY DEF CInv, KInv, KeepsIn, IsStore, AcknowledgedJobIsKept
<1>. QED BY <1>1, <1>2, <1>3, StoreIsOwned, PTL DEF Spec

-----------------------------------------------------------------------------
\* A slot that ran is not taken up again.

\* What the history of the counters excludes.
Trusted == count.verdicts = 0 /\ count.corruptions < 2

\* A job that will not take up this slot, or an earlier one.
IsAhead(job, slot) == job.next = 0 \/ job.next > slot \/ job.pending

\* No job of the list takes up the slot it ran last, but those that are at it.
Ahead(jobs, slots, running) ==
    \A j \in DOMAIN jobs \ running : IsAhead(jobs[j], slots[j])

\* No line carries a job that ran, and the list a load may take up is ahead:
\* the file is, unless it waits for a save.
NotAgain(st, slots, running) ==
    /\ \A i \in DOMAIN st.lines :
          st.lines[i].action # "del" => slots[st.lines[i].id] = 0
    /\ Ahead(st.jobs, slots, running)
    /\ running = {} /\ ~st.dirty => Ahead(st.disk, slots, {})

Listed(st) ==
    /\ IsJobList(st.jobs) /\ IsJobList(st.disk)
    /\ \A i \in DOMAIN st.lines :
          /\ st.lines[i].id \in Job
          /\ st.lines[i].action # "del" => st.lines[i].job \in JobRecord

GoodStore(st, running) ==
    /\ IsStore(st) /\ Listed(st)
    /\ st.file # "good" => st.disk = NoJobs
    /\ st.file = "corrupt" => count.corruptions >= 1
    /\ Trusted => NotAgain(st, begun, running)

\* No line would change a job of this set.
LineFree(lines, jobs) ==
    \A i \in DOMAIN lines : lines[i].action = "del" \/ lines[i].id \notin jobs

\* After a boot whose start() met an unreadable file: the lines it merged are
\* still there, and the next load merges and truncates them.
Unmerged == /\ timer.pc = "asleep" /\ manual = NoJob
            /\ ~store.dirty /\ store.file # "corrupt" /\ count.corruptions = 1

Running == IF timer.pc = "executing" THEN {timer.job} ELSE {}
Taken == DOMAIN store.jobs \cup DOMAIN timer.due
Counted == {"failures", "crashes", "corruptions", "verdicts"}

SInv ==
    /\ count = [f \in Counted |-> count[f]] /\ count.corruptions \in Nat
    /\ now \in Nat /\ begun \in [Job -> Nat] /\ \A j \in Job : begun[j] <= now
    /\ \A j \in DOMAIN timer.due : j \in Job /\ timer.due[j] \in Nat /\ timer.due[j] <= now
    /\ phase # "up" => ~store.dirty
    /\ \A j \in Unborn : begun[j] = 0
    /\ GoodStore(store, Running)
    /\ Trusted /\ phase = "up" => Unmerged \/ LineFree(store.lines, Taken)

(* A next run is in the future, or there is none (_compute_next_run).       *)
LEMMA NextIsAhead ==
    ASSUME now \in Nat, NEW s \in Schedule
    PROVE  NextRun(s) \in Nat /\ (NextRun(s) = 0 \/ NextRun(s) > now)
<1>1. s.at \in Nat /\ s.at > 0
  BY DEF Schedule
<1>. QED BY <1>1 DEF NextRun

\* Every job of jobs2 was in jobs and is as far ahead, or is ahead of now.
EditOf(jobs, jobs2) ==
    /\ IsJobList(jobs2) /\ IsList(jobs2)
    /\ \A j \in DOMAIN jobs2 :
          \/ \A slot \in 0..now : IsAhead(jobs2[j], slot)
          \/ /\ j \in DOMAIN jobs
             /\ \A slot \in Nat : IsAhead(jobs[j], slot) => IsAhead(jobs2[j], slot)

\* A job that may stand in the place of another one.
Follows(job, job2) ==
    /\ job2 \in JobRecord
    /\ \/ \A slot \in 0..now : IsAhead(job2, slot)
       \/ \A slot \in Nat : IsAhead(job, slot) => IsAhead(job2, slot)

\* A new job.
Begins(job) == job \in JobRecord /\ \A slot \in 0..now : IsAhead(job, slot)

(* A job, field by field.                                                   *)
JobFields == {"enabled", "schedule", "next", "attempts", "pending"}
IsJob(x) ==
    /\ x = [f \in JobFields |-> x[f]]
    /\ x.enabled \in BOOLEAN /\ x.schedule \in Schedule /\ x.next \in Nat
    /\ x.attempts \in Nat /\ x.pending \in BOOLEAN

(* A record of these fields is a job, and begins one if its slot is in the  *)
(* future, or none, or a retry is pending (CronJobState).                   *)
LEMMA JobFieldByField ==
    ASSUME NEW x
    PROVE  /\ x \in JobRecord <=> IsJob(x)
           /\ (/\ now \in Nat /\ IsJob(x)
               /\ x.next = 0 \/ x.next > now \/ x.pending) => Begins(x)
<1>1. ASSUME x \in JobRecord PROVE IsJob(x)
  BY <1>1 DEF IsJob, JobRecord, JobFields
<1>2. ASSUME IsJob(x) PROVE x \in JobRecord
  BY <1>2 DEF IsJob, JobRecord, JobFields
<1>3. ASSUME now \in Nat, IsJob(x), x.next = 0 \/ x.next > now \/ x.pending
      PROVE  Begins(x)
  BY <1>2, <1>3 DEF IsJob, Begins, IsAhead
<1>. QED BY <1>1, <1>2, <1>3

(* A new job has a slot in the future, or none (add_job,                    *)
(* register_system_job).                                                    *)
LEMMA NewJobBegins ==
    ASSUME now \in Nat, NEW s \in Schedule
    PROVE  /\ Begins(NewJob(s))
           /\ \A n \in Nat : Begins([NewJob(s) EXCEPT !.attempts = n])
<1>1. PICK x : x = NewJob(s)
  OBVIOUS
<1>2. IsJob(x) /\ x.next = NextRun(s) /\ (x.next = 0 \/ x.next > now)
  BY <1>1, NextIsAhead DEF NewJob, IsJob, JobFields
<1>3. ASSUME NEW n \in Nat
      PROVE  Begins([x EXCEPT !.attempts = n])
  <2> DEFINE y == [x EXCEPT !.attempts = n]
  <2>1. IsJob(y) /\ y.next = x.next
    BY <1>2 DEF IsJob, JobFields
  <2> HIDE DEF y
  <2>2. Begins(y)
    BY <1>2, <2>1, JobFieldByField
  <2>. QED BY <2>2 DEF y
<1>. QED BY <1>1, <1>2, <1>3, JobFieldByField

(* Whatever changes a job gives it a slot in the future, takes its slot     *)
(* away, or leaves the slot it had (_compute_next_run and its callers).     *)
LEMMA JobsFollow ==
    ASSUME now \in Nat, NEW job \in JobRecord
    PROVE  /\ Follows(job, [job EXCEPT !.enabled = TRUE])
           /\ Follows(job, [job EXCEPT !.next = NextRun(job.schedule)])
           /\ Follows(job, job)
           /\ \A on \in BOOLEAN : Follows(job, Enabled(job, on))
           /\ \A s \in Schedule : Follows(job, Rescheduled(job, s))
           /\ \A disable \in BOOLEAN : Follows(job, Judged(job, disable))
<1>1. IsJob(job)
  BY JobFieldByField
<1>2. \A s \in Schedule : NextRun(s) \in Nat /\ (NextRun(s) = 0 \/ NextRun(s) > now)
  BY NextIsAhead
<1>3. NextRun(job.schedule) \in Nat
      /\ (NextRun(job.schedule) = 0 \/ NextRun(job.schedule) > now)
  BY <1>1, <1>2 DEF IsJob
<1>6. Follows(job, [job EXCEPT !.enabled = TRUE])
  <2> DEFINE y == [job EXCEPT !.enabled = TRUE]
  <2>1. IsJob(y) /\ y.next = job.next /\ y.pending = job.pending
    BY <1>1 DEF IsJob, JobFields
  <2> HIDE DEF y
  <2>2. y \in JobRecord /\ \A slot \in Nat : IsAhead(job, slot) => IsAhead(y, slot)
    BY <2>1, JobFieldByField DEF IsAhead
  <2>3. Follows(job, y)
    BY <2>2 DEF Follows
  <2>. QED BY <2>3 DEF y
<1>7. ASSUME NEW y, IsJob(y), y.next = 0 \/ y.next > now
      PROVE  Follows(job, y)
  BY <1>7, JobFieldByField DEF Follows, Begins
<1>8. Follows(job, job)
  BY DEF Follows
<1>9. Follows(job, [job EXCEPT !.next = NextRun(job.schedule)])
  <2> DEFINE y == [job EXCEPT !.next = NextRun(job.schedule)]
  <2>1. IsJob(y) /\ y.next = NextRun(job.schedule)
    BY <1>1, <1>3 DEF IsJob, JobFields
  <2> HIDE DEF y
  <2>2. Follows(job, y)
    BY <1>3, <1>7, <2>1
  <2>. QED BY <2>2 DEF y
<1>10. ASSUME NEW on \in BOOLEAN
       PROVE  Follows(job, Enabled(job, on))
  <2>1. PICK n \in Nat : /\ n = IF on THEN NextRun(job.schedule) ELSE 0
                         /\ n = 0 \/ n > now
    BY <1>3
  <2> DEFINE y == [job EXCEPT !.enabled = on, !.next = n]
  <2>2. IsJob(y) /\ y.next = n
    BY <1>1 DEF IsJob, JobFields
  <2>3. Enabled(job, on) = y
    BY <2>1 DEF Enabled
  <2> HIDE DEF y
  <2>. QED BY <1>7, <2>1, <2>2, <2>3
<1>11. ASSUME NEW s \in Schedule
       PROVE  Follows(job, Rescheduled(job, s))
  <2>1. PICK n \in Nat : /\ n = IF job.enabled THEN NextRun(s) ELSE 0
                         /\ n = 0 \/ n > now
    BY <1>2
  <2> DEFINE y == [job EXCEPT !.schedule = s, !.next = n]
  <2>2. IsJob(y) /\ y.next = n
    BY <1>1 DEF IsJob, JobFields
  <2>3. Rescheduled(job, s) = y
    BY <2>1 DEF Rescheduled
  <2> HIDE DEF y
  <2>. QED BY <1>7, <2>1, <2>2, <2>3
<1>12. ASSUME NEW disable \in BOOLEAN
       PROVE  Follows(job, Judged(job, disable))
  <2> DEFINE y == [job EXCEPT !.enabled = FALSE, !.next = 0]
  <2>1. IsJob(y) /\ y.next = 0
    BY <1>1 DEF IsJob, JobFields
  <2>2. Judged(job, disable) \in {y, job}
    BY DEF Judged
  <2> HIDE DEF y
  <2>3. Follows(job, y)
    BY <1>7, <2>1
  <2>. QED BY <1>8, <2>2, <2>3
<1>. QED BY <1>6, <1>8, <1>9, <1>10, <1>11, <1>12

(* A list in which one job is created, changed or removed.                  *)
LEMMA EditsOfLists ==
    ASSUME now \in Nat, NEW jobs, IsJobList(jobs), IsList(jobs), NEW j \in Job
    PROVE  /\ EditOf(jobs, jobs)
           /\ EditOf(jobs, Without(jobs, {j}))
           /\ \A job : Begins(job) => EditOf(jobs, With(jobs, j, job))
           /\ \A job : j \in DOMAIN jobs /\ Follows(jobs[j], job)
                       => EditOf(jobs, With(jobs, j, job))
<1>1. EditOf(jobs, jobs)
  BY DEF EditOf
<1>2. EditOf(jobs, Without(jobs, {j}))
  <2> DEFINE less == Without(jobs, {j})
  <2>1. /\ IsList(less) /\ DOMAIN less = DOMAIN jobs \ {j}
        /\ \A k \in DOMAIN less : less[k] = jobs[k]
    BY EditedLists DEF Without
  <2> HIDE DEF less
  <2>2. EditOf(jobs, less)
    BY <2>1 DEF EditOf, IsJobList
  <2>. QED BY <2>2 DEF less
<1>3. ASSUME NEW job, Begins(job) \/ (j \in DOMAIN jobs /\ Follows(jobs[j], job))
      PROVE  EditOf(jobs, With(jobs, j, job))
  <2> DEFINE more == With(jobs, j, job)
  <2>1. /\ IsList(more) /\ DOMAIN more = DOMAIN jobs \cup {j}
        /\ more[j] = job /\ \A k \in DOMAIN jobs : k # j => more[k] = jobs[k]
    <3>1. IsList(more) /\ DOMAIN more = DOMAIN jobs \cup {j}
      BY EditedLists
    <3>2. more[j] = job /\ \A k \in DOMAIN jobs : k # j => more[k] = jobs[k]
      BY DEF With
    <3>. QED BY <3>1, <3>2
  <2> HIDE DEF more
  <2>2. job \in JobRecord
    BY <1>3 DEF Begins, Follows
  <2>3. IsJobList(more)
    BY <2>1, <2>2 DEF IsJobList
  <2>4. EditOf(jobs, more)
    BY <1>3, <2>1, <2>3 DEF EditOf, Begins, Follows
  <2>. QED BY <2>4 DEF more
<1>. QED BY <1>1, <1>2, <1>3

(* A run gives the job that ran a slot in the future, a retry, or none      *)
(* (_execute_job).                                                          *)
LEMMA RunIsAnEdit ==
    ASSUME ConstantsOK, now \in Nat, NEW jobs, IsJobList(jobs), IsList(jobs),
           NEW j, NEW o, NEW r \in After(jobs, j, o)
    PROVE  /\ EditOf(jobs, r) /\ DOMAIN r \subseteq DOMAIN jobs
           /\ j \in DOMAIN r => \A slot \in 0..now : IsAhead(r[j], slot)
<1>0. DOMAIN r \subseteq DOMAIN jobs
  BY RunLists
<1>1. CASE j \notin DOMAIN jobs
  <2>1. r = jobs
    BY <1>1 DEF After
  <2>. QED BY <1>0, <1>1, <2>1 DEF EditOf
<1>2. CASE j \in DOMAIN jobs
  <2>1. j \in Job /\ jobs[j] \in JobRecord
    BY <1>2 DEF IsJobList
  <2> DEFINE job == jobs[j]
             done == [job EXCEPT !.attempts = 0, !.pending = FALSE]
  <2>2. IsJob(job)
    BY <2>1, JobFieldByField
  <2>3. NextRun(job.schedule) \in Nat
        /\ (NextRun(job.schedule) = 0 \/ NextRun(job.schedule) > now)
    BY <2>2, NextIsAhead DEF IsJob
  <2>4. \/ r = Without(jobs, {j})
        \/ \E x : r = With(jobs, j, x) /\ Begins(x)
    <3>1. CASE o = "error" /\ MayRetry(j, job)
      <4>1. PICK x \in Retried(job) : r = With(jobs, j, x)
        BY <1>2, <3>1 DEF After
      <4>2. PICK delay \in 0..MaxDelay :
              x = [job EXCEPT !.attempts = @ + 1, !.pending = TRUE, !.next = now + delay]
        BY <4>1 DEF Retried
      <4>3. delay \in Nat
        BY <4>2 DEF ConstantsOK
      <4>4. IsJob(x) /\ x.pending
        <5>1. now + delay \in Nat
          BY <4>3
        <5>2. /\ x = [f \in JobFields |-> x[f]] /\ x.attempts = job.attempts + 1
              /\ x.enabled = job.enabled /\ x.schedule = job.schedule
              /\ x.next = now + delay
          BY <2>2, <4>2 DEF IsJob, JobFields
        <5>3. x.pending = TRUE
          BY <2>2, <4>2 DEF IsJob, JobFields
        <5>4. x.pending \in BOOLEAN
          BY <5>3
        <5>5. IsJob(x)
          BY <2>2, <5>1, <5>2, <5>4 DEF IsJob
        <5>. QED BY <5>3, <5>5
      <4>. QED BY <4>1, <4>4, JobFieldByField
    <3>2. CASE ~(o = "error" /\ MayRetry(j, job))
      <4>1. PICK d : d = done
        OBVIOUS
      <4>2. IsJob(d) /\ d.schedule = job.schedule
        BY <2>2, <4>1 DEF IsJob, JobFields
      <4>3. \/ r = Without(jobs, {j})
            \/ r = With(jobs, j, [d EXCEPT !.enabled = FALSE, !.next = 0])
            \/ r = With(jobs, j, [d EXCEPT !.next = NextRun(d.schedule)])
        BY <1>2, <3>2, <4>1 DEF After
      <4>4. Begins([d EXCEPT !.enabled = FALSE, !.next = 0])
        <5> DEFINE y == [d EXCEPT !.enabled = FALSE, !.next = 0]
        <5>1. IsJob(y) /\ y.next = 0
          BY <4>2 DEF IsJob, JobFields
        <5> HIDE DEF y
        <5>2. Begins(y)
          BY <5>1, JobFieldByField
        <5>. QED BY <5>2 DEF y
      <4>5. Begins([d EXCEPT !.next = NextRun(d.schedule)])
        <5> DEFINE y == [d EXCEPT !.next = NextRun(d.schedule)]
        <5>1. IsJob(y) /\ y.next = NextRun(job.schedule)
          BY <2>3, <4>2 DEF IsJob, JobFields
        <5> HIDE DEF y
        <5>2. Begins(y)
          BY <2>3, <5>1, JobFieldByField
        <5>. QED BY <5>2 DEF y
      <4>. QED BY <4>3, <4>4, <4>5
    <3>. QED BY <3>1, <3>2
  <2>5. CASE r = Without(jobs, {j})
    <3>1. j \notin DOMAIN Without(jobs, {j})
      BY DEF Without
    <3>. QED BY <1>0, <2>1, <2>5, <3>1, EditsOfLists
  <2>6. ASSUME NEW x, r = With(jobs, j, x), Begins(x)
        PROVE  EditOf(jobs, r) /\ \A slot \in 0..now : IsAhead(r[j], slot)
    <3>1. With(jobs, j, x)[j] = x
      BY DEF With
    <3>. QED BY <2>1, <2>6, <3>1, EditsOfLists DEF Begins
  <2>. QED BY <1>0, <2>4, <2>5, <2>6
<1>. QED BY <1>1, <1>2

(* A list whose jobs follow those of another one is as far ahead.           *)
LEMMA EditStaysAhead ==
    ASSUME now \in Nat, begun \in [Job -> Nat], \A j \in Job : begun[j] <= now,
           NEW jobs, NEW jobs2, EditOf(jobs, jobs2), NEW running,
           Ahead(jobs, begun, running)
    PROVE  Ahead(jobs2, begun, running)
<1> SUFFICES ASSUME NEW j \in DOMAIN jobs2 \ running
             PROVE  IsAhead(jobs2[j], begun[j])
  BY DEF Ahead
<1>1. j \in Job /\ begun[j] \in 0..now /\ begun[j] \in Nat
  BY DEF EditOf, IsJobList
<1>. QED BY <1>1 DEF EditOf, Ahead

(* A merge of sound lines brings no slot back (_merge_action).              *)
LEMMA MergeIsSound ==
    ASSUME NEW jobs, IsJobList(jobs), NEW lines, IsLog(lines),
           \A i \in DOMAIN lines :
              /\ lines[i].id \in Job
              /\ lines[i].action # "del" => lines[i].job \in JobRecord
    PROVE  /\ IsJobList(Merge(jobs, lines))
           /\ \A slots : /\ Ahead(jobs, slots, {})
                         /\ \A i \in DOMAIN lines : lines[i].action # "del" =>
                                                    slots[lines[i].id] = 0
                         => Ahead(Merge(jobs, lines), slots, {})
<1>1. ASSUME NEW j \in DOMAIN Merge(jobs, lines)
      PROVE  /\ j \in Job
             /\ \/ j \in DOMAIN jobs /\ Merge(jobs, lines)[j] = jobs[j]
                \/ \E i \in DOMAIN lines :
                      /\ lines[i].id = j /\ lines[i].action # "del"
                      /\ Merge(jobs, lines)[j] = lines[i].job
  <2>1. /\ j \in Job /\ Survives(jobs, lines, j)
        /\ Merge(jobs, lines)[j] = IF About(lines, j) = {} THEN jobs[j]
                                   ELSE LastLine(lines, j).job
    <3>1. /\ DOMAIN Merge(jobs, lines) = {k \in Job : Survives(jobs, lines, k)}
          /\ \A k \in DOMAIN Merge(jobs, lines) :
                Merge(jobs, lines)[k] = IF About(lines, k) = {} THEN jobs[k]
                                        ELSE LastLine(lines, k).job
      BY MergeReads
    <3>. QED BY <3>1
  <2>2. CASE About(lines, j) = {}
    BY <2>1, <2>2 DEF Survives
  <2>3. CASE About(lines, j) # {}
    <3>1. PICK i \in DOMAIN lines : lines[i].id = j /\ LastLine(lines, j) = lines[i]
      BY <2>3, LastIsALine
    <3>. QED BY <2>1, <2>3, <3>1 DEF Survives
  <2>. QED BY <2>2, <2>3
<1> DEFINE m == Merge(jobs, lines)
<1>2. IsJobList(m)
  BY <1>1 DEF IsJobList
<1>3. ASSUME NEW slots, Ahead(jobs, slots, {}),
             \A i \in DOMAIN lines : lines[i].action # "del" => slots[lines[i].id] = 0
      PROVE  Ahead(m, slots, {})
  <2> SUFFICES ASSUME NEW j \in DOMAIN m
               PROVE  IsAhead(m[j], slots[j])
    BY DEF Ahead
  <2> HIDE DEF m
  <2>1. CASE j \in DOMAIN jobs /\ m[j] = jobs[j]
    BY <1>3, <2>1 DEF Ahead
  <2>2. ASSUME NEW i \in DOMAIN lines, lines[i].id = j, lines[i].action # "del",
               m[j] = lines[i].job
        PROVE  IsAhead(m[j], slots[j])
    <3>1. slots[j] = 0 /\ m[j] \in JobRecord
      BY <1>3, <2>2
    <3>2. m[j].next \in Nat
      BY <3>1 DEF JobRecord
    <3>. QED BY <3>1, <3>2 DEF IsAhead
  <2>. QED BY <1>1, <2>1, <2>2 DEF m
<1>. QED BY <1>2, <1>3

(* A save of a sound list (_save_store).                                    *)
LEMMA SaveIsSound ==
    ASSUME NEW st, NEW before, GoodStore(st, before),
           NEW jobs, IsJobList(jobs), NEW running,
           Trusted => Ahead(jobs, begun, running), NEW s, SavedAs(st, jobs, s)
    PROVE  GoodStore(s.st, running)
<1>1. /\ IsStore(s.st) /\ s.st.jobs = jobs /\ s.st.lines = st.lines
      /\ \/ ~s.st.dirty /\ s.st.file = "good" /\ s.st.disk = jobs
         \/ s.st.dirty /\ s.st.file = st.file /\ s.st.disk = st.disk
         \/ s.st.dirty /\ s.st.file = "good" /\ s.st.disk = jobs
  BY DEF SavedAs
<1>2. Listed(s.st)
  BY <1>1 DEF GoodStore, Listed
<1>3. Trusted => NotAgain(s.st, begun, running)
  BY <1>1 DEF GoodStore, NotAgain
<1>4. /\ s.st.file # "good" => s.st.disk = NoJobs
      /\ s.st.file = "corrupt" => count.corruptions >= 1
  BY <1>1 DEF GoodStore
<1>. QED BY <1>1, <1>2, <1>3, <1>4 DEF GoodStore

(* A load, which merges what is on disk unless somebody is running          *)
(* (_load_store).                                                           *)
LEMMA LoadIsSound ==
    ASSUME NEW st, NEW running, GoodStore(st, running),
           NEW owner, NEW executing, NEW l \in Load(st, owner, executing),
           running # {} => executing /\ st.loaded
    PROVE  GoodStore(l.st, running)
<1>0. IsStore(st) /\ Listed(st) /\ (Trusted => NotAgain(st, begun, running))
  BY DEF GoodStore
<1>1. IsStore(l.st)
  BY <1>0, LoadReads
<1>2. CASE LoadKept(st, l)
  BY <1>2 DEF LoadKept
<1>3. CASE LoadMet(st, l)
  <2>1. /\ l.st.dirty = st.dirty /\ l.st.disk = st.disk /\ l.st.jobs = st.jobs
        /\ l.st.lines = st.lines /\ l.st.file = "missing" /\ st.file = "corrupt"
    BY <1>0, <1>3 DEF LoadMet, SameBut, IsStore, Fields
  <2>2. Listed(l.st)
    BY <1>0, <2>1 DEF Listed
  <2>3. Trusted => NotAgain(l.st, begun, running)
    BY <1>0, <2>1 DEF NotAgain
  <2>. QED BY <1>1, <2>1, <2>2, <2>3 DEF GoodStore
<1>4. CASE LoadMerged(st, l) /\ (LoadSaved(st, l) \/ LoadRead(st, l))
      /\ ~(st.loaded /\ (st.dirty \/ executing))
  <2>1. running = {} /\ ~st.dirty /\ l.st.jobs = Merge(st.disk, st.lines)
    BY <1>4 DEF LoadMerged
  <2>2. /\ IsJobList(l.st.jobs) /\ IsLog(st.lines)
        /\ Trusted => Ahead(l.st.jobs, begun, {})
    <3>1. IsLog(st.lines) /\ IsJobList(st.disk)
      BY <1>0 DEF IsStore, Listed
    <3>2. \A i \in DOMAIN st.lines :
             /\ st.lines[i].id \in Job
             /\ st.lines[i].action # "del" => st.lines[i].job \in JobRecord
      BY <1>0 DEF Listed
    <3>3. /\ IsJobList(Merge(st.disk, st.lines))
          /\ \A slots : /\ Ahead(st.disk, slots, {})
                        /\ \A i \in DOMAIN st.lines : st.lines[i].action # "del" =>
                                                   slots[st.lines[i].id] = 0
                        => Ahead(Merge(st.disk, st.lines), slots, {})
      BY <3>1, <3>2, MergeIsSound
    <3>4. Trusted => /\ Ahead(st.disk, begun, {})
                     /\ \A i \in DOMAIN st.lines : st.lines[i].action # "del" =>
                                                   begun[st.lines[i].id] = 0
      BY <1>0, <2>1 DEF NotAgain
    <3>. QED BY <2>1, <3>1, <3>3, <3>4
  <2>3. CASE LoadSaved(st, l)
    <3>1. /\ DOMAIN l.st.lines = {}
          /\ \/ ~l.st.dirty /\ l.st.file = "good" /\ l.st.disk = l.st.jobs
             \/ l.st.dirty /\ l.st.file = st.file /\ l.st.disk = st.disk
             \/ l.st.dirty /\ l.st.file = "good" /\ l.st.disk = l.st.jobs
      BY <2>3 DEF LoadSaved
    <3>2. Listed(l.st)
      BY <1>0, <2>2, <3>1 DEF Listed
    <3>3. Trusted => NotAgain(l.st, begun, running)
      BY <2>1, <2>2, <3>1 DEF NotAgain
    <3>. QED BY <1>1, <3>1, <3>2, <3>3 DEF GoodStore
  <2>4. CASE LoadRead(st, l)
    <3>1. l.st.file = st.file /\ l.st.disk = st.disk /\ l.st.lines = st.lines
      BY <2>4 DEF LoadRead
    <3>2. Listed(l.st)
      BY <1>0, <2>2, <3>1 DEF Listed
    <3>3. Trusted => NotAgain(l.st, begun, running)
      BY <1>0, <2>1, <2>2, <3>1 DEF NotAgain
    <3>. QED BY <1>1, <3>1, <3>2, <3>3 DEF GoodStore
  <2>. QED BY <1>4, <2>3, <2>4
<1>. QED BY <1>0, <1>2, <1>3, <1>4, LoadReads

(* An owner that loads leaves no line about a job it lists: it merges and   *)
(* truncates them, unless it had none before (_load_store).                 *)
LEMMA OwnerClears ==
    ASSUME NEW st, IsStore(st), NEW executing \in BOOLEAN,
           NEW l \in Load(st, TRUE, executing),
           NEW due,
           \/ LineFree(st.lines, DOMAIN st.jobs \cup due)
           \/ ~st.dirty /\ ~executing /\ st.file # "corrupt"
    PROVE  LineFree(l.st.lines, DOMAIN l.st.jobs \cup due)
<1>1. CASE LoadKept(st, l) \/ LoadMet(st, l)
  <2>1. l.st.jobs = st.jobs /\ l.st.lines = st.lines
    BY <1>1 DEF LoadKept, LoadMet, SameBut, IsStore, Fields
  <2>2. LineFree(st.lines, DOMAIN st.jobs \cup due)
    <3>1. CASE st.loaded /\ (st.dirty \/ executing)
      BY <3>1
    <3>2. CASE ~(st.loaded /\ (st.dirty \/ executing)) /\ st.file = "corrupt"
      BY <3>2
    <3>3. CASE ~(st.loaded /\ (st.dirty \/ executing)) /\ st.file # "corrupt"
      <4>1. IF st.lines # <<>> THEN LoadSaved(st, l) ELSE LoadRead(st, l)
        BY <3>3, LoadReads
      <4>2. st.lines = <<>>
        BY <2>1, <4>1 DEF LoadSaved
      <4>3. DOMAIN st.lines = {}
        BY <4>2
      <4>. QED BY <4>3 DEF LineFree
    <3>. QED BY <3>1, <3>2, <3>3
  <2>. QED BY <2>1, <2>2
<1>2. CASE LoadSaved(st, l) \/ (LoadRead(st, l) /\ st.lines = <<>>)
  <2>1. DOMAIN l.st.lines = {}
    BY <1>2 DEF LoadSaved, LoadRead
  <2>. QED BY <2>1 DEF LineFree
<1>. QED BY <1>1, <1>2, LoadReads

-----------------------------------------------------------------------------
\* The steps.

\* The step uses up no bound that Trusted looks at.
SameTrust ==
    /\ count' = [f \in Counted |-> count'[f]]
    /\ count'.corruptions = count.corruptions /\ count'.verdicts = count.verdicts

(* What Becomes writes to the counters.                                     *)
LEMMA BecomesCounts ==
    ASSUME SInv, \/ \E n : count' = [count EXCEPT !.failures = n]
                 \/ \E n : count' = [count EXCEPT !.crashes = n]
                 \/ UNCHANGED count
    PROVE  SameTrust
BY DEF SInv, SameTrust, Counted

(* A step in which nobody begins to run.                                    *)
LEMMA SameSlots ==
    ASSUME SInv, UNCHANGED <<now, begun>>, SameTrust, Unborn' \subseteq Unborn,
           GoodStore(store', Running'),
           \A j \in DOMAIN timer'.due : j \in Job /\ timer'.due[j] \in Nat /\ timer'.due[j] <= now,
           phase' # "up" => ~store'.dirty,
           Trusted /\ phase' = "up" => Unmerged' \/ LineFree(store'.lines, Taken')
    PROVE  SInv'
<1>1. Trusted' = Trusted
  BY DEF SameTrust, Trusted
<1>2. GoodStore(store, Running)'
  BY <1>1 DEF GoodStore, SameTrust
<1>. QED BY <1>1, <1>2 DEF SInv, SameTrust

(* The process ends, and what it did not save is forgotten.                 *)
LEMMA EndsSlots ==
    ASSUME CInv, SInv, NEW st, GoodStore(st, Running), Ends(st), SameTrust
    PROVE  SInv'
<1>1. /\ store' = [st EXCEPT !.loaded = FALSE, !.jobs = NoJobs, !.dirty = FALSE]
      /\ phase' = "down" /\ timer' = Off /\ UNCHANGED <<now, born>>
      /\ begun' = IF st.dirty \/ timer.pc = "executing" THEN [j \in Job |-> 0]
                  ELSE begun
  BY DEF Ends
<1>2. /\ store' = [f \in Fields |-> store'[f]]
      /\ store'.loaded = FALSE /\ store'.jobs = NoJobs /\ store'.dirty = FALSE
      /\ store'.disk = st.disk /\ store'.lines = st.lines /\ store'.file = st.file
  BY <1>1 DEF GoodStore, IsStore, Fields
<1>3. /\ DOMAIN NoJobs = {} /\ IsList(NoJobs) /\ IsJobList(NoJobs)
      /\ timer'.pc = "off" /\ DOMAIN timer'.due = {} /\ Running' = {}
  BY <1>1 DEF NoJobs, IsList, IsJobList, Off, Running
<1>4. IsStore(store') /\ Listed(store')
  BY <1>2, <1>3 DEF GoodStore, IsStore, Listed
<1>5. Trusted' = Trusted /\ Unborn' = Unborn
  BY <1>1 DEF SameTrust, Trusted, Unborn
<1>6. begun' \in [Job -> Nat] /\ \A j \in Job : begun'[j] <= now /\ (begun[j] = 0 => begun'[j] = 0)
  BY <1>1 DEF SInv
<1>7. ASSUME Trusted
      PROVE  NotAgain(store', begun', {})
  <2>1. NotAgain(st, begun, Running) /\ IsJobList(st.disk)
    BY <1>7 DEF GoodStore, Listed
  <2>2. \A i \in DOMAIN st.lines : st.lines[i].action # "del" => begun'[st.lines[i].id] = 0
    BY <1>6, <2>1 DEF NotAgain, GoodStore, Listed
  <2>3. Ahead(st.disk, begun', {})
    <3>1. CASE st.dirty \/ timer.pc = "executing"
      <4>1. \A j \in DOMAIN st.disk : begun'[j] = 0 /\ st.disk[j].next \in Nat
        BY <1>1, <2>1, <3>1 DEF IsJobList, JobRecord
      <4>. QED BY <4>1 DEF Ahead, IsAhead
    <3>2. CASE ~(st.dirty \/ timer.pc = "executing")
      BY <1>1, <2>1, <3>2 DEF NotAgain, Running
    <3>. QED BY <3>1, <3>2
  <2>. QED BY <1>2, <1>3, <2>2, <2>3 DEF NotAgain, Ahead
<1>8. GoodStore(store, Running)'
  BY <1>2, <1>3, <1>4, <1>5, <1>7 DEF GoodStore, SameTrust
<1>9. \A j \in Unborn' : begun'[j] = 0
  BY <1>5, <1>6 DEF SInv, Unborn
<1>10. phase' = "down" /\ ~store'.dirty /\ now' = now
  BY <1>1, <1>2
<1>. QED BY <1>3, <1>6, <1>8, <1>9, <1>10 DEF SInv, SameTrust

(* The gateway boots, or is killed.                                         *)
LEMMA BootSlots == ASSUME CInv, SInv, Boot \/ Crash PROVE SInv'
<1>1. CASE Boot
  <2>1. PICK l \in Load(store, FALSE, FALSE) : Becomes(l)
    BY <1>1 DEF Boot
  <2>2. /\ store' = l.st /\ phase = "down" /\ phase' = "boot"
        /\ UNCHANGED <<timer, now, begun, born>> /\ SameTrust
    BY <1>1, <2>1, BecomesCounts DEF Boot, Becomes, history
  <2>3. Running = {} /\ Running' = {} /\ Unborn' = Unborn /\ ~store.dirty
    BY <2>2 DEF CInv, Running, Unborn, SInv
  <2>4. GoodStore(l.st, {})
    BY <2>1, <2>3, LoadIsSound DEF SInv
  <2>5. ~l.st.dirty
    <3>1. IsStore(store)
      BY DEF CInv
    <3>2. LoadMet(store, l) \/ LoadRead(store, l)
      BY <2>1, <2>3, <3>1, LoadReads
    <3>3. LoadMet(store, l) => l.st.dirty = store.dirty
      BY <3>1 DEF LoadMet, SameBut, IsStore, Fields
    <3>. QED BY <2>3, <3>2, <3>3 DEF LoadRead
  <2>. QED BY <2>2, <2>3, <2>4, <2>5, SameSlots DEF SInv
<1>2. CASE Crash
  <2>1. Ends(store) /\ SameTrust
    BY <1>2, BecomesCounts DEF Crash
  <2>. QED BY <2>1, EndsSlots DEF SInv
<1>. QED BY <1>1, <1>2

(* Registering a system job keeps its slot, or gives it one in the future   *)
(* (register_system_job).                                                   *)
LEMMA RegisterSlots ==
    ASSUME ConstantsOK, CInv, SInv, NEW j \in System, NEW schedule \in SystemSchedules,
           Register(j, schedule)
    PROVE  SInv'
<1> DEFINE jobs(l) == With(l.st.jobs, j, RegisteredJob(l.st.jobs, j, schedule))
<1>1. phase = "boot"
  BY DEF Register
<1>2. PICK l \in Loads :
         \/ ~l.ok /\ Ends(l.st) /\ UNCHANGED count
         \/ l.ok /\ \E s \in Save([l.st EXCEPT !.jobs = jobs(l)]) :
                       \/ ~s.ok /\ Ends(s.st)
                          /\ count' = [count EXCEPT !.failures = @ + s.fails]
                       \/ s.ok /\ Becomes(s)
                          /\ UNCHANGED <<phase, timer, now, begun, born>>
  BY DEF Register, history
<1>3. Running = {} /\ j \in Job /\ schedule \in Schedule /\ now \in Nat
  BY <1>1 DEF CInv, Running, ConstantsOK, SInv
<1>4. GoodStore(l.st, {}) /\ (l.ok => l.st.loaded) /\ IsStore(l.st)
  <2>1. GoodStore(store, {}) /\ IsStore(store)
    BY <1>3 DEF SInv, CInv
  <2>2. l \in Load(store, phase = "up", Executing)
    BY DEF Loads
  <2>3. GoodStore(l.st, {})
    BY <2>1, <2>2, LoadIsSound
  <2>4. IsStore(l.st) /\ (l.ok => l.st.loaded)
    BY <2>1, <2>2, LoadReads
  <2>. QED BY <2>3, <2>4
<1>5. CASE ~l.ok /\ Ends(l.st) /\ UNCHANGED count
  BY <1>3, <1>4, <1>5, EndsSlots, BecomesCounts
<1>6. ASSUME l.ok, NEW s \in Save([l.st EXCEPT !.jobs = jobs(l)]),
             \/ ~s.ok /\ Ends(s.st) /\ count' = [count EXCEPT !.failures = @ + s.fails]
             \/ s.ok /\ Becomes(s) /\ UNCHANGED <<phase, timer, now, begun, born>>
      PROVE  SInv'
  <2>1. EditOf(l.st.jobs, jobs(l))
    <3>1. IsJobList(l.st.jobs) /\ IsList(l.st.jobs)
      BY <1>4 DEF GoodStore, Listed, IsStore
    <3> DEFINE job == RegisteredJob(l.st.jobs, j, schedule)
    <3>2. Begins(job) \/ (j \in DOMAIN l.st.jobs /\ Follows(l.st.jobs[j], job))
      <4>1. CASE j \notin DOMAIN l.st.jobs
        BY <1>3, <4>1, NewJobBegins DEF RegisteredJob
      <4>2. CASE j \in DOMAIN l.st.jobs
        <5>1. l.st.jobs[j] \in JobRecord /\ l.st.jobs[j].attempts \in Nat
          BY <3>1, <4>2 DEF IsJobList, JobRecord
        <5>. QED BY <1>3, <4>2, <5>1, NewJobBegins, JobsFollow DEF RegisteredJob
      <4>. QED BY <4>1, <4>2
    <3> HIDE DEF job
    <3>3. EditOf(l.st.jobs, With(l.st.jobs, j, job))
      BY <1>3, <3>1, <3>2, EditsOfLists
    <3>. QED BY <3>3 DEF job
  <2> HIDE DEF jobs
  <2>2. SavedAs(l.st, jobs(l), s)
    BY <1>4, <1>6, <2>1, EditReads DEF EditOf
  <2>3. Trusted => Ahead(jobs(l), begun, {})
    BY <1>3, <1>4, <2>1, EditStaysAhead DEF SInv, GoodStore, NotAgain
  <2>4. GoodStore(s.st, {})
    BY <1>4, <2>1, <2>2, <2>3, SaveIsSound DEF EditOf
  <2>5. CASE ~s.ok /\ Ends(s.st) /\ count' = [count EXCEPT !.failures = @ + s.fails]
    BY <1>3, <2>4, <2>5, EndsSlots, BecomesCounts
  <2>6. CASE s.ok /\ Becomes(s) /\ UNCHANGED <<phase, timer, now, begun, born>>
    <3>1. SameTrust /\ store' = s.st /\ ~s.st.dirty /\ Unborn' = Unborn /\ Running' = {}
      BY <1>3, <2>2, <2>6, BecomesCounts DEF Becomes, SavedAs, Unborn, Running
    <3>. QED BY <1>1, <2>4, <2>6, <3>1, SameSlots DEF SInv
  <2>. QED BY <1>6, <2>5, <2>6
<1>. QED BY <1>2, <1>5, <1>6

(* start() gives every enabled job but a pending retry a slot in the future,*)
(* and may leave lines that the boot merged when its own load met an        *)
(* unreadable file (_recompute_next_runs).                                  *)
LEMMA StartSlots == ASSUME CInv, SInv, Start PROVE SInv'
<1>1. PICK l \in Load(store, TRUE, FALSE) :
         \/ ~l.ok /\ Ends(l.st) /\ count' = [count EXCEPT !.failures = @ + l.fails]
         \/ l.ok /\ \E s \in Save([l.st EXCEPT !.jobs = Recomputed(@)]) :
                       \/ ~s.ok /\ Ends(s.st)
                          /\ count' = [count EXCEPT !.failures = @ + s.fails]
                       \/ /\ s.ok /\ Becomes(s) /\ phase' = "up" /\ timer' = Asleep
                          /\ UNCHANGED <<manual, now, begun, born>>
  BY DEF Start, history
<1>2. /\ phase = "boot" /\ Running = {} /\ manual = NoJob /\ ~store.dirty
      /\ IsStore(store) /\ GoodStore(store, {}) /\ now \in Nat
  BY DEF Start, CInv, Running, SInv
<1>3. IsStore(l.st) /\ (l.ok => l.st.loaded) /\ GoodStore(l.st, {})
  BY <1>2, LoadReads, LoadIsSound
<1>4. CASE ~l.ok /\ Ends(l.st) /\ count' = [count EXCEPT !.failures = @ + l.fails]
  BY <1>2, <1>3, <1>4, EndsSlots, BecomesCounts
<1>5. ASSUME l.ok, NEW s \in Save([l.st EXCEPT !.jobs = Recomputed(@)]),
             \/ ~s.ok /\ Ends(s.st) /\ count' = [count EXCEPT !.failures = @ + s.fails]
             \/ /\ s.ok /\ Becomes(s) /\ phase' = "up" /\ timer' = Asleep
                /\ UNCHANGED <<manual, now, begun, born>>
      PROVE  SInv'
  <2> DEFINE old == l.st.jobs
             new == Recomputed(l.st.jobs)
  <2>1. EditOf(old, new) /\ DOMAIN new = DOMAIN old
    <3>1. IsJobList(old)
      BY <1>3 DEF GoodStore, Listed
    <3> HIDE DEF old
    <3>2. ASSUME NEW j \in DOMAIN old
          PROVE  Follows(old[j], Recomputed(old)[j])
      <4>1. old[j] \in JobRecord
        BY <3>1 DEF IsJobList
      <4>2. \/ Recomputed(old)[j] = old[j]
            \/ Recomputed(old)[j] = [old[j] EXCEPT !.next = NextRun(old[j].schedule)]
        BY DEF Recomputed
      <4>. QED BY <1>2, <4>1, <4>2, JobsFollow
    <3>3. /\ DOMAIN Recomputed(old) = DOMAIN old
          /\ Recomputed(old) = [j \in DOMAIN old |-> Recomputed(old)[j]]
      BY DEF Recomputed
    <3>4. EditOf(old, Recomputed(old))
      BY <3>1, <3>2, <3>3 DEF EditOf, Follows, IsJobList, IsList
    <3>. QED BY <3>3, <3>4 DEF old
  <2> HIDE DEF new
  <2>2. SavedAs(l.st, new, s)
    BY <1>3, <1>5, <2>1, EditReads DEF EditOf, new
  <2>3. Trusted => Ahead(new, begun, {})
    BY <1>2, <1>3, <2>1, EditStaysAhead DEF SInv, GoodStore, NotAgain
  <2>4. GoodStore(s.st, {})
    BY <1>3, <2>1, <2>2, <2>3, SaveIsSound DEF EditOf
  <2>5. CASE ~s.ok /\ Ends(s.st) /\ count' = [count EXCEPT !.failures = @ + s.fails]
    BY <1>2, <2>4, <2>5, EndsSlots, BecomesCounts
  <2>6. CASE /\ s.ok /\ Becomes(s) /\ phase' = "up" /\ timer' = Asleep
             /\ UNCHANGED <<manual, now, begun, born>>
    <3>1. /\ SameTrust /\ store' = s.st /\ Unborn' = Unborn
          /\ Running' = {} /\ DOMAIN timer'.due = {} /\ timer'.pc = "asleep"
      BY <2>6, BecomesCounts DEF Becomes, Unborn, Running, Asleep, NoJobs
    <3>2. ~s.st.dirty /\ s.st.file = "good" /\ s.st.lines = l.st.lines /\ s.st.jobs = new
      BY <2>2, <2>6 DEF SavedAs
    <3>3. ASSUME Trusted
          PROVE  Unmerged' \/ LineFree(store'.lines, Taken')
      <4>1. CASE store.file = "corrupt"
        <5>1. count.corruptions = 1
          BY <1>2, <3>3, <4>1 DEF Trusted, GoodStore, SInv
        <5>. QED BY <1>2, <2>6, <3>1, <3>2, <5>1 DEF Unmerged, SameTrust
      <4>2. CASE store.file # "corrupt"
        <5>1. LineFree(l.st.lines, DOMAIN l.st.jobs \cup {})
          BY <1>2, <4>2, OwnerClears
        <5>. QED BY <2>1, <3>1, <3>2, <5>1 DEF Taken, LineFree
      <4>. QED BY <4>1, <4>2
    <3>. QED BY <2>4, <2>6, <3>1, <3>3, SameSlots
  <2>. QED BY <1>5, <2>5, <2>6
<1>. QED BY <1>1, <1>4, <1>5

(* A step of the gateway that is up, and in which nobody begins to run.     *)
LEMMA UpSlots ==
    ASSUME SInv, phase = "up", UNCHANGED <<phase, now, begun>>, SameTrust,
           Unborn' \subseteq Unborn, timer' \in {timer, Armed, Asleep},
           GoodStore(store', Running'),
           Trusted => LineFree(store'.lines, DOMAIN store'.jobs \cup DOMAIN timer.due)
    PROVE  SInv'
<1>1. timer' = timer \/ (timer' = Asleep /\ DOMAIN timer'.due = {})
  BY DEF Armed, Asleep, NoJobs
<1>2. DOMAIN timer'.due \subseteq DOMAIN timer.due
  BY <1>1
<1>3. \A j \in DOMAIN timer'.due : j \in Job /\ timer'.due[j] \in Nat /\ timer'.due[j] <= now
  BY <1>1 DEF SInv
<1>4. Trusted => LineFree(store'.lines, Taken')
  BY <1>2 DEF LineFree, Taken
<1>. QED BY <1>3, <1>4, SameSlots

(* Arming the timer changes nobody's run.                                   *)
LEMMA ArmedRuns == timer' \in {timer, Armed} => Running' = Running
BY DEF Armed, Asleep, Running

(* What the gateway loads while it is up is sound, and no line is about it. *)
LEMMA UpLoads ==
    ASSUME CInv, SInv, phase = "up", NEW executing \in BOOLEAN,
           Running # {} => executing, executing => Executing,
           NEW l \in Load(store, TRUE, executing)
    PROVE  /\ IsStore(l.st) /\ l.st.loaded /\ GoodStore(l.st, Running)
           /\ Trusted => LineFree(l.st.lines, DOMAIN l.st.jobs \cup DOMAIN timer.due)
<1>1. IsStore(store) /\ store.loaded /\ GoodStore(store, Running)
  BY DEF CInv, SInv
<1>2. IsStore(l.st) /\ l.st.loaded /\ GoodStore(l.st, Running)
  BY <1>1, LoadReads, LoadIsSound
<1>3. Trusted => \/ LineFree(store.lines, DOMAIN store.jobs \cup DOMAIN timer.due)
                 \/ ~store.dirty /\ ~executing /\ store.file # "corrupt"
  BY DEF SInv, Unmerged, Executing, Taken
<1>4. ASSUME Trusted
      PROVE  LineFree(l.st.lines, DOMAIN l.st.jobs \cup DOMAIN timer.due)
  <2> DEFINE due == DOMAIN timer.due
  <2>1. \/ LineFree(store.lines, DOMAIN store.jobs \cup due)
        \/ ~store.dirty /\ ~executing /\ store.file # "corrupt"
    BY <1>3, <1>4
  <2> HIDE DEF due
  <2>2. LineFree(l.st.lines, DOMAIN l.st.jobs \cup due)
    BY <1>1, <2>1, OwnerClears
  <2>. QED BY <2>2 DEF due
<1>. QED BY <1>2, <1>4

(* The operator's edits (remove_job, enable_job, update_job,                *)
(* set_commissioning).                                                      *)
LEMMA EditsSlots ==
    ASSUME ConstantsOK, CInv, SInv, NEW j \in Job,
           \/ Remove(j)
           \/ \E s \in Schedules : Update(j, s)
           \/ \E b \in BOOLEAN : Enable(j, b) \/ SetCommissioning(j, b)
    PROVE  SInv'
<1>1. /\ phase = "up" /\ UNCHANGED <<phase, now, born, begun>>
      /\ now \in Nat /\ Unborn' = Unborn
  BY DEF Remove, Update, Enable, SetCommissioning, Change, SInv, Unborn
<1>2. PICK l \in Loads :
         \/ Becomes(l) /\ UNCHANGED timer
         \/ /\ j \in DOMAIN l.st.jobs
            /\ \E jobs :
                  /\ \/ jobs = Without(l.st.jobs, {j})
                     \/ \E s \in Schedules :
                           jobs = With(l.st.jobs, j, Rescheduled(l.st.jobs[j], s))
                     \/ \E b \in BOOLEAN :
                           \/ jobs = With(l.st.jobs, j, Enabled(l.st.jobs[j], b))
                           \/ jobs = With(l.st.jobs, j, Judged(l.st.jobs[j], b))
                  /\ \E s \in Save([l.st EXCEPT !.jobs = jobs]) :
                        Becomes(s) /\ timer' \in {timer, Armed}
  <2>1. CASE Remove(j)
    BY <2>1 DEF Remove, Change
  <2>2. CASE \E s \in Schedules : Update(j, s)
    BY <2>2 DEF Update, Change
  <2>3. CASE \E b \in BOOLEAN : Enable(j, b)
    BY <2>3 DEF Enable, Change
  <2>4. CASE \E b \in BOOLEAN : SetCommissioning(j, b)
    BY <2>4 DEF SetCommissioning, Change
  <2>. QED BY <2>1, <2>2, <2>3, <2>4
<1>3. /\ IsStore(l.st) /\ l.st.loaded /\ GoodStore(l.st, Running)
      /\ Trusted => LineFree(l.st.lines, DOMAIN l.st.jobs \cup DOMAIN timer.due)
  <2>1. /\ l \in Load(store, TRUE, Executing) /\ Executing \in BOOLEAN
        /\ Running # {} => Executing
    BY <1>1 DEF Loads, Running, Executing
  <2>. QED BY <1>1, <2>1, UpLoads
<1>4. CASE Becomes(l) /\ UNCHANGED timer
  <2>1. store' = l.st /\ SameTrust /\ Running' = Running
    BY <1>4, BecomesCounts, ArmedRuns DEF Becomes
  <2>. QED BY <1>1, <1>3, <1>4, <2>1, UpSlots
<1>5. ASSUME j \in DOMAIN l.st.jobs, NEW jobs,
             \/ jobs = Without(l.st.jobs, {j})
             \/ \E s \in Schedules :
                   jobs = With(l.st.jobs, j, Rescheduled(l.st.jobs[j], s))
             \/ \E b \in BOOLEAN :
                   \/ jobs = With(l.st.jobs, j, Enabled(l.st.jobs[j], b))
                   \/ jobs = With(l.st.jobs, j, Judged(l.st.jobs[j], b)),
             NEW s \in Save([l.st EXCEPT !.jobs = jobs]),
             Becomes(s), timer' \in {timer, Armed}
      PROVE  SInv'
  <2>1. EditOf(l.st.jobs, jobs) /\ DOMAIN jobs \subseteq DOMAIN l.st.jobs
    <3>1. IsJobList(l.st.jobs) /\ IsList(l.st.jobs) /\ l.st.jobs[j] \in JobRecord
      BY <1>3, <1>5 DEF GoodStore, Listed, IsStore, IsJobList
    <3>2. CASE jobs = Without(l.st.jobs, {j})
      <4>1. DOMAIN jobs \subseteq DOMAIN l.st.jobs
        BY <3>2 DEF Without
      <4>. QED BY <1>1, <3>1, <3>2, <4>1, EditsOfLists
    <3>3. CASE \/ \E b \in Schedules :
                     jobs = With(l.st.jobs, j, Rescheduled(l.st.jobs[j], b))
               \/ \E b \in BOOLEAN :
                     \/ jobs = With(l.st.jobs, j, Enabled(l.st.jobs[j], b))
                     \/ jobs = With(l.st.jobs, j, Judged(l.st.jobs[j], b))
      <4>1. Schedules \subseteq Schedule
        BY DEF ConstantsOK
      <4>2. \E job : jobs = With(l.st.jobs, j, job) /\ Follows(l.st.jobs[j], job)
        BY <1>1, <3>1, <3>3, <4>1, JobsFollow
      <4>3. EditOf(l.st.jobs, jobs)
        BY <1>1, <1>5, <3>1, <4>2, EditsOfLists
      <4>4. DOMAIN jobs \subseteq DOMAIN l.st.jobs
        BY <1>5, <4>2 DEF With
      <4>. QED BY <4>3, <4>4
    <3>. QED BY <1>5, <3>2, <3>3
  <2>2. Trusted => Ahead(jobs, begun, Running)
    BY <1>1, <1>3, <2>1, EditStaysAhead DEF SInv, GoodStore, NotAgain
  <2>3. GoodStore(s.st, Running) /\ s.st.jobs = jobs /\ s.st.lines = l.st.lines
    <3>1. IsList(jobs) /\ IsJobList(jobs)
      BY <2>1 DEF EditOf
    <3>2. SavedAs(l.st, jobs, s)
      BY <1>3, <1>5, <3>1, EditReads
    <3>. QED BY <1>3, <2>2, <3>1, <3>2, SaveIsSound DEF SavedAs
  <2>4. store' = s.st /\ SameTrust /\ Running' = Running
    BY <1>5, BecomesCounts, ArmedRuns DEF Becomes
  <2>5. Trusted => LineFree(store'.lines, DOMAIN store'.jobs \cup DOMAIN timer.due)
    BY <1>3, <2>1, <2>3, <2>4 DEF LineFree
  <2>. QED BY <1>1, <1>5, <2>3, <2>4, <2>5, UpSlots
<1>. QED BY <1>2, <1>4, <1>5

(* A new job is ahead, and one that could not be written is taken out again *)
(* (add_job).                                                               *)
LEMMA AddSlots ==
    ASSUME ConstantsOK, CInv, KInv, SInv, NEW j \in Job, NEW schedule \in Schedules,
           Add(j, schedule)
    PROVE  SInv'
<1>1. /\ phase = "up" /\ UNCHANGED <<phase, now, begun>> /\ now \in Nat
      /\ j \in Unborn /\ Unborn' \subseteq Unborn /\ schedule \in Schedule
  BY DEF Add, Unborn, SInv, CInv, ConstantsOK
<1> DEFINE jobs(l) == With(l.st.jobs, j, NewJob(schedule))
<1>2. PICK l \in Loads :
         \/ Becomes(l) /\ UNCHANGED timer
         \/ /\ l.ok
            /\ \E s \in Save([l.st EXCEPT !.jobs = jobs(l)]) :
                  \/ Becomes(s) /\ timer' = Armed
                  \/ ~s.ok /\ Becomes(Result(FALSE, RolledBack(s.st, j), s.fails))
                     /\ UNCHANGED timer
  BY DEF Add
<1>3. /\ IsStore(l.st) /\ l.st.loaded /\ GoodStore(l.st, Running)
      /\ Trusted => LineFree(l.st.lines, DOMAIN l.st.jobs \cup DOMAIN timer.due)
  <2>1. /\ l \in Load(store, TRUE, Executing) /\ Executing \in BOOLEAN
        /\ Running # {} => Executing
    BY <1>1 DEF Loads, Running, Executing
  <2>. QED BY <1>1, <2>1, UpLoads
<1>4. CASE Becomes(l) /\ UNCHANGED timer
  <2>1. store' = l.st /\ SameTrust /\ Running' = Running
    BY <1>4, BecomesCounts, ArmedRuns DEF Becomes
  <2>. QED BY <1>1, <1>3, <1>4, <2>1, UpSlots
<1>5. ASSUME l.ok, NEW s \in Save([l.st EXCEPT !.jobs = jobs(l)]),
             \/ Becomes(s) /\ timer' = Armed
             \/ ~s.ok /\ Becomes(Result(FALSE, RolledBack(s.st, j), s.fails))
                /\ UNCHANGED timer
      PROVE  SInv'
  <2>1. EditOf(l.st.jobs, jobs(l)) /\ DOMAIN jobs(l) = DOMAIN l.st.jobs \cup {j}
    <3>1. IsJobList(l.st.jobs) /\ IsList(l.st.jobs)
      BY <1>3 DEF GoodStore, Listed, IsStore
    <3>2. Begins(NewJob(schedule))
      BY <1>1, NewJobBegins
    <3>3. DOMAIN jobs(l) = DOMAIN l.st.jobs \cup {j}
      BY DEF With
    <3>. QED BY <1>1, <3>1, <3>2, <3>3, EditsOfLists
  <2> HIDE DEF jobs
  <2>2. Trusted => Ahead(jobs(l), begun, Running)
    BY <1>1, <1>3, <2>1, EditStaysAhead DEF SInv, GoodStore, NotAgain
  <2>3. /\ GoodStore(s.st, Running) /\ s.st.jobs = jobs(l) /\ s.st.lines = l.st.lines
        /\ ~s.ok => s.st.dirty
    <3>1. IsList(jobs(l)) /\ IsJobList(jobs(l))
      BY <2>1 DEF EditOf
    <3>2. SavedAs(l.st, jobs(l), s)
      BY <1>3, <1>5, <3>1, EditReads
    <3>. QED BY <1>3, <2>2, <3>1, <3>2, SaveIsSound DEF SavedAs
  <2>4. Trusted => LineFree(l.st.lines, DOMAIN jobs(l) \cup DOMAIN timer.due)
    <3>1. \A i \in DOMAIN l.st.lines : l.st.lines[i].id # j
      <4>1. l \in Load(store, phase = "up", Executing)
        BY DEF Loads
      <4>2. KeepsIn(l.st, acked, Unborn)
        BY <4>1, LoadKeeps DEF CInv, KInv
      <4>. QED BY <1>1, <4>2 DEF KeepsIn
    <3>. QED BY <1>3, <2>1, <3>1 DEF LineFree
  <2>5. CASE Becomes(s) /\ timer' = Armed
    <3>1. store' = s.st /\ SameTrust /\ Running' = Running
      BY <2>5, BecomesCounts, ArmedRuns DEF Becomes
    <3>2. Trusted => LineFree(store'.lines, DOMAIN store'.jobs \cup DOMAIN timer.due)
      BY <2>3, <2>4, <3>1
    <3>. QED BY <1>1, <2>3, <2>5, <3>1, <3>2, UpSlots
  <2>6. CASE ~s.ok /\ Becomes(Result(FALSE, RolledBack(s.st, j), s.fails))
             /\ UNCHANGED timer
    <3>1. SameTrust /\ Running' = Running
      BY <2>6, BecomesCounts, ArmedRuns DEF Becomes, Result
    <3> DEFINE rest == Without(jobs(l), {j})
    <3>2. /\ IsStore(s.st) /\ Listed(s.st) /\ s.st.dirty
          /\ IsJobList(jobs(l)) /\ IsList(jobs(l))
      BY <2>1, <2>3, <2>6 DEF GoodStore, EditOf
    <3>3. EditOf(jobs(l), rest) /\ DOMAIN rest \subseteq DOMAIN jobs(l)
      <4>1. DOMAIN rest \subseteq DOMAIN jobs(l)
        BY DEF Without
      <4>. QED BY <1>1, <3>2, <4>1, EditsOfLists
    <3>4. Trusted => Ahead(rest, begun, Running)
      <4> HIDE DEF rest
      <4>. QED BY <1>1, <2>2, <3>3, EditStaysAhead DEF SInv
    <3>5. store' = [s.st EXCEPT !.jobs = rest]
      BY <2>3, <2>6 DEF Becomes, Result, RolledBack
    <3> HIDE DEF rest
    <3>6. SameBut(s.st, store') /\ store'.jobs = rest
      BY <3>2, <3>3, <3>5, EditReads DEF EditOf
    <3>7. GoodStore(store', Running)
      <4>1. Listed(store')
        BY <3>2, <3>3, <3>6 DEF Listed, EditOf, SameBut
      <4>2. Trusted => NotAgain(store', begun, Running)
        BY <2>3, <3>2, <3>4, <3>6 DEF NotAgain, GoodStore, SameBut
      <4>. QED BY <2>3, <3>6, <4>1, <4>2 DEF GoodStore, SameBut
    <3>8. Trusted => LineFree(store'.lines, DOMAIN store'.jobs \cup DOMAIN timer.due)
      BY <2>3, <2>4, <3>3, <3>6 DEF LineFree, SameBut
    <3>. QED BY <1>1, <2>6, <3>1, <3>7, <3>8, UpSlots
  <2>. QED BY <1>5, <2>5, <2>6
<1>. QED BY <1>2, <1>4, <1>5

(* A manual run begins with a save and a load, and ends with a save         *)
(* (run_job): it is nobody's slot.                                          *)
LEMMA ManualSlots ==
    ASSUME ConstantsOK, CInv, SInv,
           (\E j \in Job : ManualRun(j)) \/ \E o \in Outcomes : ManualRunEnds(o)
    PROVE  SInv'
<1>1. /\ phase = "up" /\ UNCHANGED <<phase, now, born, begun>> /\ now \in Nat
      /\ Unborn' = Unborn /\ timer' = Armed /\ Running' = Running
      /\ IsStore(store) /\ store.loaded /\ GoodStore(store, Running)
  BY ArmedRuns DEF ManualRun, ManualRunEnds, SInv, Unborn, CInv, history
<1>2. ASSUME NEW j, ManualRun(j)
      PROVE  SInv'
  <2>1. PICK s \in IF store.dirty THEN Save(store) ELSE {Result(TRUE, store, 0)} :
           \/ ~s.ok /\ Becomes(s)
           \/ \E l \in Load(s.st, TRUE, timer.pc = "executing") : Becomes(l)
    BY <1>2 DEF ManualRun
  <2>2. /\ IsStore(s.st) /\ s.st.loaded /\ GoodStore(s.st, Running)
        /\ Trusted
           => \/ LineFree(s.st.lines, DOMAIN s.st.jobs \cup DOMAIN timer.due)
              \/ ~s.st.dirty /\ timer.pc = "asleep" /\ s.st.file # "corrupt"
        /\ store.dirty /\ Trusted
           => LineFree(s.st.lines, DOMAIN s.st.jobs \cup DOMAIN timer.due)
    <3>1. CASE store.dirty
      <4>1. SavedAs(store, store.jobs, s)
        BY <1>1, <2>1, <3>1, SaveReads
      <4>2. GoodStore(s.st, Running)
        <5>1. IsJobList(store.jobs) /\ (Trusted => Ahead(store.jobs, begun, Running))
          BY <1>1 DEF GoodStore, Listed, NotAgain
        <5>. QED BY <1>1, <4>1, <5>1, SaveIsSound
      <4>3. Trusted => LineFree(store.lines, Taken)
        BY <1>1, <3>1 DEF SInv, Unmerged
      <4>. QED BY <4>1, <4>2, <4>3 DEF SavedAs, Taken
    <3>2. CASE ~store.dirty
      <4>1. s.st = store
        BY <2>1, <3>2 DEF Result
      <4>. QED BY <1>1, <3>2, <4>1 DEF SInv, Unmerged, Taken
    <3>. QED BY <3>1, <3>2
  <2>4. CASE ~s.ok /\ Becomes(s)
    <3>1. store' = s.st /\ SameTrust
      BY <2>4, BecomesCounts DEF Becomes
    <3>2. store.dirty
      BY <2>1, <2>4 DEF Result
    <3>. QED BY <1>1, <2>2, <3>1, <3>2, UpSlots
  <2>5. ASSUME NEW l \in Load(s.st, TRUE, timer.pc = "executing"), Becomes(l)
        PROVE  SInv'
    <3>1. store' = l.st /\ SameTrust
      BY <2>5, BecomesCounts DEF Becomes
    <3>2. GoodStore(l.st, Running)
      BY <2>2, LoadIsSound DEF Running
    <3>3. ASSUME Trusted
          PROVE  LineFree(l.st.lines, DOMAIN l.st.jobs \cup DOMAIN timer.due)
      <4> DEFINE due == DOMAIN timer.due
      <4>1. \/ LineFree(s.st.lines, DOMAIN s.st.jobs \cup due)
            \/ ~s.st.dirty /\ ~(timer.pc = "executing") /\ s.st.file # "corrupt"
        BY <2>2, <3>3
      <4>2. (timer.pc = "executing") \in BOOLEAN
        OBVIOUS
      <4> HIDE DEF due
      <4>3. LineFree(l.st.lines, DOMAIN l.st.jobs \cup due)
        BY <2>2, <4>1, <4>2, OwnerClears
      <4>. QED BY <4>3 DEF due
    <3>. QED BY <1>1, <3>1, <3>2, <3>3, UpSlots
  <2>. QED BY <2>1, <2>4, <2>5
<1>3. ASSUME NEW o, ManualRunEnds(o)
      PROVE  SInv'
  <2>1. PICK jobs \in After(store.jobs, manual, o) :
           \E s \in Save([store EXCEPT !.jobs = jobs]) : Becomes(s)
    BY <1>3 DEF ManualRunEnds
  <2>2. PICK s \in Save([store EXCEPT !.jobs = jobs]) : Becomes(s)
    BY <2>1
  <2>3. EditOf(store.jobs, jobs) /\ DOMAIN jobs \subseteq DOMAIN store.jobs
    BY <1>1, RunIsAnEdit DEF GoodStore, Listed, IsStore
  <2>4. SavedAs(store, jobs, s)
    BY <1>1, <2>2, <2>3, EditReads DEF EditOf
  <2>5. GoodStore(s.st, Running)
    <3>1. Trusted => Ahead(jobs, begun, Running)
      BY <1>1, <2>3, EditStaysAhead DEF SInv, GoodStore, NotAgain
    <3>2. IsJobList(jobs)
      BY <2>3 DEF EditOf
    <3>. QED BY <1>1, <2>4, <3>1, <3>2, SaveIsSound
  <2>6. store' = s.st /\ SameTrust
    BY <2>2, BecomesCounts DEF Becomes
  <2>7. Trusted => LineFree(store'.lines, DOMAIN store'.jobs \cup DOMAIN timer.due)
    <3>1. Trusted => LineFree(store.lines, Taken)
      BY <1>1, <1>3 DEF SInv, Unmerged, ManualRunEnds
    <3>. QED BY <2>3, <2>4, <2>6, <3>1 DEF LineFree, Taken, SavedAs
  <2>. QED BY <1>1, <2>5, <2>6, <2>7, UpSlots
<1>. QED BY <1>2, <1>3

(* The timer takes up the next due job, or ends the tick with a save        *)
(* (_on_timer).                                                             *)
LEMMA RunDueSlots ==
    ASSUME SInv, phase = "up", UNCHANGED <<phase, now, born>>,
           NEW st, st.loaded, NEW before, GoodStore(st, before),
           Trusted => Ahead(st.jobs, begun, {}),
           NEW due, DOMAIN due \subseteq Job \ Unborn,
           \A j \in DOMAIN due : due[j] \in Nat /\ due[j] <= now,
           Trusted => LineFree(st.lines, DOMAIN st.jobs \cup DOMAIN due),
           RunDue(st, due)
    PROVE  SInv'
<1>1. Unborn' = Unborn /\ now \in Nat /\ IsStore(st) /\ IsJobList(st.jobs)
  BY DEF Unborn, SInv, GoodStore, Listed
<1>2. CASE DOMAIN due = {}
  <2>1. PICK s \in Save(st) : Becomes(s) /\ timer' = Asleep /\ UNCHANGED begun
    BY <1>2 DEF RunDue
  <2>2. /\ SameTrust /\ store' = s.st /\ Running' = {} /\ DOMAIN timer'.due = {}
    BY <2>1, BecomesCounts DEF Becomes, Asleep, NoJobs, Running
  <2>3. SavedAs(st, st.jobs, s)
    BY <1>1, <2>1, SaveReads
  <2>4. GoodStore(s.st, {})
    BY <1>1, <2>3, SaveIsSound
  <2>5. Trusted => LineFree(store'.lines, Taken')
    BY <1>2, <2>2, <2>3 DEF SavedAs, LineFree, Taken
  <2>. QED BY <1>1, <2>1, <2>2, <2>4, <2>5, SameSlots
<1>3. CASE DOMAIN due # {}
  <2>1. PICK j \in DOMAIN due :
           /\ Becomes(Result(TRUE, st, 0))
           /\ timer' = [pc |-> "executing", job |-> j, due |-> Without(due, {j})]
           /\ begun' = [begun EXCEPT ![j] = due[j]]
    BY <1>3 DEF RunDue
  <2>2. /\ SameTrust /\ store' = st /\ Running' = {j} /\ j \in Job \ Unborn
        /\ timer'.pc = "executing" /\ timer'.due = Without(due, {j})
    BY <2>1, BecomesCounts DEF Becomes, Result, Running
  <2>3. /\ DOMAIN timer'.due \subseteq DOMAIN due
        /\ \A k \in DOMAIN timer'.due : timer'.due[k] = due[k]
    BY <2>2 DEF Without
  <2>4. /\ begun' \in [Job -> Nat] /\ begun'[j] = due[j]
        /\ \A k \in Job : k # j => begun'[k] = begun[k]
    BY <2>1, <2>2 DEF SInv
  <2>5. \A k \in Job : begun'[k] <= now
    BY <2>4 DEF SInv
  <2>6. Trusted' = Trusted
    BY <2>2 DEF SameTrust, Trusted
  <2>7. ASSUME Trusted
        PROVE  NotAgain(st, begun', {j})
    <3>1. /\ NotAgain(st, begun, before) /\ Ahead(st.jobs, begun, {})
          /\ LineFree(st.lines, DOMAIN st.jobs \cup DOMAIN due)
      BY <2>7 DEF GoodStore
    <3>2. \A i \in DOMAIN st.lines :
             st.lines[i].action # "del" => begun'[st.lines[i].id] = 0
      <4> SUFFICES ASSUME NEW i \in DOMAIN st.lines, st.lines[i].action # "del"
                   PROVE  begun'[st.lines[i].id] = 0
        OBVIOUS
      <4>1. begun[st.lines[i].id] = 0 /\ st.lines[i].id # j
        BY <3>1 DEF NotAgain, LineFree
      <4>2. st.lines[i].id \in Job
        BY DEF GoodStore, Listed
      <4>. QED BY <2>4, <4>1, <4>2
    <3>3. Ahead(st.jobs, begun', {j})
      BY <1>1, <2>4, <3>1 DEF Ahead, IsJobList
    <3>. QED BY <3>2, <3>3 DEF NotAgain
  <2>8. GoodStore(store, Running)'
    BY <2>2, <2>6, <2>7 DEF GoodStore, SameTrust
  <2>9. Trusted' => LineFree(store'.lines, Taken')
    BY <2>2, <2>3, <2>6 DEF LineFree, Taken
  <2>10. /\ \A k \in Unborn' : begun'[k] = 0
         /\ \A k \in DOMAIN timer'.due : k \in Job /\ timer'.due[k] \in Nat /\ timer'.due[k] <= now
    BY <1>1, <2>2, <2>3, <2>4 DEF SInv, Unborn
  <2>. QED BY <1>1, <2>2, <2>4, <2>5, <2>8, <2>9, <2>10 DEF SInv, SameTrust
<1>. QED BY <1>2, <1>3

(* What the timer may load is ahead, and what is due in it is somebody's.   *)
LEMMA TimerLoads ==
    ASSUME ConstantsOK, CInv, SInv, phase = "up", timer.pc = "asleep", ~store.dirty,
           NEW l \in Load(store, TRUE, manual # NoJob)
    PROVE  /\ l.st.loaded /\ GoodStore(l.st, {}) /\ Running = {}
           /\ Trusted => LineFree(l.st.lines, DOMAIN l.st.jobs \cup DOMAIN timer.due)
           /\ Trusted => Ahead(l.st.jobs, begun, {})
           /\ DOMAIN l.st.jobs \subseteq Job \ Unborn
<1>1. Running = {}
  BY DEF Running
<1>2. (manual # NoJob) \in BOOLEAN /\ (manual # NoJob => Executing)
  BY DEF Executing
<1>3. /\ IsStore(l.st) /\ l.st.loaded /\ GoodStore(l.st, Running)
      /\ Trusted => LineFree(l.st.lines, DOMAIN l.st.jobs \cup DOMAIN timer.due)
  BY <1>1, <1>2, UpLoads
<1>4. Trusted => Ahead(l.st.jobs, begun, {})
  BY <1>1, <1>3 DEF GoodStore, NotAgain
<1>5. KeepsOut(l.st, Outcast)
  <2>1. IsStore(store) /\ KeepsOut(store, Outcast)
    BY DEF CInv
  <2>. QED BY <2>1, LoadSettles
<1>6. DOMAIN l.st.jobs \subseteq Job \ Unborn
  BY <1>3, <1>5 DEF KeepsOut, Outcast, IsStore, IsList
<1>. QED BY <1>1, <1>3, <1>4, <1>6

(* The slots that are due (_on_timer).                                      *)
LEMMA DueReads ==
    ASSUME NEW jobs, IsJobList(jobs), now \in Nat
    PROVE  /\ DOMAIN DueSlots(jobs) \subseteq DOMAIN jobs
           /\ \A j \in DOMAIN DueSlots(jobs) :
                 /\ DueSlots(jobs)[j] = jobs[j].next /\ jobs[j].next # 0
                 /\ DueSlots(jobs)[j] \in Nat /\ DueSlots(jobs)[j] <= now
BY DEF DueSlots, IsJobList, JobRecord

(* A tick of the timer begins, or its run of a job ends (_on_timer,         *)
(* _execute_job).                                                           *)
LEMMA TimerSlots ==
    ASSUME ConstantsOK, CInv, SInv,
           TimerFires \/ \E o \in Outcomes : TimerJobEnds(o)
    PROVE  SInv'
<1>0. now \in Nat
  BY DEF SInv
<1>1. CASE TimerFires
  <2>1. phase = "up" /\ timer.pc = "asleep" /\ UNCHANGED <<phase, now, born>>
    BY <1>1 DEF TimerFires
  <2>2. CASE store.dirty
    <3>1. RunDue(store, NoJobs) /\ DOMAIN NoJobs = {} /\ Running = {} /\ store.loaded
      BY <1>1, <2>1, <2>2 DEF TimerFires, NoJobs, Running, CInv
    <3>2. /\ GoodStore(store, {}) /\ (Trusted => Ahead(store.jobs, begun, {}))
          /\ Trusted => LineFree(store.lines, DOMAIN store.jobs \cup {})
      BY <2>1, <2>2, <3>1 DEF SInv, GoodStore, NotAgain, Unmerged, Taken, LineFree
    <3>. QED BY <2>1, <3>1, <3>2, RunDueSlots
  <2>3. CASE ~store.dirty
    <3>1. PICK l \in Load(store, TRUE, manual # NoJob) :
             \/ RunDue(l.st, DueSlots(l.st.jobs))
             \/ Becomes(l) /\ UNCHANGED <<timer, begun>>
      BY <1>1, <2>3 DEF TimerFires
    <3>2. /\ l.st.loaded /\ GoodStore(l.st, {}) /\ Running = {}
          /\ Trusted => LineFree(l.st.lines, DOMAIN l.st.jobs \cup DOMAIN timer.due)
          /\ Trusted => Ahead(l.st.jobs, begun, {})
          /\ DOMAIN l.st.jobs \subseteq Job \ Unborn
      BY <2>1, <2>3, TimerLoads
    <3>3. CASE RunDue(l.st, DueSlots(l.st.jobs))
      <4> DEFINE due == DueSlots(l.st.jobs)
      <4>1. /\ DOMAIN due \subseteq DOMAIN l.st.jobs
            /\ \A j \in DOMAIN due : due[j] \in Nat /\ due[j] <= now
        BY <1>0, <3>2, DueReads DEF GoodStore, Listed
      <4> HIDE DEF due
      <4>2. Trusted => LineFree(l.st.lines, DOMAIN l.st.jobs \cup DOMAIN due)
        BY <3>2, <4>1 DEF LineFree
      <4>3. RunDue(l.st, due) /\ DOMAIN due \subseteq Job \ Unborn
        BY <3>2, <3>3, <4>1 DEF due
      <4>. QED BY <2>1, <3>2, <4>1, <4>2, <4>3, RunDueSlots
    <3>4. CASE Becomes(l) /\ UNCHANGED <<timer, begun>>
      <4>1. /\ store' = l.st /\ SameTrust /\ Running' = {} /\ Unborn' = Unborn
        BY <2>1, <3>2, <3>4, BecomesCounts, ArmedRuns DEF Becomes, Unborn
      <4>. QED BY <2>1, <3>2, <3>4, <4>1, UpSlots
    <3>. QED BY <3>1, <3>3, <3>4
  <2>. QED BY <2>2, <2>3
<1>2. ASSUME NEW o, TimerJobEnds(o)
      PROVE  SInv'
  <2>1. /\ phase = "up" /\ timer.pc = "executing" /\ UNCHANGED <<phase, now, born>>
    BY <1>2 DEF TimerJobEnds, CInv
  <2>2. PICK jobs \in After(store.jobs, timer.job, o) :
           RunDue([store EXCEPT !.jobs = jobs], timer.due)
    BY <1>2 DEF TimerJobEnds
  <2>3. /\ IsStore(store) /\ store.loaded /\ GoodStore(store, {timer.job})
        /\ DOMAIN timer.due \cap Outcast = {}
        /\ Trusted => LineFree(store.lines, Taken)
    BY <2>1 DEF CInv, SInv, Running, Unmerged
  <2>4. IsJobList(store.jobs) /\ IsList(store.jobs)
    BY <2>3 DEF GoodStore, Listed, IsStore
  <2>5. /\ EditOf(store.jobs, jobs) /\ DOMAIN jobs \subseteq DOMAIN store.jobs
        /\ timer.job \in DOMAIN jobs =>
              \A slot \in 0..now : IsAhead(jobs[timer.job], slot)
    BY <1>0, <2>4, RunIsAnEdit
  <2>6. Trusted => Ahead(jobs, begun, {})
    <3> SUFFICES ASSUME Trusted, NEW j \in DOMAIN jobs
                 PROVE  IsAhead(jobs[j], begun[j])
      BY DEF Ahead
    <3>1. Ahead(jobs, begun, {timer.job})
      BY <1>0, <2>3, <2>5, EditStaysAhead DEF SInv, GoodStore, NotAgain
    <3>2. j \in Job /\ begun[j] \in 0..now
      BY <2>5 DEF EditOf, IsJobList, SInv
    <3>. QED BY <2>5, <3>1, <3>2 DEF Ahead
  <2> DEFINE e == [store EXCEPT !.jobs = jobs]
  <2>7. SameBut(store, e) /\ e.jobs = jobs /\ IsStore(e)
    <3>1. IsList(jobs)
      BY <2>5 DEF EditOf
    <3>2. SameBut(store, e) /\ e.jobs = jobs
      BY <2>3, <3>1, EditReads
    <3>3. IsStore(e)
      BY <2>3, <3>1, EditedStore
    <3>. QED BY <3>2, <3>3
  <2>8. RunDue(e, timer.due)
    BY <2>2
  <2> HIDE DEF e
  <2>9. GoodStore(e, {timer.job})
    <3>1. Listed(e)
      BY <2>3, <2>5, <2>7 DEF Listed, GoodStore, EditOf, SameBut
    <3>2. Trusted => NotAgain(e, begun, {timer.job})
      BY <2>3, <2>6, <2>7 DEF NotAgain, GoodStore, SameBut, Ahead
    <3>. QED BY <2>3, <2>7, <3>1, <3>2 DEF GoodStore, SameBut
  <2>10. /\ Trusted => LineFree(e.lines, DOMAIN e.jobs \cup DOMAIN timer.due)
         /\ Trusted => Ahead(e.jobs, begun, {})
         /\ e.loaded
    BY <2>3, <2>5, <2>6, <2>7 DEF LineFree, Taken, SameBut
  <2>11. /\ DOMAIN timer.due \subseteq Job \ Unborn
         /\ \A j \in DOMAIN timer.due : timer.due[j] \in Nat /\ timer.due[j] <= now
    BY <2>3 DEF Outcast, SInv
  <2>. QED BY <2>1, <2>8, <2>9, <2>10, <2>11, RunDueSlots
<1>. QED BY <1>1, <1>2

(* A poll, and time.                                                        *)
LEMMA PollSlots == ASSUME CInv, SInv, Poll \/ Tick PROVE SInv'
<1>1. CASE Poll
  <2>1. PICK l \in Loads : Becomes(l)
    BY <1>1 DEF Poll
  <2>2. /\ phase = "up" /\ UNCHANGED <<phase, timer, now, born, begun>>
        /\ store' = l.st /\ SameTrust /\ Unborn' = Unborn
    BY <1>1, <2>1, BecomesCounts DEF Poll, history, Becomes, Unborn
  <2>3. /\ l \in Load(store, TRUE, Executing) /\ Executing \in BOOLEAN
        /\ Running # {} => Executing
    BY <2>2 DEF Loads, Running, Executing
  <2>4. /\ GoodStore(l.st, Running)
        /\ Trusted => LineFree(l.st.lines, DOMAIN l.st.jobs \cup DOMAIN timer.due)
    BY <2>2, <2>3, UpLoads
  <2>5. Running' = Running
    BY <2>2 DEF Running
  <2>. QED BY <2>2, <2>4, <2>5, UpSlots
<1>2. CASE Tick
  <2>1. /\ now' = now + 1 /\ UNCHANGED <<phase, store, timer, manual, count, born, begun>>
        /\ now \in Nat
    BY <1>2 DEF Tick, history, SInv
  <2>2. /\ Running' = Running /\ Unborn' = Unborn /\ Trusted' = Trusted
        /\ Unmerged' = Unmerged /\ Taken' = Taken
    BY <2>1 DEF Running, Unborn, Trusted, Unmerged, Taken
  <2>3. GoodStore(store, Running)'
    BY <2>1, <2>2 DEF SInv, GoodStore
  <2>. QED BY <2>1, <2>2, <2>3 DEF SInv
<1>. QED BY <1>1, <1>2

(* jobs.json becomes unreadable, and is moved away.                         *)
LEMMA CorruptionSlots == ASSUME CInv, SInv, Corrupt \/ MeetsCorruption PROVE SInv'
<1>1. /\ UNCHANGED <<phase, timer, manual, now, born, begun>>
      /\ Running' = Running /\ Unborn' = Unborn
  BY DEF Corrupt, MeetsCorruption, history, Running, Unborn
<1>2. IsStore(store) /\ Listed(store) /\ GoodStore(store, Running)
  BY DEF SInv, GoodStore
<1>3. CASE Corrupt
  <2>1. /\ store' = [store EXCEPT !.file = "corrupt", !.disk = NoJobs]
        /\ count' = [count EXCEPT !.corruptions = count.corruptions + 1]
    BY <1>3 DEF Corrupt
  <2>2. /\ store' = [f \in Fields |-> store'[f]]
        /\ store'.loaded = store.loaded /\ store'.jobs = store.jobs
        /\ store'.dirty = store.dirty /\ store'.file = "corrupt"
        /\ store'.disk = NoJobs /\ store'.lines = store.lines
    BY <1>2, <2>1 DEF IsStore, Fields
  <2>3. /\ count' = [f \in Counted |-> count'[f]] /\ count.corruptions \in Nat
        /\ count'.corruptions = count.corruptions + 1
        /\ count'.verdicts = count.verdicts
    BY <2>1 DEF SInv, Counted
  <2>4. Trusted' => Trusted /\ count.corruptions = 0
    BY <2>3 DEF Trusted
  <2>5. IsList(NoJobs) /\ IsJobList(NoJobs) /\ DOMAIN NoJobs = {}
    BY DEF IsList, IsJobList, NoJobs
  <2>6. IsStore(store') /\ Listed(store')
    BY <1>2, <2>2, <2>5 DEF IsStore, Listed
  <2>7. Trusted' => NotAgain(store', begun, Running)
    BY <1>2, <2>2, <2>4, <2>5 DEF GoodStore, NotAgain, Ahead
  <2>8. GoodStore(store, Running)'
    BY <1>1, <2>2, <2>3, <2>6, <2>7 DEF GoodStore
  <2>9. Trusted' /\ phase = "up" => LineFree(store'.lines, Taken')
    BY <1>1, <2>2, <2>4 DEF SInv, Unmerged, Taken
  <2>. QED BY <1>1, <2>2, <2>3, <2>8, <2>9 DEF SInv
<1>4. CASE MeetsCorruption
  <2>1. /\ store' = [store EXCEPT !.file = "missing"]
        /\ store.file = "corrupt" /\ UNCHANGED count
    BY <1>4 DEF MeetsCorruption
  <2>2. /\ store' = [f \in Fields |-> store'[f]]
        /\ store'.loaded = store.loaded /\ store'.jobs = store.jobs
        /\ store'.dirty = store.dirty /\ store'.file = "missing"
        /\ store'.disk = store.disk /\ store'.lines = store.lines
    BY <1>2, <2>1 DEF IsStore, Fields
  <2>3. IsStore(store') /\ Listed(store') /\ store'.disk = NoJobs
    BY <1>2, <2>1, <2>2 DEF IsStore, Listed, GoodStore
  <2>4. Trusted => NotAgain(store', begun, Running)
    BY <1>2, <2>2 DEF GoodStore, NotAgain
  <2>5. GoodStore(store', Running) /\ SameTrust
    BY <2>1, <2>2, <2>3, <2>4, BecomesCounts DEF GoodStore
  <2>6. Trusted /\ phase = "up" => LineFree(store'.lines, Taken')
    BY <1>1, <2>1, <2>2 DEF SInv, Unmerged, Taken
  <2>7. /\ \A j \in DOMAIN timer'.due : /\ j \in Job /\ timer'.due[j] \in Nat
                                        /\ timer'.due[j] <= now
        /\ phase' # "up" => ~store'.dirty
    BY <1>1, <2>2 DEF SInv
  <2>. QED BY <1>1, <2>5, <2>6, <2>7, SameSlots
<1>. QED BY <1>3, <1>4

(* A line of the second process: it creates a job that never ran, removes   *)
(* one, or is a verdict.                                                    *)
LEMMA LineSlots ==
    ASSUME CInv, SInv, NEW action, NEW j \in Job, NEW job, AppendAction(action, j, job),
           action = "del" \/ job \in JobRecord,
           count' = [f \in Counted |-> count'[f]],
           count'.corruptions = count.corruptions,
           Trusted' => Trusted /\ (action = "del" \/ j \in Unborn),
           Unborn' \subseteq Unborn
    PROVE  SInv'
<1> DEFINE line == [action |-> action, id |-> j, job |-> job]
           longer == Append(store.lines, line)
<1>1. /\ store' = [store EXCEPT !.lines = longer]
      /\ UNCHANGED <<phase, timer, manual, now, begun>> /\ Running' = Running
  BY DEF AppendAction, Running
<1>2. /\ IsStore(store) /\ IsLog(store.lines) /\ Listed(store)
      /\ GoodStore(store, Running)
  BY DEF SInv, GoodStore, IsStore
<1>3. line.action = action /\ line.id = j /\ line.job = job
  OBVIOUS
<1> HIDE DEF line
<1>4. \A i \in DOMAIN longer :
         longer[i] = line \/ \E k \in DOMAIN store.lines : longer[i] = store.lines[k]
  BY <1>2, AppendedLine
<1>5. IsLog(longer)
  <2>1. /\ Unnamed(store.lines, {}) /\ line.id \notin {}
    BY DEF Unnamed
  <2>. QED BY <1>2, <2>1, LongerLog
<1>6. /\ store' = [f \in Fields |-> store'[f]]
      /\ store'.loaded = store.loaded /\ store'.jobs = store.jobs
      /\ store'.dirty = store.dirty /\ store'.file = store.file
      /\ store'.disk = store.disk /\ store'.lines = longer
  <2> HIDE DEF longer
  <2>. QED BY <1>1, <1>2 DEF IsStore, Fields
<1> HIDE DEF longer
<1>7. IsStore(store') /\ Listed(store')
  <2>1. IsStore(store')
    BY <1>2, <1>5, <1>6 DEF IsStore
  <2>2. Listed(store')
    BY <1>2, <1>3, <1>4, <1>6 DEF Listed
  <2>. QED BY <2>1, <2>2
<1>8. \A k \in Unborn : begun[k] = 0 /\ k \notin Taken
  BY DEF SInv, CInv, KeepsOut, Outcast, Taken
<1>9. ASSUME Trusted'
      PROVE  NotAgain(store', begun, Running)
  <2>1. NotAgain(store, begun, Running)
    BY <1>2, <1>9 DEF GoodStore
  <2>2. \A i \in DOMAIN longer : longer[i].action # "del" => begun[longer[i].id] = 0
    BY <1>3, <1>4, <1>8, <1>9, <2>1 DEF NotAgain
  <2>. QED BY <1>6, <2>1, <2>2 DEF NotAgain
<1>10. GoodStore(store, Running)'
  BY <1>1, <1>2, <1>6, <1>7, <1>9 DEF GoodStore
<1>11. ASSUME Trusted', phase = "up"
       PROVE  Unmerged' \/ LineFree(store'.lines, Taken')
  <2>1. Taken' = Taken
    BY <1>1, <1>6 DEF Taken
  <2>2. CASE Unmerged
    BY <1>1, <1>6, <2>2 DEF Unmerged
  <2>3. CASE LineFree(store.lines, Taken)
    BY <1>3, <1>4, <1>6, <1>8, <1>11, <2>1, <2>3 DEF LineFree
  <2>. QED BY <1>11, <2>2, <2>3 DEF SInv
<1>. QED BY <1>1, <1>6, <1>10, <1>11 DEF SInv

(* The second process, whatever it appends.                                 *)
LEMMA AgentSlots ==
    ASSUME ConstantsOK, CInv, SInv, NEW j \in Job,
           \/ \E s \in Schedules : AgentAdds(j, s)
           \/ AgentRemoves(j)
           \/ \E b \in BOOLEAN : AgentJudges(j, b)
    PROVE  SInv'
<1>0. now \in Nat /\ IsStore(store) /\ Listed(store)
  BY DEF SInv, GoodStore
<1>1. ASSUME NEW s \in Schedules, AgentAdds(j, s)
      PROVE  SInv'
  <2>1. /\ AppendAction("add", j, NewJob(s)) /\ j \in Unborn /\ Unborn' \subseteq Unborn
        /\ UNCHANGED count /\ s \in Schedule
    BY <1>1 DEF AgentAdds, Unborn, CInv, ConstantsOK
  <2>2. NewJob(s) \in JobRecord
    BY <1>0, <2>1, NewJobBegins DEF Begins
  <2>3. SameTrust /\ Trusted' = Trusted
    BY <2>1, BecomesCounts DEF SameTrust, Trusted
  <2>. QED BY <2>1, <2>2, <2>3, LineSlots DEF SameTrust
<1>2. CASE AgentRemoves(j)
  <2>1. AppendAction("del", j, NoJob) /\ Unborn' = Unborn /\ UNCHANGED count
    BY <1>2 DEF AgentRemoves, Unborn
  <2>2. SameTrust /\ Trusted' = Trusted
    BY <2>1, BecomesCounts DEF SameTrust, Trusted
  <2>. QED BY <2>1, <2>2, LineSlots DEF SameTrust
<1>3. ASSUME NEW b \in BOOLEAN, AgentJudges(j, b)
      PROVE  SInv'
  <2>1. /\ AppendAction("update", j, Judged(Seen[j], b)) /\ Unborn' = Unborn
        /\ count' = [count EXCEPT !.verdicts = 1] /\ j \in DOMAIN Seen
    BY <1>3 DEF AgentJudges, Unborn
  <2>2. Judged(Seen[j], b) \in JobRecord
    <3>1. IsJobList(Seen)
      <4>1. IsJobList(store.disk) /\ IsLog(store.lines)
        BY <1>0 DEF Listed, IsStore
      <4>2. \A i \in DOMAIN store.lines :
               /\ store.lines[i].id \in Job
               /\ store.lines[i].action # "del" => store.lines[i].job \in JobRecord
        BY <1>0 DEF Listed
      <4>. QED BY <4>1, <4>2, MergeIsSound DEF Seen
    <3>2. Seen[j] \in JobRecord
      BY <2>1, <3>1 DEF IsJobList
    <3>. QED BY <1>0, <3>2, JobsFollow DEF Follows
  <2>3. /\ count' = [f \in Counted |-> count'[f]] /\ count'.verdicts = 1
        /\ count'.corruptions = count.corruptions
    BY <2>1 DEF SInv, Counted
  <2>4. ~Trusted'
    BY <2>3 DEF Trusted
  <2>. QED BY <2>1, <2>2, <2>3, <2>4, LineSlots
<1>. QED BY <1>1, <1>2, <1>3

(* A machine without a job file.                                            *)
LEMMA SInitially == ASSUME ConstantsOK, Init PROVE SInv
<1>1. /\ store = NewStore /\ phase = "down" /\ timer = Off /\ now = 1
      /\ count = [failures |-> 0, crashes |-> 0, corruptions |-> 0, verdicts |-> 0]
      /\ begun = [j \in Job |-> 0]
  BY DEF Init
<1>2. IsStore(store)
  BY CInitially DEF CInv
<1>3. /\ store.jobs = NoJobs /\ store.disk = NoJobs /\ store.lines = <<>>
      /\ store.file = "missing" /\ store.dirty = FALSE
      /\ DOMAIN timer.due = {} /\ Running = {}
  BY <1>1 DEF NewStore, Off, Running, NoJobs
<1>4. IsJobList(NoJobs) /\ DOMAIN NoJobs = {} /\ DOMAIN store.lines = {}
  BY <1>3 DEF IsJobList, NoJobs
<1>5. GoodStore(store, {})
  BY <1>2, <1>3, <1>4 DEF GoodStore, Listed, NotAgain, Ahead
<1>6. count = [f \in Counted |-> count[f]] /\ count.corruptions = 0
  BY <1>1 DEF Counted
<1>. QED BY <1>1, <1>3, <1>5, <1>6 DEF SInv, Unborn

(* Every step.                                                              *)
LEMMA SPreserved == ASSUME ConstantsOK, CInv, KInv, SInv, [Next]_vars PROVE SInv'
<1>1. CASE Next
  BY <1>1, BootSlots, StartSlots, RegisterSlots, TimerSlots, PollSlots,
     ManualSlots, EditsSlots, AddSlots, CorruptionSlots, AgentSlots DEF Next
<1>2. CASE UNCHANGED vars
  <2>1. /\ UNCHANGED <<phase, store, timer, manual, now, count, born, begun>>
    BY <1>2 DEF vars, history
  <2>2. /\ Running' = Running /\ Unborn' = Unborn /\ Trusted' = Trusted
        /\ Unmerged' = Unmerged /\ Taken' = Taken
    BY <2>1 DEF Running, Unborn, Trusted, Unmerged, Taken
  <2>3. GoodStore(store, Running)'
    BY <2>1, <2>2 DEF SInv, GoodStore
  <2>. QED BY <2>1, <2>2, <2>3 DEF SInv
<1>. QED BY <1>1, <1>2

(* What the timer loads takes up a slot again only for a retry that was     *)
(* pending before: a list that was read is the list in memory, and a line   *)
(* is about a job that never ran (_on_timer, _load_store).                  *)
LEMMA TimerTakesNew ==
    ASSUME ConstantsOK, CInv, SInv, Trusted, phase = "up", timer.pc = "asleep",
           ~store.dirty, NEW l \in Load(store, TRUE, manual # NoJob),
           NEW j \in DOMAIN DueSlots(l.st.jobs)
    PROVE  /\ j \in Job
           /\ \/ DueSlots(l.st.jobs)[j] > begun[j]
              \/ j \in DOMAIN store.jobs /\ store.jobs[j].pending
<1>1. GoodStore(l.st, {}) /\ Ahead(l.st.jobs, begun, {})
  BY TimerLoads
<1>2. /\ IsStore(store) /\ store.loaded /\ GoodStore(store, {}) /\ now \in Nat
      /\ store.file = "good" => store.disk = store.jobs
  <2>1. Running = {}
    BY DEF Running
  <2>. QED BY <2>1 DEF CInv, SInv, Settled
<1>3. /\ j \in DOMAIN l.st.jobs /\ DueSlots(l.st.jobs)[j] = l.st.jobs[j].next
      /\ l.st.jobs[j].next # 0 /\ l.st.jobs[j].next \in Nat
  BY <1>1, <1>2, DueReads DEF GoodStore, Listed
<1>4. j \in Job
  BY <1>1, <1>3 DEF GoodStore, IsStore, IsList
<1>5. CASE l.st.jobs = store.jobs
  BY <1>1, <1>3, <1>4, <1>5 DEF Ahead, IsAhead
<1>6. CASE l.st.jobs = Merge(store.disk, store.lines)
  <2>1. /\ Survives(store.disk, store.lines, j)
        /\ l.st.jobs[j] = IF About(store.lines, j) = {} THEN store.disk[j]
                          ELSE LastLine(store.lines, j).job
    <3> DEFINE m == Merge(store.disk, store.lines)
    <3>1. /\ DOMAIN m = {k \in Job : Survives(store.disk, store.lines, k)}
          /\ \A k \in DOMAIN m : m[k] = IF About(store.lines, k) = {} THEN store.disk[k]
                                        ELSE LastLine(store.lines, k).job
      BY MergeReads
    <3> HIDE DEF m
    <3>2. j \in DOMAIN m /\ l.st.jobs = m
      BY <1>3, <1>6 DEF m
    <3>. QED BY <3>1, <3>2
  <2>2. CASE About(store.lines, j) = {}
    <3>1. j \in DOMAIN store.disk /\ l.st.jobs[j] = store.disk[j]
      BY <2>1, <2>2 DEF Survives
    <3>2. store.file = "good"
      BY <1>2, <3>1 DEF GoodStore, NoJobs
    <3>3. j \in DOMAIN store.jobs /\ l.st.jobs[j] = store.jobs[j]
      BY <1>2, <3>1, <3>2
    <3>. QED BY <1>1, <1>3, <1>4, <3>3 DEF Ahead, IsAhead
  <2>3. CASE About(store.lines, j) # {}
    <3>1. PICK i \in DOMAIN store.lines :
             store.lines[i].id = j /\ LastLine(store.lines, j) = store.lines[i]
      BY <1>2, <2>3, LastIsALine DEF IsStore
    <3>2. store.lines[i].action # "del"
      BY <2>1, <2>3, <3>1 DEF Survives
    <3>3. begun[j] = 0
      BY <1>2, <3>1, <3>2 DEF GoodStore, NotAgain
    <3>. QED BY <1>3, <1>4, <3>3
  <2>. QED BY <2>2, <2>3
<1>7. LoadKept(store, l) \/ LoadMet(store, l) \/ LoadMerged(store, l)
  <2> DEFINE busy == manual # NoJob
  <2>1. l \in Load(store, TRUE, busy)
    OBVIOUS
  <2> HIDE DEF busy
  <2>. QED BY <1>2, <2>1, LoadReads
<1>. QED BY <1>5, <1>6, <1>7 DEF LoadKept, LoadMet, LoadMerged

(* Nobody but a firing timer begins a run of it: a mutator arms it, and     *)
(* leaves it alone while it is executing (_arm_timer).                      *)
LEMMA OnlyTheTimerTakesUp ==
    ASSUME CInv, [Next]_vars, timer.pc = "asleep", timer'.pc = "executing"
    PROVE  TimerFires
<1>1. timer' \notin {timer, Armed, Asleep, Off}
  BY DEF Armed, Asleep, Off
<1>2. \A j, s : ~Register(j, s)
  BY <1>1 DEF Register, Ends
<1>3. ~Boot /\ ~Start /\ ~Crash /\ ~Poll /\ ~Tick /\ ~Corrupt /\ ~MeetsCorruption
  BY <1>1 DEF Boot, Start, Crash, Poll, Tick, Corrupt, MeetsCorruption, Ends
<1>4. \A o : ~TimerJobEnds(o) /\ ~ManualRunEnds(o)
  BY <1>1 DEF TimerJobEnds, ManualRunEnds
<1>5. \A j : ~ManualRun(j) /\ ~Remove(j) /\ ~AgentRemoves(j)
  BY <1>1 DEF ManualRun, Remove, Change, AgentRemoves, AppendAction
<1>6. \A j, s : ~Add(j, s) /\ ~Update(j, s) /\ ~AgentAdds(j, s)
  BY <1>1 DEF Add, Update, Change, AgentAdds, AppendAction
<1>7. \A j, b : ~Enable(j, b) /\ ~SetCommissioning(j, b) /\ ~AgentJudges(j, b)
  BY <1>1 DEF Enable, SetCommissioning, Change, AgentJudges, AppendAction
<1>8. ~UNCHANGED vars
  BY <1>1 DEF vars
<1>. QED BY <1>2, <1>3, <1>4, <1>5, <1>6, <1>7, <1>8 DEF Next

(* A slot that ran is not taken up again unless a retry is pending,         *)
(* whatever saves and loads fail, whoever edits or runs a job meanwhile,    *)
(* and however often the process dies (_on_timer, _load_store, _save_store, *)
(* _merge_action).                                                          *)
THEOREM SlotsRunOnce == Spec => SlotRunsOnce
<1>1. ASSUME CInv, SInv, [Next]_vars, NEW j \in Job, TakesUp(j), Trusted
      PROVE  SlotOf(j) > begun[j] \/ (j \in DOMAIN store.jobs /\ store.jobs[j].pending)
  <2>1. /\ timer.pc = "asleep" /\ timer'.pc = "executing" /\ TimerFires
        /\ j \in {timer'.job} \cup DOMAIN timer'.due
    BY <1>1, OnlyTheTimerTakesUp DEF TakesUp
  <2>2. phase = "up" /\ timer' # Asleep /\ timer' # timer /\ begun \in [Job -> Nat]
    BY <1>1, <2>1 DEF TimerFires, Asleep, SInv
  <2>3. ~store.dirty
    BY <2>1, <2>2 DEF TimerFires, RunDue, NoJobs
  <2>4. PICK l \in Load(store, TRUE, manual # NoJob) :
           RunDue(l.st, DueSlots(l.st.jobs))
    BY <2>1, <2>2, <2>3 DEF TimerFires
  <2> DEFINE due == DueSlots(l.st.jobs)
  <2>5. \A k \in DOMAIN due : k \in Job /\ (due[k] > begun[k]
                              \/ (k \in DOMAIN store.jobs /\ store.jobs[k].pending))
    BY <1>1, <2>1, <2>2, <2>3, ConstantsOK, TimerTakesNew
  <2> HIDE DEF due
  <2>6. PICK first \in DOMAIN due :
           /\ timer' = [pc |-> "executing", job |-> first, due |-> Without(due, {first})]
           /\ begun' = [begun EXCEPT ![first] = due[first]]
    BY <2>2, <2>4 DEF RunDue, due
  <2>7. /\ timer'.job = first /\ DOMAIN timer'.due = DOMAIN due \ {first}
        /\ \A k \in DOMAIN timer'.due : timer'.due[k] = due[k]
    BY <2>6 DEF Without
  <2>8. begun'[first] = due[first]
    BY <2>2, <2>5, <2>6
  <2>. QED BY <2>1, <2>5, <2>7, <2>8 DEF SlotOf
<1>2. CInv /\ SInv /\ [Next]_vars
      => [\A j \in Job :
            TakesUp(j) /\ count.verdicts = 0 /\ count.corruptions < 2
            => \/ SlotOf(j) > begun[j]
               \/ j \in DOMAIN store.jobs /\ store.jobs[j].pending]_vars
  BY <1>1 DEF Trusted
<1>3. Init => KInv /\ SInv
  <2> SUFFICES ASSUME Init PROVE KInv /\ SInv
    OBVIOUS
  <2>1. /\ acked = {} /\ DOMAIN store.lines = {}
    BY DEF Init, NewStore
  <2>. QED BY <2>1, ConstantsOK, SInitially DEF KInv, KeepsIn
<1>4. CInv /\ KInv /\ SInv /\ [Next]_vars => KInv' /\ SInv'
  BY ConstantsOK, KPreserved, SPreserved
<1>. QED BY <1>2, <1>3, <1>4, StoreIsOwned, PTL DEF Spec, SlotRunsOnce

=============================================================================
