----------------------- MODULE CloudRunDeploymentProofs -----------------------
(***************************************************************************)
(* Proofs about CloudRunDeployment, for any services, jobs, inventories,   *)
(* commits, refs and numbers of runs.                                      *)
(*                                                                         *)
(* SuccessMeansDeployed speaks of a run that is done; nothing of it is     *)
(* kept by itself.  The invariant says, for each stage and each service    *)
(* the stage has done, what the run has brought about so far (Achieved):   *)
(* the image, then the environment, then the traffic, pinned to such a     *)
(* revision or following the latest one, then the jobs; each later stage   *)
(* has to leave the earlier ones' work alone.  Alone keeps the other refs' runs   *)
(* out of it, and Shifting keeps the traffic on a revision there is.       *)
(***************************************************************************)
EXTENDS CloudRunDeployment, FiniteSetTheorems, TLAPS

-----------------------------------------------------------------------------
(* Among some subsets of a finite set one contains no other, and so a bounded set of  *)
(* numbers has a greatest one: the library's induction does not apply here.           *)

LEMMA SmallestSubset ==
  ASSUME NEW S, IsFiniteSet(S), NEW F \in (SUBSET SUBSET S) \ {{}}
  PROVE  \E A \in F : \A B \in F : B \subseteq A => B = A
<1>1. IsWellFoundedOn(StrictSubsetOrdering(S), SUBSET S)
  <2>1. FiniteSubsetsOf(S) = SUBSET S
    BY FS_FiniteSubsetsOfFinite
  <2> QED BY <2>1, FS_StrictSubsetOrderingWellFounded
<1>2. PICK A \in F : \A B \in F : ~ (<<B, A>> \in StrictSubsetOrdering(S))
  BY <1>1, WFMin
<1>3. \A B \in F : B \subseteq A => B = A
  BY <1>2 DEF StrictSubsetOrdering
<1> QED BY <1>3

LEMMA GreatestOfBounded ==
  ASSUME NEW n \in Nat, NEW D, D \subseteq 0 .. n, D # {}
  PROVE  \E d \in D : \A y \in D : y <= d
<1> DEFINE above(d) == {y \in 0 .. n : d <= y}
<1>1. PICK S, F : S = 0 .. n /\ F = {above(d) : d \in D}
  OBVIOUS
<1>2. IsFiniteSet(S) /\ F \in (SUBSET SUBSET S) \ {{}}
  <2>1. IsFiniteSet(0 .. n)
    BY FS_Interval
  <2>2. F \in SUBSET SUBSET S /\ F # {}
    BY <1>1
  <2> QED BY <1>1, <2>1, <2>2
<1>3. PICK A \in F : \A B \in F : B \subseteq A => B = A
  BY <1>2, SmallestSubset
<1>4. PICK d \in D : A = above(d)
  BY <1>1
<1>5. ASSUME NEW y \in D PROVE y <= d
  <2>1. d \in 0 .. n /\ y \in 0 .. n
    OBVIOUS
  <2>2. SUFFICES ASSUME d < y PROVE FALSE
    BY <2>1
  <2>3. above(y) \subseteq above(d)
    BY <2>1, <2>2
  <2>4. above(y) = above(d)
    BY <1>1, <1>3, <1>4, <2>3
  <2>5. d \in above(d) /\ d \notin above(y)
    BY <2>1, <2>2
  <2> QED BY <2>4, <2>5
<1> QED BY <1>5

-----------------------------------------------------------------------------
(* The inductive invariant. *)

\* The stages after the image, the environment, the traffic, the jobs.
PastImage == {"wait", "env", "traffic", "shift", "mounts", "jobs", "settle", "retire",
              "relics", "done"}
PastEnv == PastImage \ {"wait", "env"}
PastTraffic == PastEnv \ {"traffic", "shift"}
PastJobs == {"retire", "relics", "done"}

\* The run has done the service in these stages, or is past them.
Through(r, s, stages, later) ==
  run[r].stage \in later \/ (run[r].stage \in stages /\ s \notin run[r].todo)

\* A revision of the service is the one the run is to bring about.
Right(r, s, n) ==
  /\ n \in 1 .. Len(revisions[s])
  /\ revisions[s][n].env = run[r].plan[s] /\ revisions[s][n].commit = run[r].commit

\* The traffic of the service follows its latest revision or is pinned to such a one.
Routed(r, s) == traffic[s] = 0 \/ Right(r, s, traffic[s])

Settled(r, s, j) == jobs[s][j] = IF Standard(run[r].plan[s]) THEN "enabled" ELSE "paused"

\* What a run no other run has met has brought about by its stage.
Achieved(r) ==
  /\ \A s \in CloudService :
       /\ Through(r, s, {"image"}, PastImage) =>
            Newest(s).commit = run[r].commit /\ Newest(s).ready
       /\ Through(r, s, {"env"}, PastEnv) => Newest(s).env = run[r].plan[s]
       /\ Through(r, s, {"traffic", "shift"}, PastTraffic) => Routed(r, s)
       /\ Through(r, s, {"jobs", "settle"}, PastJobs) => \A j \in Job : Settled(r, s, j)
  /\ run[r].stage = "shift" => Right(r, First(r), run[r].at)
  /\ run[r].stage = "settle" => \A j \in Job \ run[r].left : Settled(r, First(r), j)

\* The traffic is about to go to a revision there is.
Shifting ==
  \A r \in Ref : run[r].stage = "shift" =>
    run[r].todo # {} /\ run[r].at \in 1 .. Len(revisions[First(r)])

\* The run that began last is the only one in progress if it has met no other.
Alone == \A r \in Ref : Active(r) /\ (\A o \in latest : run[o].single) => r \in latest

DeploymentInv ==
  /\ DeploymentTypeOK /\ Shifting /\ Alone
  /\ \A r \in latest : Undisturbed(r) => Achieved(r)

-----------------------------------------------------------------------------

LEMMA LastIsLast ==
  ASSUME NEW n \in Nat, NEW numbers, numbers \subseteq 1 .. n, numbers # {}
  PROVE  Last(numbers) \in numbers /\ \A m \in numbers : m <= Last(numbers)
<1>1. numbers \subseteq 0 .. n
  OBVIOUS
<1>2. \E d \in numbers : \A m \in numbers : m <= d
  BY <1>1, GreatestOfBounded
<1> QED BY <1>2 DEF Last

LEMMA FirstIsOne ==
  ASSUME NEW r \in Ref, run[r].todo # {}
  PROVE  First(r) \in run[r].todo
BY DEF First

\* A run that goes on keeps what it is to do, and no other run does anything.
GoesOn(r) ==
  /\ run' \in [Ref -> Run]
  /\ \A q \in Ref \ {r} : run'[q] = run[q]
  /\ run'[r].commit = run[r].commit /\ run'[r].plan = run[r].plan
  /\ run'[r].mode = run[r].mode /\ run'[r].single = run[r].single

\* s is done in this stage.
Ends(r, s, next) ==
  \/ run[r].todo = {s} /\ run'[r].todo = CloudService /\ run'[r].stage = next
  \/ run[r].todo # {s} /\ run'[r].todo = run[r].todo \ {s} /\ run'[r].stage = run[r].stage

LEMMA AdvanceEffect ==
  ASSUME run \in [Ref -> Run], NEW r \in Ref, NEW s \in CloudService, NEW next \in Stage,
         Advance(r, s, next)
  PROVE  /\ GoesOn(r) /\ Ends(r, s, next)
         /\ run'[r].at = run[r].at /\ run'[r].left = run[r].left
<1> DEFINE todo == IF run[r].todo = {s} THEN CloudService ELSE run[r].todo \ {s}
           stage == IF run[r].todo = {s} THEN next ELSE run[r].stage
           new == [run[r] EXCEPT !.todo = todo, !.stage = stage]
<1>1. run' = [run EXCEPT ![r] = new]
  BY DEF Advance
<1>2. run[r] \in Run /\ todo \in SUBSET CloudService /\ stage \in Stage
  BY DEF Run
<1>3. /\ new \in Run /\ new.todo = todo /\ new.stage = stage /\ new.at = run[r].at
      /\ new.left = run[r].left /\ new.commit = run[r].commit /\ new.plan = run[r].plan
      /\ new.mode = run[r].mode /\ new.single = run[r].single
  <2> HIDE DEF todo, stage
  <2> QED BY <1>2 DEF Run
<1>4. run'[r] = new /\ run' \in [Ref -> Run] /\ \A q \in Ref \ {r} : run'[q] = run[q]
  <2> HIDE DEF new
  <2> QED BY <1>1, <1>3
<1>5. GoesOn(r)
  <2> HIDE DEF new
  <2> QED BY <1>3, <1>4 DEF GoesOn
<1>6. Ends(r, s, next)
  <2> HIDE DEF new
  <2> QED BY <1>3, <1>4 DEF Ends
<1> QED BY <1>3, <1>4, <1>5, <1>6

LEMMA RunEffect ==
  ASSUME run \in [Ref -> Run], NEW r \in Ref, NEW new \in Run,
         new.commit = run[r].commit, new.plan = run[r].plan,
         new.mode = run[r].mode, new.single = run[r].single,
         run' = [run EXCEPT ![r] = new]
  PROVE  GoesOn(r) /\ run'[r] = new
BY DEF GoesOn

LEMMA FailEffect ==
  ASSUME run \in [Ref -> Run], NEW r \in Ref, Fails(r)
  PROVE  GoesOn(r) /\ run'[r].stage = "failed"
<1> DEFINE new == [run[r] EXCEPT !.stage = "failed", !.todo = {}, !.left = {},
                                 !.at = 0, !.there = FALSE]
<1>1. /\ new \in Run /\ new.commit = run[r].commit /\ new.plan = run[r].plan
      /\ new.mode = run[r].mode /\ new.single = run[r].single /\ new.stage = "failed"
  BY DEF Run, Stage
<1>2. run' = [run EXCEPT ![r] = new]
  BY DEF Fails
<1> HIDE DEF new
<1> QED BY <1>1, <1>2, RunEffect

\* Revisions are only added.
Grows ==
  /\ revisions' \in [CloudService -> Seq(Revision)]
  /\ \A s \in CloudService :
       /\ revisions'[s] # <<>> /\ Len(revisions[s]) \in Nat /\ Len(revisions'[s]) \in Nat
       /\ Len(revisions[s]) <= Len(revisions'[s])
       /\ \A n \in 1 .. Len(revisions[s]) : revisions'[s][n] = revisions[s][n]

LEMMA SameGrows ==
  ASSUME DeploymentTypeOK, revisions' = revisions
  PROVE  Grows
BY DEF Grows, DeploymentTypeOK

LEMMA NewestIsOne ==
  ASSUME DeploymentTypeOK, NEW s \in CloudService
  PROVE  /\ Newest(s) \in Revision /\ Len(revisions[s]) \in Nat \ {0}
         /\ Newest(s) = revisions[s][Len(revisions[s])]
BY DEF DeploymentTypeOK, Newest

LEMMA AppendEffect ==
  ASSUME DeploymentTypeOK, NEW s \in CloudService, NEW v \in Revision,
         revisions' = [revisions EXCEPT ![s] = Append(@, v)]
  PROVE  /\ Grows
         /\ Newest(s)' = v
         /\ \A o \in CloudService \ {s} : revisions'[o] = revisions[o]
<1>1. revisions \in [CloudService -> Seq(Revision)] /\ \A o \in CloudService : revisions[o] # <<>>
  BY DEF DeploymentTypeOK
<1>2. /\ revisions'[s] = Append(revisions[s], v)
      /\ \A o \in CloudService \ {s} : revisions'[o] = revisions[o]
  BY <1>1
<1>3. /\ Append(revisions[s], v) \in Seq(Revision) /\ Append(revisions[s], v) # <<>>
      /\ Len(Append(revisions[s], v)) = Len(revisions[s]) + 1
      /\ Append(revisions[s], v)[Len(revisions[s]) + 1] = v
      /\ \A n \in 1 .. Len(revisions[s]) : Append(revisions[s], v)[n] = revisions[s][n]
      /\ Len(revisions[s]) \in Nat
  BY <1>1
<1>4. revisions' \in [CloudService -> Seq(Revision)]
  BY <1>1, <1>3
<1>5. Grows
  <2>1. ASSUME NEW o \in CloudService
        PROVE  /\ revisions'[o] # <<>> /\ Len(revisions[o]) \in Nat /\ Len(revisions'[o]) \in Nat
               /\ Len(revisions[o]) <= Len(revisions'[o])
               /\ \A n \in 1 .. Len(revisions[o]) : revisions'[o][n] = revisions[o][n]
    <3>1. CASE o = s
      BY <1>2, <1>3, <3>1
    <3>2. CASE o # s
      BY <1>1, <1>2, <3>2
    <3> QED BY <3>1, <3>2
  <2> QED BY <1>4, <2>1 DEF Grows
<1>6. Newest(s)' = v
  BY <1>2, <1>3 DEF Newest
<1> QED BY <1>2, <1>5, <1>6

LEMMA ReviseEffect ==
  ASSUME DeploymentTypeOK, NEW r \in Ref, NEW s \in CloudService, NEW revision \in Revision,
         NEW next \in Stage, Revise(r, s, revision, next)
  PROVE  /\ UNCHANGED <<items, traffic, jobs, retired, started, revised, latest>>
         /\ GoesOn(r) /\ Grows
         /\ \A o \in CloudService \ {s} : revisions'[o] = revisions[o]
         /\ \/ /\ Newest(s)' = [revision EXCEPT !.ready = TRUE] /\ Ends(r, s, next)
               /\ run'[r].at = run[r].at /\ run'[r].left = run[r].left
            \/ run'[r].stage = "failed"
<1>1. PICK ready \in BOOLEAN :
        /\ revisions' = [revisions EXCEPT ![s] = Append(@, [revision EXCEPT !.ready = ready])]
        /\ IF ready THEN Advance(r, s, next) ELSE Fails(r)
  BY DEF Revise
<1>2. UNCHANGED <<items, traffic, jobs, retired, started, revised, latest>>
  BY DEF Revise
<1>3. [revision EXCEPT !.ready = ready] \in Revision
  BY DEF Revision
<1>4. /\ Grows /\ Newest(s)' = [revision EXCEPT !.ready = ready]
      /\ \A o \in CloudService \ {s} : revisions'[o] = revisions[o]
  BY <1>1, <1>3, AppendEffect
<1>5. run \in [Ref -> Run]
  BY DEF DeploymentTypeOK
<1>6. CASE ready = TRUE
  BY <1>1, <1>2, <1>4, <1>5, <1>6, AdvanceEffect
<1>7. CASE ready = FALSE
  BY <1>1, <1>2, <1>4, <1>5, <1>7, FailEffect
<1> QED BY <1>6, <1>7

-----------------------------------------------------------------------------
(* What each step adds to what the run has brought about. *)

LEMMA FailedAchieved ==
  ASSUME NEW r \in Ref, run'[r].stage = "failed"
  PROVE  Achieved(r)'
BY DEF Achieved, Through, PastImage, PastEnv, PastTraffic, PastJobs

LEMMA RightKept ==
  ASSUME DeploymentTypeOK, NEW r \in Ref, NEW s \in CloudService, NEW n,
         GoesOn(r), Grows, Right(r, s, n)
  PROVE  Right(r, s, n)'
<1>1. n \in 1 .. Len(revisions'[s]) /\ revisions'[s][n] = revisions[s][n]
  BY DEF Grows, Right
<1> QED BY <1>1 DEF Right, GoesOn

LEMMA AdmitAchieved ==
  ASSUME DeploymentTypeOK, NEW r \in Ref, NEW s \in CloudService, Admit(r, s), Achieved(r)
  PROVE  Achieved(r)'
<1>1. /\ GoesOn(r) /\ Ends(r, s, "image") /\ run[r].stage = "admit"
  BY AdvanceEffect DEF Admit, DeploymentTypeOK, Stage
<1>2. Achieved(r)'
  <2>1. run'[r].stage = "admit" \/ (run'[r].stage = "image" /\ run'[r].todo = CloudService)
    BY <1>1 DEF Ends
  <2> QED BY <2>1 DEF Achieved, Through, PastImage, PastEnv, PastTraffic, PastJobs
<1> QED BY <1>1, <1>2

LEMMA DeployImageAchieved ==
  ASSUME DeploymentTypeOK, NEW r \in Ref, NEW s \in CloudService, s \in run[r].todo,
         DeployImage(r, s), run[r].mode.sync, Achieved(r)
  PROVE  Achieved(r)'
<1> DEFINE revision == [Newest(s) EXCEPT !.commit = run[r].commit]
<1>1. revision \in Revision /\ revision.commit = run[r].commit
  BY NewestIsOne DEF DeploymentTypeOK, Run, Revision
<1>2. run[r].stage = "image" /\ Revise(r, s, revision, "wait")
  BY DEF DeployImage
<1>3. /\ GoesOn(r) /\ Grows /\ \A o \in CloudService \ {s} : revisions'[o] = revisions[o]
      /\ \/ Newest(s)' = [revision EXCEPT !.ready = TRUE] /\ Ends(r, s, "wait")
         \/ run'[r].stage = "failed"
  <2> HIDE DEF revision
  <2> QED BY <1>1, <1>2, ReviseEffect DEF Stage
<1>4. CASE run'[r].stage = "failed"
  BY <1>3, <1>4, FailedAchieved
<1>5. CASE Newest(s)' = [revision EXCEPT !.ready = TRUE] /\ Ends(r, s, "wait")
  <2>1. Newest(s)'.commit = run'[r].commit /\ Newest(s)'.ready
    <3> HIDE DEF revision
    <3> QED BY <1>1, <1>3, <1>5 DEF Revision, GoesOn
  <2>2. \A o \in CloudService \ run[r].todo : Newest(o).commit = run[r].commit /\ Newest(o).ready
    BY <1>2 DEF Achieved, Through
  <2>3. \A o \in CloudService \ {s} : Newest(o)' = Newest(o)
    BY <1>3 DEF Newest
  <2>4. \A o \in CloudService : (run'[r].stage # "image" \/ o \notin run'[r].todo) =>
           Newest(o)'.commit = run'[r].commit /\ Newest(o)'.ready
    <3>1. \A o \in CloudService : (run'[r].stage # "image" \/ o \notin run'[r].todo) =>
             o = s \/ o \in CloudService \ run[r].todo
      BY <1>2, <1>5 DEF Ends
    <3>2. run'[r].commit = run[r].commit
      BY <1>3 DEF GoesOn
    <3> QED BY <2>1, <2>2, <2>3, <3>1, <3>2
  <2>5. run'[r].stage \in {"image", "wait"}
    BY <1>2, <1>5 DEF Ends
  <2> QED BY <1>3, <2>4, <2>5
          DEF Achieved, Through, PastImage, PastEnv, PastTraffic, PastJobs
<1> QED BY <1>3, <1>4, <1>5

LEMMA AwaitCommitAchieved ==
  ASSUME DeploymentTypeOK, NEW r \in Ref, NEW s \in CloudService, AwaitCommit(r, s), Achieved(r)
  PROVE  Achieved(r)'
<1>1. GoesOn(r) /\ Ends(r, s, "env") /\ run[r].stage = "wait" /\ revisions' = revisions
  BY AdvanceEffect DEF AwaitCommit, DeploymentTypeOK, Stage, cloudVars
<1>2. \A o \in CloudService : Newest(o)'.commit = run'[r].commit /\ Newest(o)'.ready
  BY <1>1 DEF Achieved, Through, PastImage, GoesOn, Newest
<1>3. run'[r].stage = "wait" \/ (run'[r].stage = "env" /\ run'[r].todo = CloudService)
  BY <1>1 DEF Ends
<1> QED BY <1>1, <1>2, <1>3
        DEF Achieved, Through, PastImage, PastEnv, PastTraffic, PastJobs

LEMMA SyncEnvAchieved ==
  ASSUME DeploymentTypeOK, NEW r \in Ref, NEW s \in CloudService, s \in run[r].todo,
         SyncEnv(r, s), Achieved(r)
  PROVE  Achieved(r)'
<1> DEFINE revision == [Newest(s) EXCEPT !.env = run[r].plan[s]]
<1>1. /\ revision \in Revision /\ revision.env = run[r].plan[s]
      /\ revision.commit = Newest(s).commit
  BY NewestIsOne DEF DeploymentTypeOK, Run, Revision
<1>2. run[r].stage = "env" /\ Revise(r, s, revision, "traffic")
  BY DEF SyncEnv
<1>3. /\ GoesOn(r) /\ Grows /\ \A o \in CloudService \ {s} : revisions'[o] = revisions[o]
      /\ \/ Newest(s)' = [revision EXCEPT !.ready = TRUE] /\ Ends(r, s, "traffic")
         \/ run'[r].stage = "failed"
  <2> HIDE DEF revision
  <2> QED BY <1>1, <1>2, ReviseEffect DEF Stage
<1>4. CASE run'[r].stage = "failed"
  BY <1>3, <1>4, FailedAchieved
<1>5. CASE Newest(s)' = [revision EXCEPT !.ready = TRUE] /\ Ends(r, s, "traffic")
  <2>1. /\ \A o \in CloudService : Newest(o).commit = run[r].commit /\ Newest(o).ready
        /\ \A o \in CloudService \ run[r].todo : Newest(o).env = run[r].plan[o]
    BY <1>2 DEF Achieved, Through, PastImage
  <2>2. /\ Newest(s)'.env = run'[r].plan[s] /\ Newest(s)'.commit = run'[r].commit
        /\ Newest(s)'.ready
    <3> HIDE DEF revision
    <3> QED BY <1>1, <1>3, <1>5, <2>1 DEF Revision, GoesOn
  <2>3. \A o \in CloudService \ {s} : Newest(o)' = Newest(o)
    BY <1>3 DEF Newest
  <2>4. /\ \A o \in CloudService : Newest(o)'.commit = run'[r].commit /\ Newest(o)'.ready
        /\ \A o \in CloudService : (run'[r].stage # "env" \/ o \notin run'[r].todo) =>
             Newest(o)'.env = run'[r].plan[o]
    <3>1. \A o \in CloudService : (run'[r].stage # "env" \/ o \notin run'[r].todo) =>
             o = s \/ o \in CloudService \ run[r].todo
      BY <1>2, <1>5 DEF Ends
    <3>2. run'[r].commit = run[r].commit /\ run'[r].plan = run[r].plan
      BY <1>3 DEF GoesOn
    <3> QED BY <2>1, <2>2, <2>3, <3>1, <3>2
  <2>5. \/ run'[r].stage = "env"
        \/ run'[r].stage = "traffic" /\ run'[r].todo = CloudService
    BY <1>2, <1>5 DEF Ends
  <2> QED BY <1>3, <2>4, <2>5
          DEF Achieved, Through, PastImage, PastEnv, PastTraffic, PastJobs
<1> QED BY <1>3, <1>4, <1>5

LEMMA ResolveEffect ==
  ASSUME DeploymentTypeOK, NEW r \in Ref, NEW s \in CloudService, Resolve(r, s)
  PROVE  LET made == {n \in Ready(s) : revisions[s][n].commit = run[r].commit}
         IN /\ GoesOn(r) /\ revisions' = revisions
            /\ run'[r].stage = "shift" /\ run'[r].todo = run[r].todo
            /\ run'[r].at \in made /\ made \subseteq 1 .. Len(revisions[s])
            /\ \A n \in made : n <= run'[r].at
<1> DEFINE made == {n \in Ready(s) : revisions[s][n].commit = run[r].commit}
           there == Reached(s) = Chosen(made)
           new == [run[r] EXCEPT !.stage = "shift", !.at = Chosen(made), !.there = there]
<1>1. /\ made # {} /\ run' = [run EXCEPT ![r] = new] /\ revisions' = revisions
  BY DEF Resolve, cloudVars
<1>2. made \subseteq 1 .. Len(revisions[s]) /\ Len(revisions[s]) \in Nat
  BY NewestIsOne DEF Ready
<1>3. /\ Chosen(made) \in made /\ Chosen(made) \in Nat
      /\ \A n \in made : n <= Chosen(made)
  <2>1. made \subseteq Nat
    BY <1>2
  <2> HIDE DEF made
  <2> QED BY <1>1, <1>2, <2>1, LastIsLast DEF Chosen
<1>4. run \in [Ref -> Run]
  BY DEF DeploymentTypeOK
<1>5. /\ new \in Run /\ new.commit = run[r].commit /\ new.plan = run[r].plan
      /\ new.mode = run[r].mode /\ new.single = run[r].single
      /\ new.stage = "shift" /\ new.todo = run[r].todo /\ new.at = Chosen(made)
  <2>1. there \in BOOLEAN
    OBVIOUS
  <2> HIDE DEF made, there
  <2> QED BY <1>3, <1>4, <2>1 DEF Run, Stage
<1>6. GoesOn(r) /\ run'[r] = new
  <2> HIDE DEF new
  <2> QED BY <1>1, <1>4, <1>5, RunEffect
<1> QED
  <2> HIDE DEF new, made
  <2>1. /\ GoesOn(r) /\ revisions' = revisions
        /\ run'[r].stage = "shift" /\ run'[r].todo = run[r].todo
        /\ run'[r].at \in made /\ made \subseteq 1 .. Len(revisions[s])
        /\ \A n \in made : n <= run'[r].at
    BY <1>1, <1>2, <1>3, <1>5, <1>6
  <2> QED BY <2>1 DEF made

LEMMA ResolveAchieved ==
  ASSUME DeploymentTypeOK, NEW r \in Ref, run[r].todo # {}, First(r) \in CloudService,
         Resolve(r, First(r)), Achieved(r)
  PROVE  Achieved(r)'
<1> DEFINE s == First(r)
           made == {n \in Ready(s) : revisions[s][n].commit = run[r].commit}
<1>1. /\ GoesOn(r) /\ revisions' = revisions
      /\ run'[r].stage = "shift" /\ run'[r].todo = run[r].todo
      /\ run'[r].at \in made /\ made \subseteq 1 .. Len(revisions[s])
      /\ \A n \in made : n <= run'[r].at
  BY ResolveEffect
<1>2. run[r].stage = "traffic" /\ traffic' = traffic
  BY DEF Resolve, cloudVars
<1>3. \A o \in CloudService : /\ Newest(o).commit = run[r].commit /\ Newest(o).ready
                              /\ Newest(o).env = run[r].plan[o]
  BY <1>2 DEF Achieved, Through, PastImage, PastEnv
<1>4. run'[r].at = Len(revisions[s])
  <2>1. Len(revisions[s]) \in made
    BY <1>3, NewestIsOne DEF Ready
  <2>2. Len(revisions[s]) \in Nat
    BY NewestIsOne
  <2>3. run'[r].at \in 1 .. Len(revisions[s]) /\ Len(revisions[s]) <= run'[r].at
    <3> HIDE DEF made, s
    <3> QED BY <1>1, <2>1
  <2> HIDE DEF made, s
  <2> QED BY <2>2, <2>3
<1>5. Right(r, s, run'[r].at)
  BY <1>3, <1>4, NewestIsOne DEF Right
<1>6. First(r)' = s
  BY <1>1 DEF First
<1>7. Right(r, First(r), run[r].at)'
  BY <1>1, <1>5, <1>6 DEF Right, GoesOn
<1>8. \A o \in CloudService : /\ Newest(o)'.commit = run'[r].commit /\ Newest(o)'.ready
                              /\ Newest(o)'.env = run'[r].plan[o]
  BY <1>1, <1>3 DEF GoesOn, Newest
<1>9. \A o \in CloudService \ run'[r].todo : Routed(r, o)'
  BY <1>1, <1>2 DEF GoesOn, Achieved, Through, Right, Routed
<1> QED BY <1>1, <1>6, <1>7, <1>8, <1>9
        DEF Achieved, Through, PastImage, PastEnv, PastTraffic, PastJobs

LEMMA ShiftEffect ==
  ASSUME DeploymentTypeOK, NEW r \in Ref, NEW s \in CloudService, Shift(r, s)
  PROVE  /\ GoesOn(r) /\ revisions' = revisions
         /\ \/ traffic' = [traffic EXCEPT ![s] = run[r].at]
            \/ traffic' = traffic /\ Reached(s) = run[r].at
         /\ \/ run[r].todo = {s} /\ run'[r].todo = CloudService /\ run'[r].stage = "mounts"
            \/ /\ run[r].todo # {s} /\ run'[r].todo = run[r].todo \ {s}
               /\ run'[r].stage = "traffic"
<1> DEFINE todo == IF run[r].todo = {s} THEN CloudService ELSE run[r].todo \ {s}
           stage == IF run[r].todo = {s} THEN "mounts" ELSE "traffic"
           new == [run[r] EXCEPT !.todo = todo, !.stage = stage, !.at = 0, !.there = FALSE]
<1>1. /\ run' = [run EXCEPT ![r] = new] /\ revisions' = revisions
      /\ \/ traffic' = [traffic EXCEPT ![s] = run[r].at]
         \/ traffic' = traffic /\ Reached(s) = run[r].at
  BY DEF Shift
<1>2. run[r] \in Run /\ run \in [Ref -> Run] /\ todo \in SUBSET CloudService /\ stage \in Stage
  BY DEF DeploymentTypeOK, Run, Stage
<1>3. /\ new \in Run /\ new.todo = todo /\ new.stage = stage
      /\ new.commit = run[r].commit /\ new.plan = run[r].plan
      /\ new.mode = run[r].mode /\ new.single = run[r].single
  <2> HIDE DEF todo, stage
  <2> QED BY <1>2 DEF Run
<1>4. GoesOn(r) /\ run'[r] = new
  <2> HIDE DEF new
  <2> QED BY <1>1, <1>2, <1>3, RunEffect
<1>5. run'[r].todo = todo /\ run'[r].stage = stage
  <2> HIDE DEF new
  <2> QED BY <1>3, <1>4
<1> QED BY <1>1, <1>4, <1>5

LEMMA ShiftAchieved ==
  ASSUME DeploymentTypeOK, NEW r \in Ref, First(r) \in CloudService, Shift(r, First(r)),
         Achieved(r)
  PROVE  Achieved(r)'
<1> DEFINE s == First(r)
<1>1. /\ GoesOn(r) /\ revisions' = revisions
      /\ \/ traffic' = [traffic EXCEPT ![s] = run[r].at]
         \/ traffic' = traffic /\ Reached(s) = run[r].at
      /\ \/ run[r].todo = {s} /\ run'[r].todo = CloudService /\ run'[r].stage = "mounts"
         \/ /\ run[r].todo # {s} /\ run'[r].todo = run[r].todo \ {s}
            /\ run'[r].stage = "traffic"
  BY ShiftEffect
<1>2. run[r].stage = "shift"
  BY DEF Shift
<1>3. \A o \in CloudService : /\ Newest(o).commit = run[r].commit /\ Newest(o).ready
                              /\ Newest(o).env = run[r].plan[o]
  BY <1>2 DEF Achieved, Through, PastImage, PastEnv
<1>4. \A o \in CloudService : /\ Newest(o)'.commit = run'[r].commit /\ Newest(o)'.ready
                              /\ Newest(o)'.env = run'[r].plan[o]
  BY <1>1, <1>3 DEF GoesOn, Newest
<1>5. traffic'[s] = 0 \/ Right(r, s, traffic'[s])
  <2>1. CASE traffic' = [traffic EXCEPT ![s] = run[r].at]
    <3>1. traffic'[s] = run[r].at
      BY <2>1 DEF DeploymentTypeOK
    <3> QED BY <1>2, <3>1 DEF Achieved
  <2>2. CASE traffic' = traffic /\ Reached(s) = run[r].at
    BY <1>2, <2>2 DEF Achieved, Reached
  <2> QED BY <1>1, <2>1, <2>2
<1>6. \A o \in CloudService \ run[r].todo : traffic'[o] = 0 \/ Right(r, o, traffic'[o])
  <2>1. ASSUME NEW o \in CloudService \ run[r].todo, o # s
        PROVE  traffic'[o] = 0 \/ Right(r, o, traffic'[o])
    <3>1. traffic'[o] = traffic[o]
      BY <1>1, <2>1 DEF DeploymentTypeOK
    <3> QED BY <1>2, <2>1, <3>1 DEF Achieved, Through, Routed
  <2> QED BY <1>5, <2>1
<1>7. \A o \in CloudService : run'[r].stage = "mounts" \/ o \notin run'[r].todo =>
         Routed(r, o)'
  <2>1. ASSUME NEW o \in CloudService, run'[r].stage = "mounts" \/ o \notin run'[r].todo
        PROVE  traffic'[o] = 0 \/ Right(r, o, traffic'[o])
    BY <1>1, <1>5, <1>6, <2>1
  <2> QED BY <1>1, <2>1 DEF GoesOn, Right, Routed
<1> QED BY <1>1, <1>4, <1>7
        DEF Achieved, Through, PastImage, PastEnv, PastTraffic, PastJobs

\* Once the traffic is where it is to be, a step that leaves revisions and traffic alone
\* keeps it there.
Pinned(r) ==
  \A o \in CloudService : /\ Newest(o).commit = run[r].commit /\ Newest(o).ready
                          /\ Newest(o).env = run[r].plan[o] /\ Routed(r, o)

LEMMA PinnedKept ==
  ASSUME NEW r \in Ref, run[r].stage \in PastTraffic, GoesOn(r),
         revisions' = revisions, traffic' = traffic, Achieved(r)
  PROVE  Pinned(r)'
<1>1. Pinned(r)
  BY DEF Pinned, Achieved, Through, PastTraffic, PastEnv, PastImage
<1> QED BY <1>1 DEF Pinned, GoesOn, Newest, Right, Routed

LEMMA VerifyMountsEffect ==
  ASSUME DeploymentTypeOK, NEW r \in Ref, NEW s \in CloudService, VerifyMounts(r, s)
  PROVE  /\ GoesOn(r) /\ run[r].stage = "mounts" /\ UNCHANGED cloudVars
         /\ run'[r].stage = "mounts" \/ (run'[r].stage = "jobs" /\ run'[r].todo = CloudService)
<1> DEFINE todo == IF run[r].todo = {s} THEN CloudService ELSE run[r].todo \ {s}
           stage == IF run[r].todo = {s} THEN "jobs" ELSE run[r].stage
           left == IF run[r].todo = {s} THEN Job ELSE run[r].left
           new == [run[r] EXCEPT !.todo = todo, !.stage = stage, !.left = left]
<1>1. run[r].stage = "mounts" /\ run' = [run EXCEPT ![r] = new] /\ UNCHANGED cloudVars
  BY DEF VerifyMounts
<1>2. /\ run[r] \in Run /\ run \in [Ref -> Run] /\ todo \in SUBSET CloudService
      /\ stage \in Stage /\ left \in SUBSET Job
  BY DEF DeploymentTypeOK, Run, Stage
<1>3. /\ new \in Run /\ new.todo = todo /\ new.stage = stage
      /\ new.commit = run[r].commit /\ new.plan = run[r].plan
      /\ new.mode = run[r].mode /\ new.single = run[r].single
  <2> HIDE DEF todo, stage, left
  <2> QED BY <1>2 DEF Run
<1>4. GoesOn(r) /\ run'[r] = new
  <2> HIDE DEF new
  <2> QED BY <1>1, <1>2, <1>3, RunEffect
<1>5. run'[r].todo = todo /\ run'[r].stage = stage
  <2> HIDE DEF new
  <2> QED BY <1>3, <1>4
<1> QED BY <1>1, <1>4, <1>5

LEMMA VerifyMountsAchieved ==
  ASSUME DeploymentTypeOK, NEW r \in Ref, NEW s \in CloudService, VerifyMounts(r, s),
         Achieved(r)
  PROVE  Achieved(r)'
<1>1. /\ GoesOn(r) /\ run[r].stage = "mounts" /\ UNCHANGED cloudVars
      /\ run'[r].stage = "mounts" \/ (run'[r].stage = "jobs" /\ run'[r].todo = CloudService)
  BY VerifyMountsEffect
<1>2. Pinned(r)'
  BY <1>1, PinnedKept DEF PastTraffic, PastEnv, PastImage, cloudVars
<1> QED BY <1>1, <1>2
        DEF Pinned, Achieved, Through, PastImage, PastEnv, PastTraffic, PastJobs

LEMMA EnsureJobEffect ==
  ASSUME DeploymentTypeOK, NEW r \in Ref, NEW s \in CloudService, NEW j \in Job,
         EnsureJob(r, s, j)
  PROVE  /\ GoesOn(r) /\ UNCHANGED <<revisions, traffic>>
         /\ run[r].stage = "jobs" /\ run'[r].todo = run[r].todo
         /\ run'[r].stage = "jobs" \/ (run'[r].stage = "settle" /\ run'[r].left = Job)
         /\ jobs' \in [CloudService -> [Job -> JobState]]
         /\ \A o \in CloudService \ {s} : jobs'[o] = jobs[o]
<1> DEFINE left == IF run[r].left = {j} THEN Job ELSE run[r].left \ {j}
           stage == IF run[r].left = {j} THEN "settle" ELSE run[r].stage
           new == [run[r] EXCEPT !.left = left, !.stage = stage]
           state == IF jobs[s][j] = "absent" THEN "enabled" ELSE jobs[s][j]
<1>1. /\ run[r].stage = "jobs" /\ run' = [run EXCEPT ![r] = new]
      /\ UNCHANGED <<revisions, traffic>>
      /\ jobs' = [jobs EXCEPT ![s][j] = state]
  BY DEF EnsureJob
<1>2. /\ run[r] \in Run /\ run \in [Ref -> Run] /\ stage \in Stage /\ left \in SUBSET Job
      /\ state \in JobState /\ jobs \in [CloudService -> [Job -> JobState]]
  BY DEF DeploymentTypeOK, Run, Stage, JobState
<1>3. /\ new \in Run /\ new.todo = run[r].todo /\ new.stage = stage /\ new.left = left
      /\ new.commit = run[r].commit /\ new.plan = run[r].plan
      /\ new.mode = run[r].mode /\ new.single = run[r].single
  <2> HIDE DEF stage, left
  <2> QED BY <1>2 DEF Run
<1>4. GoesOn(r) /\ run'[r] = new
  <2> HIDE DEF new
  <2> QED BY <1>1, <1>2, <1>3, RunEffect
<1>5. run'[r].todo = run[r].todo /\ run'[r].stage = stage /\ run'[r].left = left
  <2> HIDE DEF new
  <2> QED BY <1>3, <1>4
<1>6. /\ jobs' \in [CloudService -> [Job -> JobState]]
      /\ \A o \in CloudService \ {s} : jobs'[o] = jobs[o]
  <2> HIDE DEF state
  <2> QED BY <1>1, <1>2
<1> QED BY <1>1, <1>4, <1>5, <1>6

LEMMA EnsureJobAchieved ==
  ASSUME DeploymentTypeOK, NEW r \in Ref, NEW j \in Job, NEW s \in run[r].todo,
         s \in CloudService, EnsureJob(r, s, j), Achieved(r)
  PROVE  Achieved(r)'
<1>1. /\ GoesOn(r) /\ UNCHANGED <<revisions, traffic>>
      /\ run[r].stage = "jobs" /\ run'[r].todo = run[r].todo
      /\ run'[r].stage = "jobs" \/ (run'[r].stage = "settle" /\ run'[r].left = Job)
      /\ \A o \in CloudService \ {s} : jobs'[o] = jobs[o]
  BY EnsureJobEffect
<1>2. Pinned(r)'
  BY <1>1, PinnedKept DEF PastTraffic, PastEnv, PastImage
<1>3. \A o \in CloudService \ run'[r].todo : \A i \in Job : Settled(r, o, i)'
  <2>1. \A o \in CloudService \ run[r].todo : o # s /\ \A i \in Job : Settled(r, o, i)
    BY <1>1 DEF Achieved, Through
  <2> QED BY <1>1, <2>1 DEF Settled, GoesOn
<1> QED BY <1>1, <1>2, <1>3
        DEF Pinned, Achieved, Through, PastImage, PastEnv, PastTraffic, PastJobs

LEMMA SettleJobEffect ==
  ASSUME DeploymentTypeOK, NEW r \in Ref, NEW s \in CloudService, NEW j \in Job,
         SettleJob(r, s, j)
  PROVE  /\ GoesOn(r) /\ UNCHANGED <<revisions, traffic>>
         /\ run[r].stage = "settle" /\ run[r].left \subseteq Job
         /\ \/ /\ run[r].left # {j} /\ run'[r].todo = run[r].todo
               /\ run'[r].stage = "settle" /\ run'[r].left = run[r].left \ {j}
            \/ /\ run[r].left = {j} /\ run[r].todo = {s}
               /\ run'[r].stage = "retire" /\ run'[r].todo = CloudService
            \/ /\ run[r].left = {j}
               /\ run'[r].stage = "jobs" /\ run'[r].todo = run[r].todo \ {s}
         /\ jobs' \in [CloudService -> [Job -> JobState]]
         /\ \A o \in CloudService \ {s} : jobs'[o] = jobs[o]
         /\ \A i \in Job \ {j} : jobs'[s][i] = jobs[s][i]
         /\ jobs'[s][j] = IF Standard(run[r].plan[s]) THEN "enabled" ELSE "paused"
<1> DEFINE left == IF run[r].left = {j} THEN Job ELSE run[r].left \ {j}
           todo == IF run[r].left # {j} THEN run[r].todo
                   ELSE IF run[r].todo = {s} THEN CloudService ELSE run[r].todo \ {s}
           stage == IF run[r].left # {j} THEN run[r].stage
                    ELSE IF run[r].todo = {s} THEN "retire" ELSE "jobs"
           state == IF Standard(run[r].plan[s]) THEN "enabled" ELSE "paused"
           new == [run[r] EXCEPT !.left = left, !.todo = todo, !.stage = stage]
<1>1. /\ run[r].stage = "settle" /\ run' = [run EXCEPT ![r] = new]
      /\ UNCHANGED <<revisions, traffic>>
      /\ jobs' = [jobs EXCEPT ![s][j] = state]
  BY DEF SettleJob
<1>2. /\ run[r] \in Run /\ run \in [Ref -> Run] /\ stage \in Stage /\ left \in SUBSET Job
      /\ todo \in SUBSET CloudService /\ run[r].left \subseteq Job
      /\ state \in JobState /\ jobs \in [CloudService -> [Job -> JobState]]
  BY DEF DeploymentTypeOK, Run, Stage, JobState
<1>3. /\ new \in Run /\ new.todo = todo /\ new.stage = stage /\ new.left = left
      /\ new.commit = run[r].commit /\ new.plan = run[r].plan
      /\ new.mode = run[r].mode /\ new.single = run[r].single
  <2> HIDE DEF stage, left, todo
  <2> QED BY <1>2 DEF Run
<1>4. GoesOn(r) /\ run'[r] = new
  <2> HIDE DEF new
  <2> QED BY <1>1, <1>2, <1>3, RunEffect
<1>5. run'[r].todo = todo /\ run'[r].stage = stage /\ run'[r].left = left
  <2> HIDE DEF new
  <2> QED BY <1>3, <1>4
<1>6. /\ jobs' \in [CloudService -> [Job -> JobState]]
      /\ \A o \in CloudService \ {s} : jobs'[o] = jobs[o]
      /\ \A i \in Job \ {j} : jobs'[s][i] = jobs[s][i]
      /\ jobs'[s][j] = state
  <2> HIDE DEF state
  <2> QED BY <1>1, <1>2
<1>7. \/ /\ run[r].left # {j} /\ run'[r].todo = run[r].todo
         /\ run'[r].stage = "settle" /\ run'[r].left = run[r].left \ {j}
      \/ /\ run[r].left = {j} /\ run[r].todo = {s}
         /\ run'[r].stage = "retire" /\ run'[r].todo = CloudService
      \/ /\ run[r].left = {j}
         /\ run'[r].stage = "jobs" /\ run'[r].todo = run[r].todo \ {s}
  BY <1>1, <1>5
<1> QED BY <1>1, <1>2, <1>4, <1>6, <1>7

LEMMA SettleJobAchieved ==
  ASSUME DeploymentTypeOK, NEW r \in Ref, NEW j \in Job, NEW s \in run[r].todo,
         s \in CloudService, s = First(r), SettleJob(r, s, j), Achieved(r)
  PROVE  Achieved(r)'
<1>1. /\ GoesOn(r) /\ UNCHANGED <<revisions, traffic>>
      /\ run[r].stage = "settle" /\ run[r].left \subseteq Job
      /\ \A o \in CloudService \ {s} : jobs'[o] = jobs[o]
      /\ \A i \in Job \ {j} : jobs'[s][i] = jobs[s][i]
      /\ jobs'[s][j] = IF Standard(run[r].plan[s]) THEN "enabled" ELSE "paused"
  BY SettleJobEffect
<1>2. Pinned(r)'
  BY <1>1, PinnedKept DEF PastTraffic, PastEnv, PastImage
<1>3. /\ \A o \in CloudService \ run[r].todo : \A i \in Job : Settled(r, o, i)
      /\ \A i \in Job \ run[r].left : Settled(r, s, i)
  BY <1>1 DEF Achieved, Through
<1>4. \A o \in CloudService \ run[r].todo : \A i \in Job : Settled(r, o, i)'
  <2>1. \A o \in CloudService \ run[r].todo : o # s
    OBVIOUS
  <2> QED BY <1>1, <1>3, <2>1 DEF Settled, GoesOn
<1>5. \A i \in Job \ (run[r].left \ {j}) : Settled(r, s, i)'
  <2>1. ASSUME NEW i \in Job \ (run[r].left \ {j})
        PROVE  jobs'[s][i] = IF Standard(run[r].plan[s]) THEN "enabled" ELSE "paused"
    <3>1. CASE i = j
      BY <1>1, <3>1
    <3>2. CASE i # j
      BY <1>1, <1>3, <3>2 DEF Settled
    <3> QED BY <3>1, <3>2
  <2> QED BY <1>1, <2>1 DEF Settled, GoesOn
<1>6. CASE /\ run[r].left # {j} /\ run'[r].todo = run[r].todo
           /\ run'[r].stage = "settle" /\ run'[r].left = run[r].left \ {j}
  <2>1. First(r)' = s
    BY <1>6 DEF First
  <2> QED BY <1>2, <1>4, <1>5, <1>6, <2>1
          DEF Pinned, Achieved, Through, PastImage, PastEnv, PastTraffic, PastJobs
<1>7. CASE /\ run[r].left = {j} /\ run[r].todo = {s}
           /\ run'[r].stage = "retire" /\ run'[r].todo = CloudService
  <2>1. \A o \in CloudService : \A i \in Job : Settled(r, o, i)'
    BY <1>4, <1>5, <1>7
  <2> QED BY <1>2, <1>7, <2>1
          DEF Pinned, Achieved, Through, PastImage, PastEnv, PastTraffic, PastJobs
<1>8. CASE /\ run[r].left = {j}
           /\ run'[r].stage = "jobs" /\ run'[r].todo = run[r].todo \ {s}
  <2>1. \A o \in CloudService \ run'[r].todo : \A i \in Job : Settled(r, o, i)'
    BY <1>4, <1>5, <1>8
  <2> QED BY <1>2, <1>8, <2>1
          DEF Pinned, Achieved, Through, PastImage, PastEnv, PastTraffic, PastJobs
<1> QED BY <1>6, <1>7, <1>8, SettleJobEffect

LEMMA RetireJobsAchieved ==
  ASSUME DeploymentTypeOK, NEW r \in Ref, NEW s \in CloudService, RetireJobs(r, s),
         Achieved(r)
  PROVE  Achieved(r)'
<1>1. /\ GoesOn(r) /\ Ends(r, s, "relics") /\ run[r].stage = "retire"
      /\ UNCHANGED <<revisions, traffic, jobs>>
  BY AdvanceEffect DEF RetireJobs, DeploymentTypeOK, Stage
<1>2. Pinned(r)'
  BY <1>1, PinnedKept DEF PastTraffic, PastEnv, PastImage
<1>3. \A o \in CloudService, j \in Job : Settled(r, o, j)'
  <2>1. \A o \in CloudService, j \in Job : Settled(r, o, j)
    BY <1>1 DEF Achieved, Through, PastJobs
  <2> QED BY <1>1, <2>1 DEF Settled, GoesOn
<1>4. run'[r].stage \in {"retire", "relics"}
  BY <1>1 DEF Ends
<1> QED BY <1>1, <1>2, <1>3, <1>4
        DEF Pinned, Achieved, Through, PastImage, PastEnv, PastTraffic, PastJobs

LEMMA RemoveRelicsAchieved ==
  ASSUME DeploymentTypeOK, NEW r \in Ref, NEW s \in CloudService, RemoveRelics(r, s),
         Achieved(r)
  PROVE  Achieved(r)'
<1>1. /\ run[r].stage = "relics"
      /\ \/ Revise(r, s, [Newest(s) EXCEPT !.relic = FALSE], "done")
         \/ Advance(r, s, "done") /\ UNCHANGED <<items, cloudVars, started, revised, latest>>
  BY DEF RemoveRelics
<1>2. Pinned(r) /\ \A o \in CloudService, j \in Job : Settled(r, o, j)
  BY <1>1 DEF Pinned, Achieved, Through, PastTraffic, PastEnv, PastImage, PastJobs
<1> DEFINE revision == [Newest(s) EXCEPT !.relic = FALSE]
<1>3. /\ revision \in Revision /\ revision.env = Newest(s).env
      /\ revision.commit = Newest(s).commit
  BY NewestIsOne DEF Revision
<1>4. /\ GoesOn(r) /\ Grows /\ UNCHANGED <<traffic, jobs, retired>>
      /\ \A o \in CloudService \ {s} : revisions'[o] = revisions[o]
      /\ \/ Newest(s)' = [revision EXCEPT !.ready = TRUE] \/ Newest(s)' = Newest(s)
         \/ run'[r].stage = "failed"
      /\ \/ Ends(r, s, "done")
         \/ run'[r].stage = "failed"
  <2>1. CASE Revise(r, s, revision, "done")
    <3> HIDE DEF revision
    <3> QED BY <1>3, <2>1, ReviseEffect DEF Stage
  <2>2. CASE Advance(r, s, "done") /\ UNCHANGED <<items, cloudVars, started, revised, latest>>
    BY <2>2, AdvanceEffect, SameGrows DEF DeploymentTypeOK, Stage, cloudVars, Newest
  <2> QED BY <1>1, <2>1, <2>2
<1>5. CASE run'[r].stage = "failed"
  BY <1>4, <1>5, FailedAchieved
<1>6. CASE run'[r].stage # "failed"
  <2>1. run'[r].stage \in {"relics", "done"}
    BY <1>1, <1>4, <1>6 DEF Ends
  <2>2. /\ Newest(s)'.commit = run'[r].commit /\ Newest(s)'.ready
        /\ Newest(s)'.env = run'[r].plan[s]
    <3> HIDE DEF revision
    <3> QED BY <1>2, <1>3, <1>4, <1>6 DEF Revision, GoesOn, Pinned
  <2>3. \A o \in CloudService \ {s} : Newest(o)' = Newest(o)
    BY <1>4 DEF Newest
  <2>4. \A o \in CloudService : /\ Newest(o)'.commit = run'[r].commit /\ Newest(o)'.ready
                                /\ Newest(o)'.env = run'[r].plan[o]
    <3>1. run'[r].commit = run[r].commit /\ run'[r].plan = run[r].plan
      BY <1>4 DEF GoesOn
    <3> QED BY <1>2, <2>2, <2>3, <3>1 DEF Pinned
  <2>5. \A o \in CloudService : Routed(r, o)'
    <3>1. ASSUME NEW o \in CloudService, NEW n, n = traffic[o], n # 0 PROVE Right(r, o, n)'
      BY <1>2, <1>4, <3>1, RightKept DEF Pinned, Routed
    <3> QED BY <1>4, <3>1 DEF Right, Routed
  <2>6. \A o \in CloudService, j \in Job : Settled(r, o, j)'
    BY <1>2, <1>4 DEF Settled, GoesOn
  <2> QED BY <1>4, <2>1, <2>4, <2>5, <2>6
          DEF Achieved, Through, PastImage, PastEnv, PastTraffic, PastJobs
<1> QED BY <1>4, <1>5, <1>6

-----------------------------------------------------------------------------
(* Every step of a run keeps the types and the other runs. *)

LEMMA TypeKept ==
  ASSUME DeploymentTypeOK, run' \in [Ref -> Run], Grows, traffic' = traffic,
         jobs' \in [CloudService -> [Job -> JobState]], retired' \subseteq CloudService,
         UNCHANGED <<items, started, revised, latest>>
  PROVE  DeploymentTypeOK'
<1>1. \A s \in CloudService : revisions'[s] # <<>> /\ traffic'[s] <= Len(revisions'[s])
  BY DEF Grows, DeploymentTypeOK
<1> QED BY <1>1 DEF Grows, DeploymentTypeOK

\* An action of a run.
Acts(r, s) ==
  \/ Admit(r, s) \/ DeployImage(r, s) \/ AwaitCommit(r, s) \/ SyncEnv(r, s)
  \/ Resolve(r, s) \/ Shift(r, s) \/ VerifyMounts(r, s) \/ RetireJobs(r, s)
  \/ RemoveRelics(r, s) \/ \E j \in Job : EnsureJob(r, s, j) \/ SettleJob(r, s, j)

StepKeeps(r) ==
  /\ GoesOn(r) /\ Grows /\ latest' = latest /\ DeploymentTypeOK'
  /\ run'[r].stage = "shift" =>
       run'[r].todo # {} /\ run'[r].at \in 1 .. Len(revisions'[First(r)'])

LEMMA ActsKeep ==
  ASSUME DeploymentTypeOK, Shifting, NEW r \in Ref, NEW s \in run[r].todo,
         s \in CloudService, s = First(r), Acts(r, s)
  PROVE  Active(r) /\ StepKeeps(r)
<1> USE DEF Active, StepKeeps
<1>0. /\ run \in [Ref -> Run] /\ jobs \in [CloudService -> [Job -> JobState]]
      /\ retired \subseteq CloudService
  BY DEF DeploymentTypeOK
<1>1. CASE Admit(r, s)
  <2>1. GoesOn(r) /\ Ends(r, s, "image") /\ run[r].stage = "admit"
    BY <1>0, <1>1, AdvanceEffect DEF Admit, Stage
  <2>2. UNCHANGED <<items, cloudVars, started, revised, latest>>
    BY <1>1 DEF Admit
  <2> QED BY <1>0, <2>1, <2>2, SameGrows, TypeKept DEF Ends, GoesOn, cloudVars
<1>2. CASE DeployImage(r, s)
  <2> DEFINE revision == [Newest(s) EXCEPT !.commit = run[r].commit]
             next == IF run[r].mode.sync THEN "wait" ELSE "done"
  <2>1. revision \in Revision
    BY <1>0, NewestIsOne DEF Run, Revision
  <2>2. run[r].stage = "image" /\ Revise(r, s, revision, next)
    BY <1>2 DEF DeployImage
  <2>3. /\ UNCHANGED <<items, traffic, jobs, retired, started, revised, latest>>
        /\ GoesOn(r) /\ Grows /\ (Ends(r, s, next) \/ run'[r].stage = "failed")
    <3>1. next \in Stage
      BY DEF Stage
    <3> HIDE DEF revision, next
    <3> QED BY <2>1, <2>2, <3>1, ReviseEffect
  <2> QED BY <1>0, <2>2, <2>3, TypeKept DEF Ends, GoesOn
<1>3. CASE AwaitCommit(r, s)
  <2>1. GoesOn(r) /\ Ends(r, s, "env") /\ run[r].stage = "wait"
    BY <1>0, <1>3, AdvanceEffect DEF AwaitCommit, Stage
  <2>2. UNCHANGED <<items, cloudVars, started, revised, latest>>
    BY <1>3 DEF AwaitCommit
  <2> QED BY <1>0, <2>1, <2>2, SameGrows, TypeKept DEF Ends, GoesOn, cloudVars
<1>4. CASE SyncEnv(r, s)
  <2> DEFINE revision == [Newest(s) EXCEPT !.env = run[r].plan[s]]
  <2>1. revision \in Revision
    <3>1. Newest(s) \in Revision /\ run[r].plan[s] \in Item
      BY <1>0, NewestIsOne DEF Run
    <3> QED BY <3>1 DEF Revision
  <2>2. run[r].stage = "env" /\ Revise(r, s, revision, "traffic")
    BY <1>4 DEF SyncEnv
  <2>3. /\ UNCHANGED <<items, traffic, jobs, retired, started, revised, latest>>
        /\ GoesOn(r) /\ Grows /\ (Ends(r, s, "traffic") \/ run'[r].stage = "failed")
    <3> HIDE DEF revision
    <3> QED BY <2>1, <2>2, ReviseEffect DEF Stage
  <2> QED BY <1>0, <2>2, <2>3, TypeKept DEF Ends, GoesOn
<1>5. CASE Resolve(r, s)
  <2>1. /\ GoesOn(r) /\ revisions' = revisions /\ run'[r].todo = run[r].todo
        /\ run'[r].at \in 1 .. Len(revisions[s])
    BY <1>5, ResolveEffect
  <2>2. run[r].stage = "traffic" /\ UNCHANGED <<items, cloudVars, started, revised, latest>>
    BY <1>5 DEF Resolve
  <2>3. First(r)' = s
    BY <2>1 DEF First
  <2> QED BY <1>0, <2>1, <2>2, <2>3, SameGrows, TypeKept DEF GoesOn, cloudVars
<1>6. CASE Shift(r, s)
  <2>1. /\ GoesOn(r) /\ revisions' = revisions
        /\ traffic' = [traffic EXCEPT ![s] = run[r].at] \/ traffic' = traffic
        /\ run'[r].stage # "shift"
    BY <1>6, ShiftEffect
  <2>2. run[r].stage = "shift" /\ UNCHANGED <<items, jobs, retired, started, revised, latest>>
    BY <1>6 DEF Shift
  <2>3. run[r].at \in 1 .. Len(revisions[s])
    BY <2>2 DEF Shifting
  <2>4. DeploymentTypeOK'
    <3>1. run[r].at \in Nat /\ run[r].at <= Len(revisions[s])
      BY <2>3, NewestIsOne
    <3>2. /\ traffic' \in [CloudService -> Nat] /\ traffic'[s] \in {traffic[s], run[r].at}
          /\ \A o \in CloudService \ {s} : traffic'[o] = traffic[o]
      BY <2>1, <3>1 DEF DeploymentTypeOK
    <3>3. \A o \in CloudService : revisions'[o] # <<>> /\ traffic'[o] <= Len(revisions'[o])
      BY <2>1, <3>1, <3>2 DEF DeploymentTypeOK
    <3> QED BY <2>1, <2>2, <3>2, <3>3 DEF DeploymentTypeOK, GoesOn
  <2> QED BY <2>1, <2>2, <2>4, SameGrows
<1>7. CASE VerifyMounts(r, s)
  <2>1. /\ GoesOn(r) /\ run[r].stage = "mounts"
        /\ run'[r].stage = "mounts" \/ (run'[r].stage = "jobs" /\ run'[r].todo = CloudService)
    BY <1>7, VerifyMountsEffect
  <2>2. UNCHANGED <<items, cloudVars, started, revised, latest>>
    BY <1>7 DEF VerifyMounts
  <2> QED BY <1>0, <2>1, <2>2, SameGrows, TypeKept DEF GoesOn, cloudVars
<1>8. CASE RetireJobs(r, s)
  <2>1. GoesOn(r) /\ Ends(r, s, "relics") /\ run[r].stage = "retire"
    BY <1>0, <1>8, AdvanceEffect DEF RetireJobs, Stage
  <2>2. /\ UNCHANGED <<items, revisions, traffic, jobs, started, revised, latest>>
        /\ retired' \subseteq retired
    BY <1>8 DEF RetireJobs
  <2> QED BY <1>0, <2>1, <2>2, SameGrows, TypeKept DEF Ends, GoesOn
<1>9. CASE RemoveRelics(r, s)
  <2> DEFINE revision == [Newest(s) EXCEPT !.relic = FALSE]
  <2>1. revision \in Revision
    <3>1. Newest(s) \in Revision
      BY NewestIsOne
    <3> QED BY <3>1 DEF Revision
  <2>2. /\ run[r].stage = "relics"
        /\ \/ Revise(r, s, revision, "done")
           \/ Advance(r, s, "done") /\ UNCHANGED <<items, cloudVars, started, revised, latest>>
    BY <1>9 DEF RemoveRelics
  <2>3. /\ UNCHANGED <<items, traffic, jobs, retired, started, revised, latest>>
        /\ GoesOn(r) /\ Grows /\ (Ends(r, s, "done") \/ run'[r].stage = "failed")
    <3>1. CASE Revise(r, s, revision, "done")
      <4> HIDE DEF revision
      <4> QED BY <2>1, <3>1, ReviseEffect DEF Stage
    <3>2. CASE Advance(r, s, "done") /\ UNCHANGED <<items, cloudVars, started, revised, latest>>
      BY <1>0, <3>2, AdvanceEffect, SameGrows DEF Stage, cloudVars
    <3> QED BY <2>2, <3>1, <3>2
  <2> QED BY <1>0, <2>2, <2>3, TypeKept DEF Ends, GoesOn
<1>10. ASSUME NEW j \in Job, EnsureJob(r, s, j) PROVE Active(r) /\ StepKeeps(r)
  <2>1. /\ GoesOn(r) /\ UNCHANGED <<revisions, traffic>> /\ run[r].stage = "jobs"
        /\ run'[r].stage # "shift" /\ jobs' \in [CloudService -> [Job -> JobState]]
    BY <1>10, EnsureJobEffect
  <2>2. UNCHANGED <<items, retired, started, revised, latest>>
    BY <1>10 DEF EnsureJob
  <2> QED BY <1>0, <2>1, <2>2, SameGrows, TypeKept DEF GoesOn
<1>11. ASSUME NEW j \in Job, SettleJob(r, s, j) PROVE Active(r) /\ StepKeeps(r)
  <2>1. /\ GoesOn(r) /\ UNCHANGED <<revisions, traffic>> /\ run[r].stage = "settle"
        /\ run'[r].stage # "shift" /\ jobs' \in [CloudService -> [Job -> JobState]]
    BY <1>11, SettleJobEffect
  <2>2. UNCHANGED <<items, retired, started, revised, latest>>
    BY <1>11 DEF SettleJob
  <2> QED BY <1>0, <2>1, <2>2, SameGrows, TypeKept DEF GoesOn
<1> QED
  BY <1>1, <1>2, <1>3, <1>4, <1>5, <1>6, <1>7, <1>8, <1>9, <1>10, <1>11 DEF Acts

LEMMA ActsAchieve ==
  ASSUME DeploymentTypeOK, NEW r \in Ref, NEW s \in run[r].todo,
         s \in CloudService, s = First(r), Acts(r, s), run[r].mode.sync, Achieved(r)
  PROVE  Achieved(r)'
BY AdmitAchieved, DeployImageAchieved, AwaitCommitAchieved, SyncEnvAchieved, ResolveAchieved,
   ShiftAchieved, VerifyMountsAchieved, RetireJobsAchieved, RemoveRelicsAchieved,
   EnsureJobAchieved, SettleJobAchieved DEF Acts

-----------------------------------------------------------------------------
(* The invariant. *)

LEMMA DeploymentInvInit == DeploymentInit => DeploymentInv
<1> SUFFICES ASSUME DeploymentInit PROVE DeploymentInv
  OBVIOUS
<1>1. PICK found \in [CloudService -> Deployed], c \in Commit :
        /\ items = found
        /\ revisions = [s \in CloudService |->
             <<[commit |-> c, env |-> found[s], relic |-> TRUE, ready |-> TRUE]>>]
        /\ run = [r \in Ref |-> [stage |-> "idle", commit |-> c, plan |-> found,
                                 mode |-> [image |-> FALSE, sync |-> FALSE, waits |-> FALSE],
                                 todo |-> {}, left |-> {}, at |-> 0, there |-> FALSE,
                                 single |-> TRUE]]
  BY DEF DeploymentInit
<1>2. found \in [CloudService -> Item]
  BY DeploymentAssumption
<1>3. run \in [Ref -> Run] /\ \A r \in Ref : run[r].stage = "idle"
  BY <1>1, <1>2 DEF Run, Stage, Mode
<1>4. /\ revisions \in [CloudService -> Seq(Revision)]
      /\ \A s \in CloudService : revisions[s] # <<>> /\ Len(revisions[s]) = 1
  <2>1. \A s \in CloudService :
          [commit |-> c, env |-> found[s], relic |-> TRUE, ready |-> TRUE] \in Revision
    BY <1>2 DEF Revision
  <2> QED BY <1>1, <2>1
<1>5. /\ traffic \in [CloudService -> Nat] /\ jobs \in [CloudService -> [Job -> JobState]]
      /\ \A s \in CloudService : traffic[s] <= 1
  BY DEF DeploymentInit, JobState
<1>6. DeploymentTypeOK
  <2>1. items \in [CloudService -> Item]
    BY <1>1, <1>2
  <2>2. /\ retired \subseteq CloudService /\ latest = {}
        /\ started \in 0 .. MaxRuns /\ revised \in 0 .. MaxRevised
    BY DeploymentAssumption DEF DeploymentInit
  <2>3. \A s \in CloudService : revisions[s] # <<>> /\ traffic[s] <= Len(revisions[s])
    BY <1>4, <1>5
  <2> QED BY <1>3, <1>4, <1>5, <2>1, <2>2, <2>3 DEF DeploymentTypeOK
<1>7. Shifting /\ Alone /\ latest = {}
  BY <1>3 DEF Shifting, Alone, Active, DeploymentInit
<1> QED BY <1>6, <1>7 DEF DeploymentInv

LEMMA BeginKeeps ==
  ASSUME DeploymentInv, NEW r \in Ref, Begin(r)
  PROVE  DeploymentInv'
<1>1. PICK c \in Commit, m \in Modes :
       run' = [q \in Ref |->
         IF q = r
         THEN [stage |-> IF m.image THEN "admit" ELSE "env", commit |-> c, plan |-> items,
               mode |-> m, todo |-> CloudService, left |-> {}, at |-> 0, there |-> FALSE,
               single |-> \A o \in Ref : ~Active(o)]
         ELSE [run[q] EXCEPT !.single = @ /\ ~Active(q)]]
  BY DEF Begin
<1>2. /\ ~Active(r) /\ started < MaxRuns /\ started' = started + 1 /\ latest' = {r}
      /\ UNCHANGED <<items, cloudVars, revised>>
  BY DEF Begin
<1> DEFINE stage == IF m.image THEN "admit" ELSE "env"
           single == \A o \in Ref : ~Active(o)
           new == [stage |-> stage, commit |-> c, plan |-> items,
                   mode |-> m, todo |-> CloudService, left |-> {}, at |-> 0, there |-> FALSE,
                   single |-> single]
<1>3. DeploymentTypeOK /\ run \in [Ref -> Run]
  BY DEF DeploymentInv, DeploymentTypeOK
<1>4. /\ new \in Run /\ new.stage = stage /\ new.mode = m /\ new.single = single
      /\ new.todo = CloudService
  <2>1. stage \in Stage /\ single \in BOOLEAN /\ m \in Mode
    BY DeploymentAssumption DEF Stage
  <2> HIDE DEF stage, single
  <2> QED BY <1>3, <2>1 DEF Run, DeploymentTypeOK
<1>5. run'[r] = new
  BY <1>1
<1>6. ASSUME NEW q \in Ref \ {r}
      PROVE  run'[q] \in Run /\ run'[q].stage = run[q].stage /\ run'[q].todo = run[q].todo
             /\ run'[q].at = run[q].at
  <2>1. run'[q] = [run[q] EXCEPT !.single = run[q].single /\ ~Active(q)]
    BY <1>1
  <2>2. run[q] \in Run /\ (run[q].single /\ ~Active(q)) \in BOOLEAN
    BY <1>3
  <2> QED BY <2>1, <2>2 DEF Run
<1>7. run' \in [Ref -> Run]
  <2>1. \A q \in Ref : run'[q] \in Run
    <3> HIDE DEF new
    <3> QED BY <1>4, <1>5, <1>6
  <2>2. \E f : run' = [q \in Ref |-> f[q]]
    <3>1. run' = [q \in Ref |-> run'[q]]
      BY <1>1
    <3> QED BY <3>1
  <2> QED BY <2>1, <2>2
<1>8. DeploymentTypeOK'
  BY <1>2, <1>3, <1>7, DeploymentAssumption DEF DeploymentTypeOK, cloudVars
<1>9. Shifting'
  <2>1. ASSUME NEW q \in Ref, run'[q].stage = "shift"
        PROVE  run'[q].todo # {} /\ run'[q].at \in 1 .. Len(revisions'[First(q)'])
    <3>1. q # r
      <4> HIDE DEF new
      <4> QED BY <1>4, <1>5, <2>1 DEF stage
    <3>2. run[q].stage = "shift" /\ First(q)' = First(q) /\ revisions' = revisions
      BY <1>2, <1>6, <2>1, <3>1 DEF First, cloudVars
    <3> QED BY <1>6, <3>1, <3>2 DEF Shifting, DeploymentInv
  <2> QED BY <2>1 DEF Shifting
<1>10. Alone'
  <2>1. ASSUME NEW q \in Ref, run'[q].stage \notin {"idle", "done", "failed"},
               \A o \in latest' : run'[o].single
        PROVE  q \in latest'
    <3>1. single
      <4> HIDE DEF single, new
      <4> QED BY <1>2, <1>4, <1>5, <2>1
    <3>2. q = r
      BY <1>6, <2>1, <3>1 DEF Active
    <3> QED BY <1>2, <3>2
  <2> QED BY <2>1 DEF Alone, Active
<1>11. Undisturbed(r)' => Achieved(r)'
  <2>1. SUFFICES ASSUME Undisturbed(r)' PROVE Achieved(r)'
    OBVIOUS
  <2>2. run'[r].stage = "admit"
    <3>1. m.image
      <4> HIDE DEF new
      <4> QED BY <1>4, <1>5, <2>1 DEF Undisturbed
    <3> QED BY <1>5, <3>1
  <2> QED BY <2>2
          DEF Achieved, Through, PastImage, PastEnv, PastTraffic, PastJobs
<1> QED BY <1>2, <1>8, <1>9, <1>10, <1>11 DEF DeploymentInv

\* A step of one run keeps the invariant if it keeps what that run has achieved.
LEMMA StepKeepsInv ==
  ASSUME DeploymentInv, NEW r \in Ref, Active(r), StepKeeps(r),
         Undisturbed(r) /\ Achieved(r) => Achieved(r)'
  PROVE  DeploymentInv'
<1>1. /\ GoesOn(r) /\ Grows /\ latest' = latest /\ DeploymentTypeOK' /\ DeploymentTypeOK
      /\ run'[r].stage = "shift" =>
           run'[r].todo # {} /\ run'[r].at \in 1 .. Len(revisions'[First(r)'])
  BY DEF StepKeeps, DeploymentInv
<1>2. Shifting'
  <2>1. ASSUME NEW q \in Ref, run'[q].stage = "shift", q # r
        PROVE  run'[q].todo # {} /\ run'[q].at \in 1 .. Len(revisions'[First(q)'])
    <3>1. run'[q] = run[q] /\ First(q)' = First(q)
      BY <1>1, <2>1 DEF GoesOn, First
    <3>2. run[q].todo # {} /\ run[q].at \in 1 .. Len(revisions[First(q)])
      BY <2>1, <3>1 DEF DeploymentInv, Shifting
    <3>3. First(q) \in CloudService
      BY <1>1, <3>2, FirstIsOne DEF DeploymentTypeOK, Run
    <3> QED BY <1>1, <3>1, <3>2, <3>3 DEF Grows
  <2> QED BY <1>1, <2>1 DEF Shifting
<1>3. latest \subseteq Ref /\ \A o, q \in latest : o = q
  BY <1>1 DEF DeploymentTypeOK
<1>4. \A o \in latest : run'[o].single = run[o].single /\ run'[o].mode = run[o].mode
  BY <1>1, <1>3 DEF GoesOn
<1>5. Alone'
  <2>1. \A q \in Ref : Active(q)' => Active(q)
    BY <1>1 DEF GoesOn, Active
  <2> QED BY <1>1, <1>4, <2>1 DEF Alone, DeploymentInv
<1>6. ASSUME NEW o \in latest, Undisturbed(o)' PROVE Achieved(o)'
  <2>1. Undisturbed(o)
    BY <1>4, <1>6 DEF Undisturbed
  <2>2. \A q \in latest : run[q].single
    BY <1>3, <2>1 DEF Undisturbed
  <2>3. r = o
    BY <1>3, <2>2 DEF DeploymentInv, Alone
  <2> QED BY <2>1, <2>3 DEF DeploymentInv
<1> QED BY <1>1, <1>2, <1>5, <1>6 DEF DeploymentInv

LEMMA DeploymentInvStep == DeploymentInv /\ [DeploymentNext]_deploymentVars => DeploymentInv'
<1> SUFFICES ASSUME DeploymentInv, [DeploymentNext]_deploymentVars PROVE DeploymentInv'
  OBVIOUS
<1>0. DeploymentTypeOK /\ Shifting
  BY DEF DeploymentInv
<1>1. ASSUME NEW r \in Ref, Begin(r) PROVE DeploymentInv'
  BY <1>1, BeginKeeps
<1>2. ASSUME NEW r \in Ref, Step(r) PROVE DeploymentInv'
  <2>1. PICK s \in run[r].todo : s = First(r)
    BY <1>2, FirstIsOne DEF Step
  <2>2. s \in CloudService
    BY <1>0 DEF DeploymentTypeOK, Run
  <2>3. Acts(r, s)
    BY <1>2, <2>1 DEF Step, Acts
  <2>4. Undisturbed(r) /\ Achieved(r) => Achieved(r)'
    BY <1>0, <2>1, <2>2, <2>3, ActsAchieve DEF Undisturbed
  <2> QED BY <1>0, <2>1, <2>2, <2>3, <2>4, ActsKeep, StepKeepsInv
<1>3. ASSUME NEW r \in Ref, Fail(r) PROVE DeploymentInv'
  <2>1. /\ Active(r) /\ Fails(r)
        /\ UNCHANGED <<items, cloudVars, started, revised, latest>>
    BY <1>3 DEF Fail
  <2>2. GoesOn(r) /\ run'[r].stage = "failed"
    BY <1>0, <2>1, FailEffect DEF DeploymentTypeOK
  <2>3. Grows
    BY <1>0, <2>1, SameGrows DEF cloudVars
  <2>4. DeploymentTypeOK'
    BY <1>0, <2>1, <2>2, <2>3, TypeKept DEF DeploymentTypeOK, GoesOn, cloudVars
  <2>5. StepKeeps(r)
    BY <2>1, <2>2, <2>3, <2>4 DEF StepKeeps
  <2> QED BY <2>1, <2>2, <2>5, FailedAchieved, StepKeepsInv
<1>4. ASSUME UNCHANGED <<cloudVars, run, latest>>, DeploymentTypeOK' PROVE DeploymentInv'
  <2>1. ASSUME NEW r \in latest, Achieved(r) PROVE Achieved(r)'
    <3>1. /\ revisions' = revisions /\ traffic' = traffic /\ jobs' = jobs
          /\ retired' = retired /\ run' = run
      BY <1>4 DEF cloudVars
    <3>2. First(r)' = First(r)
      BY <3>1 DEF First
    <3>3. \A s \in CloudService : Newest(s)' = Newest(s)
      BY <3>1 DEF Newest
    <3> QED BY <2>1, <3>1, <3>2, <3>3 DEF Achieved, Through, Right, Routed, Settled
  <2>2. Shifting' /\ Alone' /\ \A r \in latest : Undisturbed(r)' => Undisturbed(r)
    BY <1>4 DEF DeploymentInv, Shifting, Alone, Active, Undisturbed, First, cloudVars
  <2> QED BY <1>4, <2>1, <2>2 DEF DeploymentInv
<1>5. ASSUME NEW s \in CloudService, EditItem(s) PROVE DeploymentInv'
  <2>1. /\ UNCHANGED <<cloudVars, run, started, latest>>
        /\ revised < MaxRevised /\ revised' = revised + 1
        /\ \E i \in Item : items' = [items EXCEPT ![s] = i]
    BY <1>5 DEF EditItem
  <2>2. DeploymentTypeOK'
    BY <1>0, <2>1, DeploymentAssumption DEF DeploymentTypeOK, cloudVars
  <2> QED BY <1>4, <2>1, <2>2
<1>6. CASE UNCHANGED deploymentVars
  <2>1. DeploymentTypeOK'
    BY <1>0, <1>6 DEF deploymentVars, DeploymentTypeOK
  <2> QED BY <1>4, <1>6, <2>1 DEF deploymentVars, cloudVars
<1> QED BY <1>1, <1>2, <1>3, <1>5, <1>6 DEF DeploymentNext

\* What requests reach once the traffic is where it is to be.
LEMMA PinnedServes ==
  ASSUME DeploymentTypeOK, NEW r \in Ref, Pinned(r), NEW s \in CloudService
  PROVE  Serving(s).env = run[r].plan[s] /\ Serving(s).commit = run[r].commit
<1>1. Routed(r, s) /\ Newest(s).ready
  BY DEF Pinned
<1>2. CASE traffic[s] = 0
  <2>1. /\ Len(revisions[s]) \in Nat \ {0} /\ Newest(s) = revisions[s][Len(revisions[s])]
        /\ Ready(s) \subseteq 1 .. Len(revisions[s]) /\ Len(revisions[s]) \in Ready(s)
    BY <1>1, NewestIsOne DEF Ready
  <2>2. /\ Last(Ready(s)) \in 1 .. Len(revisions[s])
        /\ Len(revisions[s]) <= Last(Ready(s))
    <3>1. Ready(s) # {} /\ Len(revisions[s]) \in Nat
      BY <2>1
    <3> QED BY <2>1, <3>1, LastIsLast
  <2>3. Last(Ready(s)) = Len(revisions[s])
    BY <2>1, <2>2
  <2> QED BY <1>2, <2>1, <2>3 DEF Serving, Reached, Pinned
<1>3. CASE traffic[s] # 0
  BY <1>1, <1>3 DEF Serving, Reached, Right, Routed
<1> QED BY <1>2, <1>3

LEMMA DeploymentInvImplies == DeploymentInv => SuccessMeansDeployed
<1> SUFFICES ASSUME DeploymentInv, NEW r \in latest, run[r].stage = "done", Undisturbed(r),
                    NEW s \in CloudService
             PROVE  /\ Serving(s).env = run[r].plan[s] /\ Serving(s).commit = run[r].commit
                    /\ \A j \in Job :
                         jobs[s][j] = IF run[r].plan[s].switch # "off" /\ run[r].plan[s].permits
                                      THEN "enabled" ELSE "paused"
  BY DEF SuccessMeansDeployed
<1>1. r \in Ref /\ Achieved(r) /\ DeploymentTypeOK
  BY DEF DeploymentInv, DeploymentTypeOK
<1>2. Pinned(r)
  BY <1>1 DEF Pinned, Achieved, Through, PastTraffic, PastEnv, PastImage
<1>3. \A j \in Job : Settled(r, s, j)
  BY <1>1 DEF Achieved, Through, PastJobs
<1> QED BY <1>1, <1>2, <1>3, PinnedServes DEF Settled, Standard, On

LEMMA ResumedStep ==
  ASSUME DeploymentInv, DeploymentNext, NEW s \in CloudService, NEW j \in Job,
         jobs[s][j] = "paused", jobs'[s][j] = "enabled", \A r \in latest : Undisturbed(r)
  PROVE  Serving(s).env.switch # "off" /\ Serving(s).env.permits
<1>0. DeploymentTypeOK
  BY DEF DeploymentInv
<1>1. jobs' # jobs
  OBVIOUS
<1>2. PICK r \in Ref : Step(r)
  BY <1>1 DEF DeploymentNext, Begin, Fail, EditItem, cloudVars
<1>3. PICK f \in run[r].todo : f = First(r)
  BY <1>2, FirstIsOne DEF Step
<1>4. f \in CloudService
  BY <1>0 DEF DeploymentTypeOK, Run
<1>5. PICK i \in Job : EnsureJob(r, f, i) \/ SettleJob(r, f, i)
  BY <1>1, <1>2, <1>3 DEF Step, Admit, DeployImage, AwaitCommit, SyncEnv, Revise, Resolve,
                          Shift, VerifyMounts, RetireJobs, RemoveRelics, cloudVars
<1>6. SettleJob(r, f, i) /\ s = f /\ j = i
  <2>1. ASSUME EnsureJob(r, f, i) PROVE FALSE
    BY <1>0, <1>4, <2>1 DEF EnsureJob, DeploymentTypeOK
  <2>2. SettleJob(r, f, i)
    BY <1>5, <2>1
  <2> QED BY <1>0, <1>4, <2>2, SettleJobEffect
<1>7. run[r].stage = "settle" /\ Standard(run[r].plan[s])
  BY <1>0, <1>4, <1>6, SettleJobEffect
<1>8. Active(r) /\ r \in latest
  BY <1>7 DEF Active, Alone, DeploymentInv, Undisturbed
<1>9. Pinned(r)
  BY <1>7, <1>8 DEF DeploymentInv, Pinned, Achieved, Through, PastTraffic, PastEnv, PastImage
<1> QED BY <1>0, <1>7, <1>9, PinnedServes DEF Standard, On

\* A run of the deployment workflow that did both its parts, ended in success and met no
\* other ref's run left every service serving the environment and the image it planned,
\* wherever the traffic was before, and its Scheduler jobs enabled exactly for enabled,
\* permitted items (the steps of sync-cloud-run-env.yml, reconcile_cloud_runtime.py).
THEOREM SuccessAlwaysMeansDeployed == DeploymentSpec => [](DeploymentTypeOK /\ SuccessMeansDeployed)
<1>1. DeploymentInv => DeploymentTypeOK
  BY DEF DeploymentInv
<1> QED BY <1>1, DeploymentInvInit, DeploymentInvStep, DeploymentInvImplies, PTL
        DEF DeploymentSpec

\* A Scheduler job is resumed only when the revision that serves the traffic is already of
\* an environment that may trade (the order of the workflow's traffic and Scheduler steps).
THEOREM ResumedAlwaysBehindTraffic == DeploymentSpec => ResumedBehindTraffic
<1>1. DeploymentInv /\ [DeploymentNext]_deploymentVars =>
        [\A s \in CloudService, j \in Job :
           Resumes(s, j) /\ (\A r \in latest : Undisturbed(r))
             => Serving(s).env.switch # "off" /\ Serving(s).env.permits]_deploymentVars
  BY ResumedStep DEF Resumes
<1> QED BY <1>1, DeploymentInvInit, DeploymentInvStep, PTL DEF DeploymentSpec, ResumedBehindTraffic
=============================================================================
