------------------------ MODULE CameraService_proofs ------------------------
(***************************************************************************)
(* Proofs about CameraService for every number of cameras, workers, tracks *)
(* and detections.                                                         *)
(***************************************************************************)
EXTENDS CameraService, FiniteSetTheorems, SequenceTheorems, TLAPS

Detections == [worker : Workers, track : Tracks \cup {None}, kind : {"breach", "loitering", "other"}]

\* The shape of what the workers' threads, the registry and the log hold, and
\* where a capture may be open.
TypeOK ==
  /\ registry \in [Cameras -> Workers \cup {None}]
  /\ running \in [Workers -> BOOLEAN] /\ cap \in [Workers -> BOOLEAN]
  /\ pc \in [Workers -> {"new", "opening", "read", "analyse", "post", "sending", "ended"}]
  /\ breach \in [Workers -> SUBSET Tracks] /\ loitering \in [Workers -> SUBSET Tracks]
  /\ log \in Seq(Detections) /\ todo \in [Workers -> Seq(Nat)]

Roomy ==
  \A w \in Workers :
    /\ Len(todo[w]) <= Len(log)
    /\ pc[w] \in {"post", "sending"} => todo[w] # <<>>
    /\ pc[w] \in {"new", "opening", "read", "ended"} => todo[w] = <<>>
    /\ cap[w] => pc[w] \in {"read", "analyse", "post", "sending"}

IInv == TypeOK /\ Len(log) <= MaxDetections /\ Roomy /\ RunningIsRegistered

-----------------------------------------------------------------------------
\* SetToSeq lists a finite set.
LEMMA SetToSeqLists ==
  ASSUME NEW S, IsFiniteSet(S)
  PROVE  /\ SetToSeq(S) \in Seq(S)
         /\ \A i, j \in DOMAIN SetToSeq(S) : SetToSeq(S)[i] = SetToSeq(S)[j] => i = j
<1> DEFINE n == Cardinality(S)
<1>1. n \in Nat /\ ExistsBijection(1..n, S)
  BY FS_CardinalityType
<1>2. PICK f \in [1..n -> S] : IsInjective(f)
  BY <1>1 DEF ExistsBijection, Bijection, Injection
<1>3. SetToSeq(S) \in [1..n -> S] /\ IsInjective(SetToSeq(S))
  BY <1>2 DEF SetToSeq
<1>4. QED
  BY <1>1, <1>3 DEF IsInjective

\* The detections of one kind that a frame adds.
LEMMA FoundOfKind ==
  ASSUME NEW w \in Workers, NEW T \in SUBSET Tracks, NEW kind \in {"breach", "loitering", "other"}
  PROVE  /\ SetToSeq({Detection(w, t, kind) : t \in T}) \in Seq({Detection(w, t, kind) : t \in T})
         /\ SetToSeq({Detection(w, t, kind) : t \in T}) \in Seq(Detections)
         /\ \A i, j \in DOMAIN SetToSeq({Detection(w, t, kind) : t \in T}) :
              SetToSeq({Detection(w, t, kind) : t \in T})[i] = SetToSeq({Detection(w, t, kind) : t \in T})[j] => i = j
<1> DEFINE S == {Detection(w, t, kind) : t \in T}
           f == [t \in T |-> Detection(w, t, kind)]
<1>1. IsFiniteSet(T)
  BY FS_Subset, CameraAssumption
<1>2. f \in Surjection(T, S)
  BY DEF Surjection
<1>3. IsFiniteSet(S)
  BY <1>1, <1>2, FS_Surjection
<1>4. S \subseteq Detections
  BY DEF Detection, Detections
<1>5. /\ SetToSeq(S) \in Seq(S)
      /\ \A i, j \in DOMAIN SetToSeq(S) : SetToSeq(S)[i] = SetToSeq(S)[j] => i = j
  BY <1>3, SetToSeqLists
<1>6. \A s \in Seq(S) : s \in Seq(Detections)
  BY <1>4
<1>7. QED
  BY <1>5, <1>6

\* What a frame on which YOLO failed adds to the log.
LEMMA DroppedFrame ==
  ASSUME log \in Seq(Detections), Len(log) <= MaxDetections,
         NEW w \in Workers, NEW other \in Others, YoloFails(w, other)
  PROVE  /\ log' \in Seq(Detections) /\ Len(log') \in Nat
         /\ Len(log) <= Len(log') /\ Len(log') <= MaxDetections
         /\ DOMAIN log \subseteq DOMAIN log' /\ gone' = gone \cup (DOMAIN log' \ DOMAIN log)
         /\ \A i \in DOMAIN log : log'[i] = log[i]
         /\ \A i \in DOMAIN log' : i \in DOMAIN log \/ log'[i].kind = "other"
<1> DEFINE d == Detection(w, None, "other")
<1>1. d \in Detections /\ d.kind = "other"
  BY DEF Detection, Detections
<1>2. CASE other
  <2>1. log' = Append(log, d) /\ Len(log) < MaxDetections
    BY <1>2 DEF YoloFails
  <2> HIDE DEF d, Detections
  <2>2. log' \in Seq(Detections) /\ Len(log') = Len(log) + 1 /\ Len(log) \in Nat
    BY <1>1, <2>1
  <2>3. /\ DOMAIN log \subseteq DOMAIN log' /\ \A i \in DOMAIN log : log'[i] = log[i]
        /\ \A i \in DOMAIN log' : i \in DOMAIN log \/ log'[i] = d
    BY <1>1, <2>1
  <2>4. QED
    BY <1>1, <2>1, <2>2, <2>3, CameraAssumption DEF YoloFails
<1>3. CASE ~other
  BY <1>3 DEF YoloFails
<1>4. QED
  BY <1>2, <1>3

\* What Found adds, and what it leaves of the shape.
LEMMA FoundShape ==
  ASSUME IInv, NEW w \in Workers, NEW found \in Seq(Detections), Found(w, found)
  PROVE  /\ log' \in Seq(Detections) /\ Len(log') <= MaxDetections /\ Len(log') = Len(log) + Len(found)
         /\ todo' \in [Workers -> Seq(Nat)]
         /\ Len(todo'[w]) = Len(todo[w]) + Len(found)
         /\ \A v \in Workers \ {w} : todo'[v] = todo[v]
         /\ \A v \in Workers : Len(todo'[v]) <= Len(log')
<1> USE DEF IInv, TypeOK, Found
<1> DEFINE ids == [i \in 1..Len(found) |-> Len(log) + i]
<1>1. ids \in Seq(Nat) /\ Len(ids) = Len(found)
  OBVIOUS
<1>2. todo[w] \o ids \in Seq(Nat) /\ Len(todo[w] \o ids) = Len(todo[w]) + Len(found)
  BY <1>1, ConcatProperties
<1>3. todo' = [todo EXCEPT ![w] = todo[w] \o ids]
  OBVIOUS
<1>4. log \o found \in Seq(Detections) /\ Len(log \o found) = Len(log) + Len(found)
  BY ConcatProperties
<1>5. ASSUME NEW v \in Workers
      PROVE  Len(todo'[v]) <= Len(log')
  <2>1. Len(todo[v]) \in Nat /\ Len(log) \in Nat /\ Len(found) \in Nat /\ Len(todo[v]) <= Len(log)
    BY DEF Roomy
  <2>2. Len(log') = Len(log) + Len(found)
    BY <1>4
  <2>3. CASE v = w
    BY <1>2, <1>3, <2>1, <2>2, <2>3
  <2>4. CASE v # w
    BY <1>3, <2>1, <2>2, <2>4
  <2>5. QED
    BY <2>3, <2>4
<1>6. QED
  BY <1>2, <1>3, <1>4, <1>5

LEMMA InvInit == Init => IInv
<1> SUFFICES ASSUME Init PROVE IInv
  OBVIOUS
<1>1. TypeOK /\ Len(log) <= MaxDetections
  BY CameraAssumption DEF Init, TypeOK
<1>2. Roomy /\ RunningIsRegistered
  BY DEF Init, Roomy, RunningIsRegistered
<1>3. QED
  BY <1>1, <1>2 DEF IInv

\* A step of a worker's thread.
LEMMA ThreadKeepsInv ==
  ASSUME IInv, NEW w \in Workers, ThreadStep(w)
  PROVE  IInv'
<1> USE DEF IInv, TypeOK, Roomy
<1>1. RunningIsRegistered'
  BY DEF ThreadStep, Open, Release, Post, Sent, SendFails, Returned, Raises, Frame, YoloFails, Analyse, RunningIsRegistered
<1>2. CASE Open(w) \/ Release(w)
  BY <1>1, <1>2 DEF Open, Release, Again, trackVars, postVars, pastVars
<1>3. CASE Post(w) \/ Sent(w) \/ SendFails(w)
  <2> DEFINE rest == Tail(todo[w])
  <2>1. todo[w] # <<>> /\ pc[w] \in {"post", "sending"} /\ cap' = cap /\ log' = log
        /\ UNCHANGED <<registry, running, trackVars>>
    BY <1>3 DEF Post, Sent, SendFails, Returned, trackVars
  <2>2. rest \in Seq(Nat) /\ Len(rest) = Len(todo[w]) - 1
    BY <2>1
  <2>3. \/ todo' = [todo EXCEPT ![w] = rest] /\ pc' = [pc EXCEPT ![w] = After(todo'[w])]
        \/ todo' = todo /\ pc' = [pc EXCEPT ![w] = "sending"]
    BY <1>3 DEF Post, Sent, SendFails, Returned
  <2>4. TypeOK'
    BY <2>1, <2>2, <2>3 DEF After, trackVars
  <2>5. CASE todo' = [todo EXCEPT ![w] = rest] /\ pc' = [pc EXCEPT ![w] = After(todo'[w])]
    <3>1. todo'[w] = rest /\ pc'[w] = (IF rest = <<>> THEN "read" ELSE "post")
      BY <2>5 DEF After
    <3>2. Len(rest) <= Len(log)
      BY <2>2
    <3>3. ASSUME NEW v \in Workers, v # w
          PROVE  todo'[v] = todo[v] /\ pc'[v] = pc[v]
      BY <2>5, <3>3
    <3>4. QED
      BY <1>1, <2>1, <2>4, <3>1, <3>2, <3>3
  <2>6. CASE todo' = todo /\ pc' = [pc EXCEPT ![w] = "sending"]
    BY <1>1, <2>1, <2>4, <2>6
  <2>7. QED
    BY <2>3, <2>5, <2>6
<1>4. ASSUME NEW restricted \in SUBSET Tracks, NEW other \in Others, Frame(w, restricted, other)
      PROVE  IInv'
  <2> DEFINE breaches == SetToSeq({Detection(w, t, "breach") : t \in restricted \ breach[w]})
             found == breaches \o IF other THEN <<Detection(w, None, "other")>> ELSE <<>>
  <2>1. Detection(w, None, "other") \in Detections
    BY DEF Detection, Detections
  <2>2. breaches \in Seq(Detections)
    BY FoundOfKind
  <2>3. found \in Seq(Detections)
    BY <2>1, <2>2, ConcatProperties
  <2>4. Found(w, found)
    BY <1>4 DEF Frame
  <2>5. /\ log' \in Seq(Detections) /\ Len(log') <= MaxDetections /\ Len(log') = Len(log) + Len(found)
        /\ todo' \in [Workers -> Seq(Nat)]
        /\ Len(todo'[w]) = Len(todo[w]) + Len(found)
        /\ \A v \in Workers \ {w} : todo'[v] = todo[v]
        /\ \A v \in Workers : Len(todo'[v]) <= Len(log')
    BY <2>3, <2>4, FoundShape
  <2>6. /\ pc' = [pc EXCEPT ![w] = "analyse"] /\ breach' = [breach EXCEPT ![w] = @ \cup restricted]
        /\ UNCHANGED <<registry, running, cap, loitering>>
    BY <1>4 DEF Frame
  <2>7. TypeOK'
    BY <2>5, <2>6
  <2>8. QED
    BY <1>1, <2>5, <2>6, <2>7
<1>5. ASSUME NEW seen \in SUBSET Tracks, NEW standing \in SUBSET seen, Analyse(w, seen, standing)
      PROVE  IInv'
  <2> DEFINE known == [t \in Tracks |-> IF t \in seen /\ entries[w][t] = None THEN lastFrame[w] ELSE entries[w][t]]
             loiterers == {t \in standing \ loitering[w] : lastFrame[w] - known[t] > LoiteringThreshold}
             found == SetToSeq({Detection(w, t, "loitering") : t \in loiterers})
  <2>1. found \in Seq(Detections)
    BY FoundOfKind
  <2>2. Found(w, found) /\ loitering' = [loitering EXCEPT ![w] = @ \cup loiterers]
    BY <1>5 DEF Analyse
  <2>3. /\ log' \in Seq(Detections) /\ Len(log') <= MaxDetections /\ Len(log') = Len(log) + Len(found)
        /\ todo' \in [Workers -> Seq(Nat)]
        /\ Len(todo'[w]) = Len(todo[w]) + Len(found)
        /\ \A v \in Workers \ {w} : todo'[v] = todo[v]
        /\ \A v \in Workers : Len(todo'[v]) <= Len(log')
    BY <2>1, <2>2, FoundShape
  <2>4. /\ pc[w] = "analyse" /\ pc' = [pc EXCEPT ![w] = IF todo'[w] = <<>> THEN "read" ELSE "post"]
        /\ UNCHANGED <<registry, running, cap, breach>>
    BY <1>5 DEF Analyse, After
  <2>5. TypeOK'
    BY <2>2, <2>3, <2>4
  <2>6. QED
    BY <1>1, <2>3, <2>4, <2>5
<1>6. ASSUME NEW other \in Others, YoloFails(w, other)
      PROVE  IInv'
  <2>1. UNCHANGED <<registry, running, cap, pc, breach, loitering, todo>>
    BY <1>6 DEF YoloFails, trackVars, postVars
  <2>2. /\ log' \in Seq(Detections) /\ Len(log') \in Nat
        /\ Len(log) <= Len(log') /\ Len(log') <= MaxDetections
    BY <1>6, DroppedFrame
  <2>3. \A v \in Workers : Len(todo'[v]) <= Len(log')
    <3>1. \A v \in Workers : Len(todo[v]) \in Nat /\ Len(todo[v]) <= Len(log) /\ Len(log) \in Nat
      OBVIOUS
    <3>2. QED
      BY <2>1, <2>2, <3>1
  <2>4. QED
    BY <1>1, <2>1, <2>2, <2>3
<1>7. CASE Raises(w)
  <2>1. /\ todo' = [todo EXCEPT ![w] = <<>>] /\ cap' = [cap EXCEPT ![w] = FALSE]
        /\ pc' = [pc EXCEPT ![w] = IF running[w] THEN "opening" ELSE "ended"]
        /\ UNCHANGED <<registry, running, breach, loitering, log>>
    BY <1>7 DEF Raises, Again, trackVars
  <2>2. TypeOK'
    BY <2>1
  <2>3. Len(<<>>) = 0 /\ Len(log) \in Nat
    OBVIOUS
  <2>4. Roomy'
    BY <2>1, <2>3
  <2>5. QED
    BY <1>1, <2>1, <2>2, <2>4
<1>8. QED
  BY <1>2, <1>3, <1>4, <1>5, <1>6, <1>7 DEF ThreadStep

\* A step of the other threads, of a request or of the clock.
LEMMA StepKeepsInv == IInv /\ [Next]_vars => IInv'
<1> SUFFICES ASSUME IInv, [Next]_vars
             PROVE  IInv'
  OBVIOUS
<1> USE DEF IInv, TypeOK, Roomy, RunningIsRegistered
<1>1. CASE \E w \in Workers : ThreadStep(w)
  BY <1>1, ThreadKeepsInv
<1>2. ASSUME NEW w \in Workers, CleanEntries(w)
      PROVE  IInv'
  <2>1. UNCHANGED <<registry, running, cap, pc, log, todo, breach, loitering>>
    BY <1>2 DEF CleanEntries, workerVars, postVars, pastVars
  <2>2. QED
    BY <2>1
<1>8. ASSUME NEW w \in Workers, CleanReports(w)
      PROVE  IInv'
  <2> DEFINE left(reported) == {t \in reported : ~Stale(entries[w][t], cleaner.cutoff)}
  <2>1. UNCHANGED <<registry, running, cap, pc, log, todo>>
    BY <1>8 DEF CleanReports, workerVars, postVars, pastVars
  <2>2. loitering' = [loitering EXCEPT ![w] = left(loitering[w])] /\ breach' = [breach EXCEPT ![w] = left(breach[w])]
    BY <1>8 DEF CleanReports
  <2>3. left(loitering[w]) \in SUBSET Tracks /\ left(breach[w]) \in SUBSET Tracks
    OBVIOUS
  <2>4. breach' \in [Workers -> SUBSET Tracks] /\ loitering' \in [Workers -> SUBSET Tracks]
    BY <2>2, <2>3
  <2>5. QED
    BY <2>1, <2>4
<1>3. ASSUME NEW c \in Cameras, RemoveCamera(c)
      PROVE  IInv'
  <2>1. UNCHANGED <<pc, log, todo, breach, loitering>>
    BY <1>3 DEF RemoveCamera, trackVars, postVars, pastVars
  <2>2. /\ running' = [w \in Workers |-> running[w] /\ w # registry[c]]
        /\ cap' = [w \in Workers |-> cap[w] /\ w # registry[c]]
        /\ registry' = [registry EXCEPT ![c] = None]
    BY <1>3 DEF RemoveCamera, Stopped
  <2>3. ASSUME NEW w \in Workers, running'[w]
        PROVE  \E d \in Cameras : registry'[d] = w
    BY <2>2, <2>3
  <2>4. TypeOK' /\ Roomy'
    BY <2>1, <2>2
  <2>5. QED
    BY <2>1, <2>3, <2>4
<1>4. ASSUME NEW c \in Cameras, NEW w \in Workers, AddCamera(c, w)
      PROVE  IInv'
  <2>1. UNCHANGED <<log, todo, breach, loitering>> /\ pc[w] = "new"
    BY <1>4 DEF AddCamera, trackVars, postVars, pastVars
  <2>2. /\ running' = [v \in Workers |-> v = w \/ (running[v] /\ v # registry[c])]
        /\ cap' = [v \in Workers |-> cap[v] /\ v # registry[c]]
        /\ registry' = [registry EXCEPT ![c] = w] /\ pc' = [pc EXCEPT ![w] = "opening"]
    BY <1>4 DEF AddCamera
  <2>3. ASSUME NEW v \in Workers, running'[v]
        PROVE  \E d \in Cameras : registry'[d] = v
    <3>1. CASE v = w
      BY <2>2, <3>1
    <3>2. CASE v # w
      <4>1. running[v] /\ v # registry[c]
        BY <2>2, <2>3, <3>2
      <4>2. PICK d \in Cameras : registry[d] = v
        BY <4>1
      <4>3. QED
        BY <2>2, <4>1, <4>2
    <3>3. QED
      BY <3>1, <3>2
  <2>4. TypeOK' /\ Roomy'
    BY <2>1, <2>2
  <2>5. QED
    BY <2>1, <2>3, <2>4
<1>5. CASE CleanupEnds
  <2>1. UNCHANGED <<pc, log, todo, breach, loitering>>
    BY <1>5 DEF CleanupEnds, trackVars, postVars, pastVars
  <2>2. /\ running' = [w \in Workers |-> running[w] /\ w \notin cleaner.stale]
        /\ cap' = [w \in Workers |-> cap[w] /\ w \notin cleaner.stale]
        /\ registry' = [c \in Cameras |-> IF registry[c] \in cleaner.stale THEN None ELSE registry[c]]
    BY <1>5 DEF CleanupEnds, Stopped
  <2>3. TypeOK' /\ Roomy'
    BY <2>1, <2>2
  <2>4. ASSUME NEW w \in Workers, running'[w]
        PROVE  \E c \in Cameras : registry'[c] = w
    BY <2>2, <2>4
  <2>5. QED
    BY <2>1, <2>3, <2>4
<1>6. CASE RetryTake \/ RetrySent \/ RetryFails \/ CleanupStarts \/ Tick \/ UNCHANGED vars
  <2>1. UNCHANGED <<registry, running, cap, pc, log, todo, breach, loitering>>
    BY <1>6 DEF RetryTake, RetrySent, RetryFails, CleanupStarts, Tick, vars, workerVars, trackVars, postVars, pastVars
  <2>2. QED
    BY <2>1
<1>7. QED
  BY <1>1, <1>2, <1>3, <1>4, <1>5, <1>6, <1>8 DEF Next

THEOREM InvariantHolds == Spec => []IInv
<1>1. QED
  BY InvInit, StepKeepsInv, PTL DEF Spec

\* Whoever adds, replaces, removes and finds stale whatever cameras: every
\* worker that runs is the registered one of a camera.
THEOREM Reachable == Spec => []RunningIsRegistered
<1>1. IInv => RunningIsRegistered
  BY DEF IInv
<1>2. QED
  BY <1>1, InvariantHolds, PTL

LEMMA TailShorter ==
  ASSUME NEW s \in Seq(Nat), s # <<>>
  PROVE  Len(s) \in Nat \ {0} /\ Tail(s) \in Seq(Nat) /\ Len(Tail(s)) = Len(s) - 1
<1>1. QED
  BY EmptySeq, HeadTailProperties

\* A thread that takes a step of a worker that is not registered is at its end
\* or nearer to it.
LEMMA ThreadWindsDown ==
  ASSUME IInv, IInv', NEW w \in Workers, ThreadStep(w), ~running[w]
  PROVE  /\ StepsLeft(w)' < StepsLeft(w)
         /\ pc'[w] = "ended" => ~cap'[w]
<1> USE DEF IInv, TypeOK, Roomy
<1> DEFINE n == Len(todo[w])
<1>1. n \in Nat /\ n <= MaxDetections /\ Len(todo'[w]) \in Nat /\ Len(todo'[w]) <= MaxDetections /\ MaxDetections \in Nat
  BY CameraAssumption
<1>9. todo[w] # <<>> => n > 0 /\ Len(Tail(todo[w])) = n - 1
  <2>1. todo[w] \in Seq(Nat)
    OBVIOUS
  <2>2. QED
    BY <2>1, TailShorter
<1>2. CASE Open(w)
  <2>1. pc[w] = "opening" /\ pc'[w] \in {"read", "ended"}
    BY <1>2 DEF Open, Again
  <2>2. QED
    BY <2>1 DEF StepsLeft
<1>3. CASE Release(w)
  <2>1. pc[w] = "read" /\ pc'[w] = "ended"
    BY <1>3 DEF Release, Again
  <2>2. StepsLeft(w) = 1 /\ StepsLeft(w)' = 0
    BY <2>1 DEF StepsLeft
  <2>3. ~cap'[w]
    BY <2>1
  <2>4. QED
    BY <2>2, <2>3
<1>4. CASE Post(w)
  <2>0. pc[w] = "post" /\ todo[w] # <<>>
    BY <1>4 DEF Post
  <2>1. pc[w] = "post" /\ n > 0
    BY <2>0, <1>9
  <2>2. CASE todo' = [todo EXCEPT ![w] = Tail(@)] /\ pc' = [pc EXCEPT ![w] = After(todo'[w])]
    <3>1. Len(todo'[w]) = n - 1 /\ pc'[w] = (IF todo'[w] = <<>> THEN "read" ELSE "post")
      BY <2>0, <2>2, <1>9 DEF After
    <3>2. QED
      BY <1>1, <2>1, <3>1 DEF StepsLeft
  <2>3. CASE todo' = todo /\ pc' = [pc EXCEPT ![w] = "sending"]
    BY <1>1, <2>1, <2>3 DEF StepsLeft
  <2>4. QED
    BY <1>4, <2>2, <2>3 DEF Post
<1>5. CASE Sent(w) \/ SendFails(w)
  <2>1. /\ pc[w] = "sending" /\ todo[w] # <<>>
        /\ todo' = [todo EXCEPT ![w] = Tail(@)] /\ pc' = [pc EXCEPT ![w] = After(todo'[w])]
    BY <1>5 DEF Sent, SendFails, Returned
  <2>2. Len(todo'[w]) = n - 1 /\ pc'[w] = (IF todo'[w] = <<>> THEN "read" ELSE "post")
    BY <2>1, <1>9 DEF After
  <2>3. QED
    BY <1>1, <1>9, <2>1, <2>2 DEF StepsLeft
<1>6. ASSUME NEW restricted \in SUBSET Tracks, NEW other \in Others, Frame(w, restricted, other)
      PROVE  FALSE
  BY <1>6 DEF Frame
<1>7. ASSUME NEW seen \in SUBSET Tracks, NEW standing \in SUBSET seen, Analyse(w, seen, standing)
      PROVE  StepsLeft(w)' < StepsLeft(w) /\ pc'[w] # "ended"
  <2>1. pc[w] = "analyse" /\ pc'[w] = (IF todo'[w] = <<>> THEN "read" ELSE "post")
    BY <1>7 DEF Analyse, After
  <2>2. QED
    BY <1>1, <2>1 DEF StepsLeft
<1>8. ASSUME NEW other \in Others, YoloFails(w, other)
      PROVE  FALSE
  BY <1>8 DEF YoloFails
<1>10. CASE Raises(w)
  <2>1. pc[w] \in {"analyse", "post", "sending"} /\ pc'[w] = "ended" /\ ~cap'[w]
    BY <1>10 DEF Raises, Again
  <2>2. pc[w] = "sending" => n > 0
    BY <1>9
  <2>3. QED
    BY <1>1, <2>1, <2>2 DEF StepsLeft
<1>11. QED
  BY <1>2, <1>3, <1>4, <1>5, <1>6, <1>7, <1>8, <1>10 DEF ThreadStep

LEMMA StepWindsDown ==
  ASSUME IInv, IInv', [Next]_vars, NEW w \in Workers, Unregistered(w), Unregistered(w)'
  PROVE  /\ <<pc[w], todo[w]>>' # <<pc[w], todo[w]>> => StepsLeft(w)' < StepsLeft(w)
         /\ pc'[w] = "ended" => ~cap'[w]
<1>1. pc'[w] = "ended" => ~cap'[w]
  BY DEF IInv, Roomy
<1>2. ~running[w]
  BY DEF IInv, RunningIsRegistered, Unregistered
<1>3. CASE ThreadStep(w)
  BY <1>1, <1>2, <1>3, ThreadWindsDown
<1>4. ASSUME NEW v \in Workers, v # w, ThreadStep(v)
      PROVE  pc'[w] = pc[w] /\ todo'[w] = todo[w]
  <2>1. pc \in [Workers -> {"new", "opening", "read", "analyse", "post", "sending", "ended"}] /\ todo \in [Workers -> Seq(Nat)]
    BY DEF IInv, TypeOK
  <2>2. CASE Open(v) \/ Release(v)
    BY <1>4, <2>1, <2>2 DEF Open, Release, postVars
  <2>3. CASE Post(v) \/ Sent(v) \/ SendFails(v)
    <3>1. /\ pc' \in {[pc EXCEPT ![v] = "sending"], [pc EXCEPT ![v] = After(todo'[v])]}
          /\ todo' \in {todo, [todo EXCEPT ![v] = Tail(todo[v])]}
      BY <2>3 DEF Post, Sent, SendFails, Returned
    <3>2. QED
      BY <1>4, <2>1, <3>1
  <2>4. ASSUME NEW restricted \in SUBSET Tracks, NEW other \in Others, Frame(v, restricted, other)
        PROVE  pc'[w] = pc[w] /\ todo'[w] = todo[w]
    BY <1>4, <2>1, <2>4 DEF Frame, Found
  <2>5. ASSUME NEW seen \in SUBSET Tracks, NEW standing \in SUBSET seen, Analyse(v, seen, standing)
        PROVE  pc'[w] = pc[w] /\ todo'[w] = todo[w]
    BY <1>4, <2>1, <2>5 DEF Analyse, Found
  <2>6. CASE Raises(v) \/ \E other \in Others : YoloFails(v, other)
    BY <1>4, <2>1, <2>6 DEF Raises, YoloFails, postVars
  <2>7. QED
    BY <1>4, <2>2, <2>3, <2>4, <2>5, <2>6 DEF ThreadStep
<1>5. ASSUME NEW c \in Cameras, NEW v \in Workers, AddCamera(c, v)
      PROVE  pc'[w] = pc[w] /\ todo'[w] = todo[w]
  <2>1. pc[v] = "new" /\ pc[w] # "new" /\ pc' = [pc EXCEPT ![v] = "opening"] /\ todo' = todo
    BY <1>5 DEF AddCamera, postVars, Unregistered
  <2>2. QED
    BY <2>1
<1>6. CASE \/ \E v \in Workers : CleanEntries(v) \/ CleanReports(v)
           \/ \E c \in Cameras : RemoveCamera(c)
           \/ RetryTake \/ RetrySent \/ RetryFails \/ CleanupStarts \/ CleanupEnds \/ Tick \/ UNCHANGED vars
  <2>1. pc' = pc /\ todo' = todo
    BY <1>6 DEF CleanEntries, CleanReports, RemoveCamera, RetryTake, RetrySent, RetryFails, CleanupStarts, CleanupEnds, Tick,
                vars, workerVars, postVars
  <2>2. QED
    BY <1>1, <2>1
<1>7. QED
  BY <1>1, <1>3, <1>4, <1>5, <1>6 DEF Next

\* A worker that was removed, replaced or found stale takes its camera up no
\* more, in whatever step of its thread that came.
THEOREM Removed == Spec => RemovedEnds
<1>1. IInv /\ IInv' /\ [Next]_vars =>
        \A w \in Workers : Unregistered(w) /\ Unregistered(w)' =>
          /\ <<pc[w], todo[w]>>' # <<pc[w], todo[w]>> => StepsLeft(w)' < StepsLeft(w)
          /\ pc'[w] = "ended" => ~cap'[w]
  BY StepWindsDown
<1>2. QED
  BY <1>1, InvariantHolds, PTL DEF Spec, RemovedEnds

-----------------------------------------------------------------------------
(* Nothing is reported twice.                                              *)

\* The time at which things were seen, and the one worker whose entries, but
\* not whose reports, have been cleaned up.
Timely ==
  /\ clock \in Nat /\ lastFrame \in [Workers -> Nat \cup {None}]
  /\ entries \in [Workers -> [Tracks -> Nat \cup {None}]]
  /\ cleaner \in [stage : {"idle", "next", "reports"}, todo : SUBSET Workers, at : Workers \cup {None},
                  cutoff : Int, stale : SUBSET Workers]
  /\ \A w \in Workers : pc[w] = "analyse" => lastFrame[w] \in Nat /\ clock - lastFrame[w] <= EntryStale
  /\ cleaner.stage = "reports" =>
       /\ cleaner.at \in Workers /\ cleaner.cutoff <= clock - EntryStale
       /\ \A t \in Tracks : ~Stale(entries[cleaner.at][t], cleaner.cutoff)

\* What was reported is remembered.
Remembered ==
  \A i \in DOMAIN log :
    /\ log[i].kind = "breach" => log[i].track \in breach[log[i].worker]
    /\ log[i].kind = "loitering" => log[i].track \in loitering[log[i].worker]

OnceInv == IInv /\ Timely /\ Remembered /\ ReportedOnce

Distinct(s) == \A i, j \in DOMAIN s : i # j /\ s[i].kind # "other" => s[i] # s[j]

\* What a worker reports of a kind, if anything, is about the tracks in T, and
\* nothing was reported about them.
News(found, w, T, kind) ==
  \A i \in DOMAIN found : found[i].kind # "other" => found[i] = Detection(w, found[i].track, kind) /\ found[i].track \in T
Unreported(old, w, T, kind) ==
  \A i \in DOMAIN old : old[i].worker = w /\ old[i].kind = kind => old[i].track \notin T

LEMMA ElementsOf ==
  ASSUME NEW S, NEW s \in Seq(S)
  PROVE  \A i \in DOMAIN s : s[i] \in S
OBVIOUS

\* Reports of a kind about tracks that were not reported yet repeat nothing.
LEMMA AddingNews ==
  ASSUME NEW w \in Workers, NEW T \in SUBSET Tracks, NEW kind \in {"breach", "loitering"},
         NEW old \in Seq(Detections), NEW found \in Seq(Detections),
         Distinct(old), Distinct(found), News(found, w, T, kind), Unreported(old, w, T, kind)
  PROVE  Distinct(old \o found)
<1> DEFINE all == old \o found
<1>1. /\ DOMAIN all = 1..(Len(old) + Len(found))
      /\ \A i \in DOMAIN all : \/ i \in DOMAIN old /\ all[i] = old[i]
                               \/ i - Len(old) \in DOMAIN found /\ all[i] = found[i - Len(old)]
      /\ Len(old) \in Nat /\ Len(found) \in Nat
  OBVIOUS
<1>2. ASSUME NEW i \in DOMAIN old, NEW j \in DOMAIN found, old[i].kind # "other" \/ found[j].kind # "other"
      PROVE  old[i] # found[j]
  BY <1>2 DEF Detection, News, Unreported
<1>3. ASSUME NEW i \in DOMAIN all, NEW j \in DOMAIN all, i # j, all[i].kind # "other"
      PROVE  all[i] # all[j]
  <2>1. CASE i \in DOMAIN old /\ all[i] = old[i] /\ j \in DOMAIN old /\ all[j] = old[j]
    BY <1>3, <2>1 DEF Distinct
  <2>2. CASE i \in DOMAIN old /\ all[i] = old[i] /\ j - Len(old) \in DOMAIN found /\ all[j] = found[j - Len(old)]
    BY <1>2, <1>3, <2>2
  <2>3. CASE i - Len(old) \in DOMAIN found /\ all[i] = found[i - Len(old)] /\ j \in DOMAIN old /\ all[j] = old[j]
    BY <1>2, <1>3, <2>3
  <2>4. CASE /\ i - Len(old) \in DOMAIN found /\ all[i] = found[i - Len(old)]
             /\ j - Len(old) \in DOMAIN found /\ all[j] = found[j - Len(old)]
    <3>1. i - Len(old) # j - Len(old)
      BY <1>1, <1>3
    <3>2. QED
      BY <1>3, <2>4, <3>1 DEF Distinct
  <2>5. QED
    BY <1>1, <2>1, <2>2, <2>3, <2>4
<1>4. QED
  BY <1>3 DEF Distinct

LEMMA OnceInit == Init => OnceInv
<1> SUFFICES ASSUME Init PROVE OnceInv
  OBVIOUS
<1>1. IInv
  BY InvInit
<1>2. Timely
  BY CameraAssumption DEF Init, Timely, Idle
<1>3. Remembered /\ ReportedOnce
  BY DEF Init, Remembered, ReportedOnce
<1>4. QED
  BY <1>1, <1>2, <1>3 DEF OnceInv

LEMMA TimelyStep == IInv /\ Timely /\ [Next]_vars => Timely'
<1> SUFFICES ASSUME IInv, Timely, [Next]_vars
             PROVE  Timely'
  OBVIOUS
<1> USE DEF Timely
<1>0. EntryStale \in Nat
  BY CameraAssumption
<1>1. ASSUME NEW w \in Workers, Open(w) \/ Release(w) \/ Post(w) \/ Sent(w) \/ SendFails(w) \/ Raises(w)
      PROVE  Timely'
  <2>1. UNCHANGED <<clock, lastFrame, entries, cleaner>>
    BY <1>1 DEF Open, Release, Post, Sent, SendFails, Returned, Raises, trackVars
  <2>2. ASSUME NEW v \in Workers, pc'[v] = "analyse"
        PROVE  pc[v] = "analyse"
    BY <1>1, <2>2 DEF Open, Release, Post, Sent, SendFails, Returned, Raises, Again, After, IInv, TypeOK
  <2>3. QED
    BY <2>1, <2>2
<1>2. ASSUME NEW w \in Workers, NEW restricted \in SUBSET Tracks, NEW other \in Others, Frame(w, restricted, other)
      PROVE  Timely'
  <2>1. /\ UNCHANGED <<clock, entries, cleaner>>
        /\ lastFrame' = [lastFrame EXCEPT ![w] = clock] /\ pc' = [pc EXCEPT ![w] = "analyse"]
    BY <1>2 DEF Frame
  <2>2. ASSUME NEW v \in Workers, pc'[v] = "analyse"
        PROVE  lastFrame'[v] \in Nat /\ clock' - lastFrame'[v] <= EntryStale
    BY <1>0, <2>1, <2>2 DEF IInv, TypeOK
  <2>3. QED
    BY <2>1, <2>2
<1>3. ASSUME NEW w \in Workers, NEW seen \in SUBSET Tracks, NEW standing \in SUBSET seen, Analyse(w, seen, standing)
      PROVE  Timely'
  <2> DEFINE known == [t \in Tracks |-> IF t \in seen /\ entries[w][t] = None THEN lastFrame[w] ELSE entries[w][t]]
  <2>1. /\ UNCHANGED <<clock, lastFrame, cleaner>> /\ entries' = [entries EXCEPT ![w] = known]
        /\ pc[w] = "analyse" /\ pc' = [pc EXCEPT ![w] = After(todo'[w])]
    BY <1>3 DEF Analyse
  <2>2. known \in [Tracks -> Nat \cup {None}]
    BY <2>1
  <2>3. ASSUME NEW v \in Workers, pc'[v] = "analyse"
        PROVE  pc[v] = "analyse"
    BY <2>1, <2>3 DEF After, IInv, TypeOK
  <2>4. ASSUME cleaner.stage = "reports", NEW t \in Tracks
        PROVE  ~Stale(entries'[cleaner.at][t], cleaner.cutoff)
    <3>1. CASE cleaner.at # w
      BY <2>1, <2>4, <3>1
    <3>2. CASE cleaner.at = w
      <4>1. lastFrame[w] \in Nat /\ cleaner.cutoff \in Int /\ cleaner.cutoff <= lastFrame[w]
        BY <1>0, <2>1, <2>4
      <4>2. ~Stale(lastFrame[w], cleaner.cutoff) /\ ~Stale(entries[w][t], cleaner.cutoff)
        BY <4>1, <2>4, <3>2 DEF Stale
      <4>3. entries'[w][t] = known[t] /\ known[t] \in {lastFrame[w], entries[w][t]}
        BY <2>1
      <4>4. QED
        BY <3>2, <4>2, <4>3
    <3>3. QED
      BY <3>1, <3>2
  <2>5. QED
    BY <2>1, <2>2, <2>3, <2>4
<1>4. ASSUME NEW w \in Workers, CleanEntries(w)
      PROVE  Timely'
  <2> DEFINE cutoff == clock - EntryStale
             fresh == [t \in Tracks |-> IF Stale(entries[w][t], cutoff) THEN None ELSE entries[w][t]]
  <2>1. /\ UNCHANGED <<pc, lastFrame, clock>> /\ entries' = [entries EXCEPT ![w] = fresh]
        /\ cleaner' = [cleaner EXCEPT !.stage = "reports", !.at = w, !.cutoff = cutoff, !.todo = @ \ {w}]
    BY <1>4 DEF CleanEntries, workerVars
  <2>2. fresh \in [Tracks -> Nat \cup {None}] /\ cutoff \in Int
    BY <1>0
  <2>3. \A t \in Tracks : ~Stale(fresh[t], cutoff)
    BY DEF Stale
  <2>4. /\ cleaner'.stage = "reports" /\ cleaner'.at = w /\ cleaner'.cutoff = cutoff
        /\ cleaner' \in [stage : {"idle", "next", "reports"}, todo : SUBSET Workers, at : Workers \cup {None},
                         cutoff : Int, stale : SUBSET Workers]
    BY <2>1, <2>2
  <2>5. QED
    BY <1>0, <2>1, <2>2, <2>3, <2>4
<1>5. ASSUME NEW w \in Workers, CleanReports(w)
      PROVE  Timely'
  <2>1. UNCHANGED <<pc, lastFrame, clock, entries>> /\ cleaner'.stage = "next"
        /\ cleaner' \in [stage : {"idle", "next", "reports"}, todo : SUBSET Workers, at : Workers \cup {None},
                         cutoff : Int, stale : SUBSET Workers]
    BY <1>5 DEF CleanReports, workerVars
  <2>2. QED
    BY <2>1
<1>6. CASE CleanupStarts \/ CleanupEnds
  <2>1. UNCHANGED <<pc, lastFrame, clock, entries>>
    BY <1>6 DEF CleanupStarts, CleanupEnds, workerVars, trackVars
  <2>2. PICK S \in SUBSET Workers, stage \in {"idle", "next"} :
          cleaner' = [stage |-> stage, todo |-> S, at |-> None, cutoff |-> 0, stale |-> {}]
    <3>1. CASE CleanupStarts
      <4>1. {registry[c] : c \in Cameras} \ {None} \in SUBSET Workers
        BY DEF IInv, TypeOK
      <4>2. cleaner' = [stage |-> "next", todo |-> {registry[c] : c \in Cameras} \ {None}, at |-> None, cutoff |-> 0, stale |-> {}]
        BY <3>1 DEF CleanupStarts, Idle
      <4>3. QED
        BY <4>1, <4>2
    <3>2. CASE CleanupEnds
      BY <3>2 DEF CleanupEnds, Idle
    <3>3. QED
      BY <1>6, <3>1, <3>2
  <2>3. cleaner' \in [stage : {"idle", "next", "reports"}, todo : SUBSET Workers, at : Workers \cup {None},
                         cutoff : Int, stale : SUBSET Workers]
        /\ cleaner'.stage # "reports"
    BY <2>2
  <2>4. QED
    BY <2>1, <2>3
<1>7. CASE Tick
  <2>1. UNCHANGED <<pc, lastFrame, entries, cleaner>> /\ clock' = clock + 1
        /\ \A w \in Workers : pc[w] = "analyse" => clock - lastFrame[w] < EntryStale
    BY <1>7 DEF Tick, workerVars, trackVars
  <2>2. ASSUME NEW w \in Workers, pc[w] = "analyse"
        PROVE  lastFrame[w] \in Nat /\ clock' - lastFrame[w] <= EntryStale
    BY <1>0, <2>1, <2>2
  <2>3. cleaner.stage = "reports" => cleaner.cutoff <= clock' - EntryStale
    BY <1>0, <2>1
  <2>4. QED
    BY <2>1, <2>2, <2>3
<1>8. CASE \/ \E c \in Cameras : RemoveCamera(c) \/ \E w \in Workers : AddCamera(c, w)
           \/ RetryTake \/ RetrySent \/ RetryFails \/ UNCHANGED vars
  <2>1. UNCHANGED <<lastFrame, clock, entries, cleaner>>
    BY <1>8 DEF RemoveCamera, AddCamera, RetryTake, RetrySent, RetryFails, vars, workerVars, trackVars
  <2>2. ASSUME NEW v \in Workers, pc'[v] = "analyse"
        PROVE  pc[v] = "analyse"
    BY <1>8, <2>2 DEF RemoveCamera, AddCamera, RetryTake, RetrySent, RetryFails, vars, workerVars, IInv, TypeOK
  <2>3. QED
    BY <2>1, <2>2
<1>9. ASSUME NEW w \in Workers, NEW other \in Others, YoloFails(w, other)
      PROVE  Timely'
  <2>1. /\ UNCHANGED <<clock, entries, cleaner, pc>>
        /\ lastFrame' = [lastFrame EXCEPT ![w] = clock] /\ pc[w] = "read"
    BY <1>9 DEF YoloFails, trackVars
  <2>2. QED
    BY <1>0, <2>1
<1>10. QED
  BY <1>1, <1>2, <1>3, <1>4, <1>5, <1>6, <1>7, <1>8, <1>9 DEF Next, ThreadStep

\* What a frame shows to be news is remembered and no repetition.
LEMMA NewsKeepOnce ==
  ASSUME OnceInv, NEW w \in Workers, NEW T \in SUBSET Tracks, NEW kind \in {"breach", "loitering"},
         NEW found \in Seq(Detections), Distinct(found), log' = log \o found, News(found, w, T, kind),
         kind = "breach" => T \cap breach[w] = {} /\ breach' = [breach EXCEPT ![w] = @ \cup T] /\ loitering' = loitering,
         kind = "loitering" => T \cap loitering[w] = {} /\ loitering' = [loitering EXCEPT ![w] = @ \cup T] /\ breach' = breach
  PROVE  Remembered' /\ ReportedOnce'
<1>1. /\ log \in Seq(Detections)
      /\ breach \in [Workers -> SUBSET Tracks] /\ loitering \in [Workers -> SUBSET Tracks]
  BY DEF OnceInv, IInv, TypeOK
<1>2. Distinct(log) /\ Remembered
  BY DEF OnceInv, ReportedOnce, Distinct
<1>3. \A i \in DOMAIN log : log[i] \in Detections
  BY <1>1
<1>4. Unreported(log, w, T, kind)
  BY <1>1, <1>2, <1>3 DEF Remembered, Unreported
<1>5. Distinct(log')
  <2>1. Distinct(log \o found)
    BY <1>1, <1>2, <1>4, AddingNews
  <2>2. QED
    BY <2>1
<1>6. ReportedOnce'
  BY <1>5 DEF ReportedOnce, Distinct
<1>7. ASSUME NEW i \in DOMAIN log'
      PROVE  /\ log'[i].kind = "breach" => log'[i].track \in breach'[log'[i].worker]
             /\ log'[i].kind = "loitering" => log'[i].track \in loitering'[log'[i].worker]
  <2>1. \/ i \in DOMAIN log /\ log'[i] = log[i]
        \/ i - Len(log) \in DOMAIN found /\ log'[i] = found[i - Len(log)]
    BY <1>1, <1>7
  <2>2. ASSUME NEW v \in Workers
        PROVE  breach[v] \subseteq breach'[v] /\ loitering[v] \subseteq loitering'[v]
    BY <1>1
  <2>3. CASE i \in DOMAIN log /\ log'[i] = log[i]
    <3>1. log[i].worker \in Workers
      BY <1>3, <2>3 DEF Detections
    <3>2. QED
      BY <1>2, <2>2, <2>3, <3>1 DEF Remembered
  <2>4. CASE i - Len(log) \in DOMAIN found /\ log'[i] = found[i - Len(log)]
    <3> DEFINE d == found[i - Len(log)]
    <3>1. d.kind # "other" => d.worker = w /\ d.kind = kind /\ d.track \in T
      BY <2>4 DEF Detection, News
    <3>2. QED
      BY <1>1, <2>4, <3>1
  <2>5. QED
    BY <2>1, <2>3, <2>4
<1>8. QED
  BY <1>6, <1>7 DEF Remembered

LEMMA OnceStep == OnceInv /\ [Next]_vars => Remembered' /\ ReportedOnce'
<1> SUFFICES ASSUME OnceInv, [Next]_vars
             PROVE  Remembered' /\ ReportedOnce'
  OBVIOUS
<1> USE DEF OnceInv
<1>0. breach \in [Workers -> SUBSET Tracks] /\ loitering \in [Workers -> SUBSET Tracks] /\ log \in Seq(Detections)
  BY DEF IInv, TypeOK
<1>1. ASSUME NEW w \in Workers, NEW restricted \in SUBSET Tracks, NEW other \in Others, Frame(w, restricted, other)
      PROVE  Remembered' /\ ReportedOnce'
  <2> DEFINE T == restricted \ breach[w]
             breaches == SetToSeq({Detection(w, t, "breach") : t \in T})
             others == IF other THEN <<Detection(w, None, "other")>> ELSE <<>>
             found == breaches \o others
  <2>1. /\ breaches \in Seq({Detection(w, t, "breach") : t \in T}) /\ breaches \in Seq(Detections)
        /\ \A i, j \in DOMAIN breaches : breaches[i] = breaches[j] => i = j
    BY FoundOfKind
  <2>2. others \in Seq(Detections) /\ Len(others) \in Nat /\ \A i \in DOMAIN others : others[i].kind = "other"
    <3>1. Detection(w, None, "other") \in Detections /\ Detection(w, None, "other").kind = "other"
      BY DEF Detection, Detections
    <3>2. CASE other
      <4> HIDE DEF Detections
      <4>1. others = <<Detection(w, None, "other")>>
        BY <3>2
      <4>2. QED
        BY <3>1, <4>1
    <3>3. CASE ~other
      BY <3>3
    <3>4. QED
      BY <3>2, <3>3
  <2>3. found \in Seq(Detections) /\ log' = log \o found
    BY <1>1, <2>1, <2>2, ConcatProperties DEF Frame, Found
  <2>4. \A i \in DOMAIN found : \/ i \in DOMAIN breaches /\ found[i] = breaches[i]
                                \/ found[i].kind = "other"
    BY <2>1, <2>2
  <2>5. \A i \in DOMAIN breaches : \E t \in T : breaches[i] = Detection(w, t, "breach")
    <3>1. \A i \in DOMAIN breaches : breaches[i] \in {Detection(w, t, "breach") : t \in T}
      <4> HIDE DEF breaches, T
      <4>1. QED
        BY <2>1, ElementsOf
    <3>2. QED
      BY <3>1
  <2>6. News(found, w, T, "breach")
    <3> HIDE DEF T, breaches, others, found
    <3>1. QED
      BY <2>4, <2>5 DEF Detection, News
  <2>7. Distinct(found)
    BY <2>1, <2>4 DEF Distinct
  <2>8. breach' = [breach EXCEPT ![w] = @ \cup T] /\ loitering' = loitering
    BY <1>0, <1>1 DEF Frame
  <2>9. T \in SUBSET Tracks /\ T \cap breach[w] = {}
    OBVIOUS
  <2> HIDE DEF T, breaches, others, found
  <2>10. QED
    BY <2>3, <2>6, <2>7, <2>8, <2>9, NewsKeepOnce
<1>2. ASSUME NEW w \in Workers, NEW seen \in SUBSET Tracks, NEW standing \in SUBSET seen, Analyse(w, seen, standing)
      PROVE  Remembered' /\ ReportedOnce'
  <2> DEFINE known == [t \in Tracks |-> IF t \in seen /\ entries[w][t] = None THEN lastFrame[w] ELSE entries[w][t]]
             T == {t \in standing \ loitering[w] : lastFrame[w] - known[t] > LoiteringThreshold}
             found == SetToSeq({Detection(w, t, "loitering") : t \in T})
  <2>1. /\ found \in Seq({Detection(w, t, "loitering") : t \in T}) /\ found \in Seq(Detections)
        /\ \A i, j \in DOMAIN found : found[i] = found[j] => i = j
    BY FoundOfKind
  <2>2. \A i \in DOMAIN found : \E t \in T : found[i] = Detection(w, t, "loitering")
    <3>1. \A i \in DOMAIN found : found[i] \in {Detection(w, t, "loitering") : t \in T}
      <4> HIDE DEF found, T
      <4>1. QED
        BY <2>1, ElementsOf
    <3>2. QED
      BY <3>1
  <2>3. News(found, w, T, "loitering")
    <3> HIDE DEF T, found
    <3>1. QED
      BY <2>2 DEF Detection, News
  <2>4. Distinct(found)
    BY <2>1 DEF Distinct
  <2>5. log' = log \o found /\ loitering' = [loitering EXCEPT ![w] = @ \cup T] /\ breach' = breach
    BY <1>2 DEF Analyse, Found
  <2>6. T \in SUBSET Tracks /\ T \cap loitering[w] = {}
    OBVIOUS
  <2> HIDE DEF T, found, known
  <2>7. QED
    BY <2>1, <2>3, <2>4, <2>5, <2>6, NewsKeepOnce
<1>3. ASSUME NEW w \in Workers, CleanReports(w)
      PROVE  Remembered' /\ ReportedOnce'
  <2>1. \A t \in Tracks : ~Stale(entries[w][t], cleaner.cutoff)
    BY <1>3 DEF CleanReports, Timely
  <2>2. {t \in loitering[w] : ~Stale(entries[w][t], cleaner.cutoff)} = loitering[w]
        /\ {t \in breach[w] : ~Stale(entries[w][t], cleaner.cutoff)} = breach[w]
    BY <1>0, <2>1
  <2>3. loitering' = loitering /\ breach' = breach
    BY <1>0, <1>3, <2>2 DEF CleanReports
  <2>4. log' = log
    BY <1>3 DEF CleanReports, pastVars
  <2>5. QED
    BY <2>3, <2>4 DEF Remembered, ReportedOnce
<1>4. CASE \/ \E w \in Workers : Open(w) \/ Release(w) \/ Post(w) \/ Sent(w) \/ SendFails(w) \/ Raises(w) \/ CleanEntries(w)
           \/ \E c \in Cameras : RemoveCamera(c) \/ \E w \in Workers : AddCamera(c, w)
           \/ RetryTake \/ RetrySent \/ RetryFails \/ CleanupStarts \/ CleanupEnds \/ Tick \/ UNCHANGED vars
  <2>1. UNCHANGED <<log, breach, loitering>>
    BY <1>4 DEF Open, Release, Post, Sent, SendFails, Returned, Raises, CleanEntries, RemoveCamera, AddCamera, RetryTake, RetrySent,
                RetryFails, CleanupStarts, CleanupEnds, Tick, vars, trackVars, pastVars
  <2>2. QED
    BY <2>1 DEF Remembered, ReportedOnce
<1>5. ASSUME NEW w \in Workers, NEW other \in Others, YoloFails(w, other)
      PROVE  Remembered' /\ ReportedOnce'
  <2>1. /\ \A i \in DOMAIN log : log'[i] = log[i]
        /\ \A i \in DOMAIN log' : i \in DOMAIN log \/ log'[i].kind = "other"
    BY <1>0, <1>5, DroppedFrame DEF IInv
  <2>2. UNCHANGED <<breach, loitering>>
    BY <1>5 DEF YoloFails, trackVars
  <2>3. Remembered'
    BY <2>1, <2>2 DEF Remembered
  <2>4. ASSUME NEW i \in DOMAIN log', NEW j \in DOMAIN log', i # j, log'[i].kind # "other"
        PROVE  log'[i] # log'[j]
    BY <2>1, <2>4 DEF ReportedOnce
  <2>5. QED
    BY <2>3, <2>4 DEF ReportedOnce
<1>6. QED
  BY <1>1, <1>2, <1>3, <1>4, <1>5 DEF Next, ThreadStep

\* However often the clean-up forgets when a person was first seen, a worker
\* reports no breach and no loiterer twice.
THEOREM Once == Spec => []ReportedOnce
<1>1. OnceInv /\ [Next]_vars => OnceInv'
  BY StepKeepsInv, TimelyStep, OnceStep DEF OnceInv
<1>2. OnceInv => ReportedOnce
  BY DEF OnceInv
<1>3. QED
  BY <1>1, <1>2, OnceInit, PTL DEF Spec


-----------------------------------------------------------------------------
(* No detection is lost or doubled.                                        *)

Entries == [id : Nat, count : Nat]
Ids(buf) == {buf[i].id : i \in DOMAIN buf}
Apart(buf) == \A i, j \in DOMAIN buf : buf[i].id = buf[j].id => i = j

\* No detection waits twice in one place, or with two workers.
Single ==
  /\ buffer \in Seq(Entries) /\ Apart(buffer) /\ retrying \in Entries \cup {None}
  /\ \A w \in Workers : IsInjective(todo[w])
  /\ \A w, v \in Workers : w # v => ToSet(todo[w]) \cap ToSet(todo[v]) = {}

\* The places a detection may be in have none in common, and it is in one.
Placed ==
  /\ \A w \in Workers : ToSet(todo[w]) \cap (Buffered \cup Retried \cup gone) = {}
  /\ Buffered \cap (Retried \cup gone) = {} /\ Retried \cap gone = {}
  /\ DOMAIN log = Buffered \cup Retried \cup gone \cup UNION {ToSet(todo[w]) : w \in Workers}

AccountInv == IInv /\ Single /\ Placed

\* The head of a sequence and the rest of it.
LEMMA Splits ==
  ASSUME NEW S, NEW s \in Seq(S), s # <<>>
  PROVE  /\ Head(s) = s[1] /\ 1 \in DOMAIN s /\ Head(s) \in S /\ Tail(s) \in Seq(S)
         /\ \A i \in DOMAIN Tail(s) : i + 1 \in DOMAIN s /\ Tail(s)[i] = s[i + 1]
         /\ \A i \in DOMAIN s : i # 1 => i - 1 \in DOMAIN Tail(s) /\ Tail(s)[i - 1] = s[i]
OBVIOUS

\* What is taken from the head of a sequence without repetitions is no longer in it.
LEMMA Taken ==
  ASSUME NEW S, NEW s \in Seq(S), s # <<>>, IsInjective(s)
  PROVE  /\ ToSet(Tail(s)) = ToSet(s) \ {Head(s)} /\ Head(s) \in ToSet(s)
         /\ IsInjective(Tail(s)) /\ Tail(s) \in Seq(S)
<1>1. ToSet(Tail(s)) \subseteq ToSet(s) \ {Head(s)}
  <2>1. ASSUME NEW i \in DOMAIN Tail(s)
        PROVE  Tail(s)[i] \in ToSet(s) /\ Tail(s)[i] # Head(s)
    <3>1. i + 1 \in DOMAIN s /\ i + 1 # 1 /\ Tail(s)[i] = s[i + 1] /\ Head(s) = s[1] /\ 1 \in DOMAIN s
      BY Splits
    <3>2. QED
      BY <3>1 DEF ToSet, IsInjective
  <2>2. QED
    BY <2>1 DEF ToSet
<1>2. ToSet(s) \ {Head(s)} \subseteq ToSet(Tail(s))
  <2>1. ASSUME NEW i \in DOMAIN s, s[i] # Head(s)
        PROVE  s[i] \in ToSet(Tail(s))
    <3>1. i # 1 /\ i - 1 \in DOMAIN Tail(s) /\ Tail(s)[i - 1] = s[i]
      BY <2>1, Splits
    <3>2. QED
      BY <3>1 DEF ToSet
  <2>2. QED
    BY <2>1 DEF ToSet
<1>3. IsInjective(Tail(s))
  <2>1. ASSUME NEW i \in DOMAIN Tail(s), NEW j \in DOMAIN Tail(s), Tail(s)[i] = Tail(s)[j]
        PROVE  i = j
    <3>1. /\ i + 1 \in DOMAIN s /\ Tail(s)[i] = s[i + 1]
          /\ j + 1 \in DOMAIN s /\ Tail(s)[j] = s[j + 1]
      BY Splits
    <3>2. i + 1 = j + 1
      BY <2>1, <3>1 DEF IsInjective
    <3>3. QED
      BY <3>2
  <2>2. QED
    BY <2>1 DEF IsInjective
<1>4. QED
  BY <1>1, <1>2, <1>3, Splits DEF ToSet

\* As many detections are buffered as the buffer is long.
LEMMA BufferedCount ==
  ASSUME NEW buf \in Seq(Entries), Apart(buf)
  PROVE  Cardinality(Ids(buf)) = Len(buf)
<1> DEFINE S == Ids(buf)
           f == [i \in 1..Len(buf) |-> buf[i].id]
<1>1. Len(buf) \in Nat /\ DOMAIN buf = 1..Len(buf)
  OBVIOUS
<1>2. f \in Bijection(1..Len(buf), S)
  <2>1. f \in [1..Len(buf) -> S] /\ IsInjective(f)
    BY <1>1 DEF IsInjective, Apart, Ids
  <2>2. \A x \in S : \E i \in 1..Len(buf) : f[i] = x
    BY <1>1 DEF Ids
  <2>3. QED
    BY <2>1, <2>2 DEF Bijection, Injection, Surjection
<1>3. QED
  BY <1>1, <1>2, FS_CountingElements DEF ExistsBijection


LEMMA BufferTail ==
  ASSUME NEW buf \in Seq(Entries), buf # <<>>, Apart(buf)
  PROVE  /\ Tail(buf) \in Seq(Entries) /\ Apart(Tail(buf)) /\ Head(buf) \in Entries
         /\ Head(buf).id \in Ids(buf) /\ Ids(Tail(buf)) = Ids(buf) \ {Head(buf).id}
<1>1. ASSUME NEW i \in DOMAIN Tail(buf)
      PROVE  Tail(buf)[i].id \in Ids(buf) /\ Tail(buf)[i].id # Head(buf).id
  <2>1. i + 1 \in DOMAIN buf /\ i + 1 # 1 /\ Tail(buf)[i] = buf[i + 1] /\ Head(buf) = buf[1] /\ 1 \in DOMAIN buf
    BY Splits
  <2>2. QED
    BY <2>1 DEF Ids, Apart
<1>2. ASSUME NEW i \in DOMAIN buf, buf[i].id # Head(buf).id
      PROVE  buf[i].id \in Ids(Tail(buf))
  <2>1. i # 1 /\ i - 1 \in DOMAIN Tail(buf) /\ Tail(buf)[i - 1] = buf[i]
    BY <1>2, Splits
  <2>2. QED
    BY <2>1 DEF Ids
<1>3. ASSUME NEW i \in DOMAIN Tail(buf), NEW j \in DOMAIN Tail(buf), Tail(buf)[i].id = Tail(buf)[j].id
      PROVE  i = j
  <2>1. /\ i + 1 \in DOMAIN buf /\ Tail(buf)[i] = buf[i + 1]
        /\ j + 1 \in DOMAIN buf /\ Tail(buf)[j] = buf[j + 1]
    BY Splits
  <2>2. i + 1 = j + 1
    BY <1>3, <2>1 DEF Apart
  <2>3. QED
    BY <2>2
<1>4. Ids(Tail(buf)) = Ids(buf) \ {Head(buf).id}
  BY <1>1, <1>2 DEF Ids
<1>5. QED
  BY <1>3, <1>4, Splits DEF Apart, Ids

LEMMA BufferAppend ==
  ASSUME NEW buf \in Seq(Entries), NEW entry \in Entries, Apart(buf), entry.id \notin Ids(buf)
  PROVE  /\ Append(buf, entry) \in Seq(Entries) /\ Apart(Append(buf, entry))
         /\ Ids(Append(buf, entry)) = Ids(buf) \cup {entry.id}
<1> DEFINE new == Append(buf, entry)
           n == Len(buf) + 1
<1>1. /\ new \in Seq(Entries) /\ n \in DOMAIN new /\ new[n] = entry /\ n \notin DOMAIN buf
      /\ \A i \in DOMAIN new : i = n \/ i \in DOMAIN buf
      /\ \A i \in DOMAIN buf : i \in DOMAIN new /\ new[i] = buf[i]
  OBVIOUS
<1> HIDE DEF new, n
<1>2. Ids(new) = Ids(buf) \cup {entry.id}
  BY <1>1 DEF Ids
<1>3. Apart(new)
  BY <1>1 DEF Apart, Ids
<1>4. QED
  BY <1>1, <1>2, <1>3 DEF new

LEMMA AccountInit == Init => AccountInv
<1> SUFFICES ASSUME Init PROVE AccountInv
  OBVIOUS
<1>1. Single
  BY DEF Init, Single, Apart, IsInjective, ToSet
<1>2. Placed
  BY DEF Init, Placed, Buffered, Retried, ToSet
<1>3. QED
  BY <1>1, <1>2, InvInit DEF AccountInv

\* A detection that leaves a worker is delivered, given up or buffered.
LEMMA HeadLeaves ==
  ASSUME AccountInv, NEW w \in Workers, todo[w] # <<>>, todo' = [todo EXCEPT ![w] = Tail(@)],
         UNCHANGED <<retrying, log>>,
         \/ gone' = gone \cup {Head(todo[w])} /\ buffer' = buffer
         \/ gone' = gone /\ buffer' = Append(buffer, [id |-> Head(todo[w]), count |-> 0])
  PROVE  Single' /\ Placed'
<1> DEFINE id == Head(todo[w])
<1> USE DEF AccountInv
<1>1. todo \in [Workers -> Seq(Nat)] /\ IsInjective(todo[w])
  BY DEF IInv, TypeOK, Single
<1>2. /\ ToSet(todo'[w]) = ToSet(todo[w]) \ {id} /\ id \in ToSet(todo[w]) /\ id \in Nat
      /\ IsInjective(todo'[w]) /\ \A v \in Workers \ {w} : todo'[v] = todo[v]
  BY <1>1, Taken, Splits
<1>3. id \notin Buffered \cup Retried \cup gone /\ \A v \in Workers \ {w} : id \notin ToSet(todo[v])
  BY <1>2 DEF Placed, Single
<1> HIDE DEF id
<1>4. Retried' = Retried
  BY DEF Retried
<1>5. /\ buffer' \in Seq(Entries) /\ Apart(buffer')
      /\ \/ gone' = gone \cup {id} /\ Buffered' = Buffered
         \/ gone' = gone /\ Buffered' = Buffered \cup {id}
  <2>1. CASE gone' = gone \cup {id} /\ buffer' = buffer
    BY <2>1 DEF Single, Buffered
  <2>2. CASE gone' = gone /\ buffer' = Append(buffer, [id |-> id, count |-> 0])
    <3>1. [id |-> id, count |-> 0] \in Entries
      BY <1>2 DEF Entries
    <3>2. Buffered = Ids(buffer) /\ Buffered' = Ids(buffer')
      BY DEF Buffered, Ids
    <3>3. buffer' \in Seq(Entries) /\ Apart(buffer') /\ Ids(buffer') = Ids(buffer) \cup {id}
      BY <1>3, <2>2, <3>1, <3>2, BufferAppend DEF Single
    <3>4. QED
      BY <2>2, <3>2, <3>3
  <2>3. QED
    BY <2>1, <2>2 DEF id
<1>6. Single'
  BY <1>1, <1>2, <1>5 DEF Single
<1>7. Placed'
  <2> DEFINE waiting == UNION {ToSet(todo[v]) : v \in Workers}
             left == UNION {ToSet(todo'[v]) : v \in Workers}
  <2>1. waiting = left \cup {id}
    <3>1. \A v \in Workers : ToSet(todo'[v]) \subseteq ToSet(todo[v]) /\ ToSet(todo[v]) \subseteq ToSet(todo'[v]) \cup {id}
      BY <1>2
    <3>2. left \cup {id} \subseteq waiting
      BY <1>2, <3>1
    <3>3. waiting \subseteq left \cup {id}
      BY <3>1
    <3>4. QED
      BY <3>2, <3>3
  <2>2. \A v \in Workers : ToSet(todo'[v]) \cap (Buffered' \cup Retried' \cup gone') = {}
    BY <1>2, <1>3, <1>4, <1>5 DEF Placed
  <2>3. Buffered' \cap (Retried' \cup gone') = {} /\ Retried' \cap gone' = {}
    BY <1>3, <1>4, <1>5 DEF Placed
  <2>4. DOMAIN log' = Buffered' \cup Retried' \cup gone' \cup left
    <3>1. DOMAIN log' = Buffered \cup Retried \cup gone \cup waiting
      BY DEF Placed
    <3> HIDE DEF waiting, left
    <3>2. QED
      BY <1>4, <1>5, <2>1, <3>1
  <2>5. QED
    BY <2>2, <2>3, <2>4 DEF Placed
<1>8. QED
  BY <1>6, <1>7


\* A frame adds detections that were nowhere before.
LEMMA FoundWaits ==
  ASSUME AccountInv, NEW w \in Workers, NEW found \in Seq(Detections), Found(w, found), UNCHANGED <<buffer, retrying, gone>>
  PROVE  Single' /\ Placed'
<1> USE DEF AccountInv
<1> DEFINE n == Len(log)
           ids == [i \in 1..Len(found) |-> n + i]
           new == (n + 1)..(n + Len(found))
<1>1. /\ todo \in [Workers -> Seq(Nat)] /\ log \in Seq(Detections) /\ n \in Nat /\ Len(found) \in Nat
      /\ DOMAIN log = 1..n
  BY DEF IInv, TypeOK
<1>2. DOMAIN log' = 1..n \cup new
  BY <1>1 DEF Found
<1>3. /\ todo' = [todo EXCEPT ![w] = todo[w] \o ids] /\ ids \in Seq(Nat)
      /\ \A i \in DOMAIN ids : ids[i] = n + i /\ i \in 1..Len(found)
      /\ \A i \in 1..Len(found) : i \in DOMAIN ids
  BY <1>1 DEF Found
<1>4. \A v \in Workers : ToSet(todo[v]) \subseteq 1..n
  BY <1>1 DEF Placed
<1> HIDE DEF n
<1>5. /\ \A i \in DOMAIN (todo[w] \o ids) :
           \/ i \in DOMAIN todo[w] /\ (todo[w] \o ids)[i] = todo[w][i]
           \/ i - Len(todo[w]) \in DOMAIN ids /\ (todo[w] \o ids)[i] = n + (i - Len(todo[w]))
      /\ \A i \in DOMAIN todo[w] : i \in DOMAIN (todo[w] \o ids) /\ (todo[w] \o ids)[i] = todo[w][i]
      /\ \A i \in DOMAIN ids : i + Len(todo[w]) \in DOMAIN (todo[w] \o ids) /\ (todo[w] \o ids)[i + Len(todo[w])] = n + i
  BY <1>1, <1>3
<1>6. \A i \in DOMAIN todo[w] : todo[w][i] \in 1..n
  BY <1>4 DEF ToSet
<1>7. ToSet(todo'[w]) = ToSet(todo[w]) \cup new
  <2>1. ToSet(todo'[w]) \subseteq ToSet(todo[w]) \cup new
    <3>1. ASSUME NEW i \in DOMAIN (todo[w] \o ids)
          PROVE  (todo[w] \o ids)[i] \in ToSet(todo[w]) \cup new
      <4>1. CASE i \in DOMAIN todo[w] /\ (todo[w] \o ids)[i] = todo[w][i]
        BY <4>1 DEF ToSet
      <4>2. CASE i - Len(todo[w]) \in DOMAIN ids /\ (todo[w] \o ids)[i] = n + (i - Len(todo[w]))
        BY <1>1, <1>3, <4>2
      <4>3. QED
        BY <1>5, <4>1, <4>2
    <3>2. QED
      BY <1>1, <1>3, <3>1 DEF ToSet
  <2>2. ToSet(todo[w]) \subseteq ToSet(todo'[w])
    BY <1>1, <1>3, <1>5 DEF ToSet
  <2>3. ASSUME NEW x \in new
        PROVE  x \in ToSet(todo'[w])
    <3>1. x - n \in 1..Len(found) /\ x = n + (x - n)
      BY <1>1
    <3>2. QED
      BY <1>1, <1>3, <1>5, <3>1 DEF ToSet
  <2>4. QED
    BY <2>1, <2>2, <2>3
<1>8. IsInjective(todo'[w])
  <2>1. ASSUME NEW i \in DOMAIN (todo[w] \o ids), NEW j \in DOMAIN (todo[w] \o ids),
               (todo[w] \o ids)[i] = (todo[w] \o ids)[j]
        PROVE  i = j
    <3>1. CASE i \in DOMAIN todo[w] /\ j \in DOMAIN todo[w]
      BY <1>5, <2>1, <3>1 DEF Single, IsInjective
    <3>2. CASE i \notin DOMAIN todo[w] /\ j \notin DOMAIN todo[w]
      BY <1>1, <1>3, <1>5, <2>1, <3>2
    <3>3. CASE i \in DOMAIN todo[w] /\ j \notin DOMAIN todo[w]
      BY <1>1, <1>3, <1>5, <1>6, <2>1, <3>3
    <3>4. CASE i \notin DOMAIN todo[w] /\ j \in DOMAIN todo[w]
      BY <1>1, <1>3, <1>5, <1>6, <2>1, <3>4
    <3>5. QED
      BY <3>1, <3>2, <3>3, <3>4
  <2>2. QED
    BY <1>1, <1>3, <2>1 DEF IsInjective
<1>9. /\ \A v \in Workers \ {w} : todo'[v] = todo[v]
      /\ new \cap 1..n = {}
  BY <1>1, <1>3
<1> HIDE DEF ids, new
<1>10. Single'
  <2>1. ASSUME NEW v \in Workers, NEW u \in Workers, v # u
        PROVE  ToSet(todo'[v]) \cap ToSet(todo'[u]) = {}
    <3>1. ToSet(todo[v]) \cap ToSet(todo[u]) = {} /\ ToSet(todo[v]) \subseteq 1..n /\ ToSet(todo[u]) \subseteq 1..n
      BY <1>4, <2>1 DEF Single
    <3>2. CASE v = w
      BY <1>7, <1>9, <2>1, <3>1, <3>2
    <3>3. CASE u = w
      BY <1>7, <1>9, <2>1, <3>1, <3>3
    <3>4. CASE v # w /\ u # w
      BY <1>9, <3>1, <3>4
    <3>5. QED
      BY <3>2, <3>3, <3>4
  <2>2. \A v \in Workers : IsInjective(todo'[v])
    BY <1>8, <1>9 DEF Single
  <2>3. QED
    BY <2>1, <2>2 DEF Single
<1>11. Placed'
  <2>1. Buffered' = Buffered /\ Retried' = Retried /\ gone' = gone
    BY DEF Buffered, Retried
  <2>2. Buffered \cup Retried \cup gone \subseteq 1..n
    BY <1>1 DEF Placed
  <2>3. \A v \in Workers : ToSet(todo'[v]) \cap (Buffered \cup Retried \cup gone) = {}
    BY <1>7, <1>9, <2>2 DEF Placed
  <2> DEFINE waiting == UNION {ToSet(todo[v]) : v \in Workers}
             more == UNION {ToSet(todo'[v]) : v \in Workers}
  <2>4. more = waiting \cup new
    <3>1. \A v \in Workers : ToSet(todo[v]) \subseteq ToSet(todo'[v]) /\ ToSet(todo'[v]) \subseteq ToSet(todo[v]) \cup new
      BY <1>7, <1>9
    <3>2. waiting \cup new \subseteq more
      BY <1>7, <3>1
    <3>3. more \subseteq waiting \cup new
      BY <3>1
    <3>4. QED
      BY <3>2, <3>3
  <2>5. DOMAIN log' = Buffered \cup Retried \cup gone \cup more
    <3>1. 1..n = Buffered \cup Retried \cup gone \cup waiting
      BY <1>1 DEF Placed
    <3> HIDE DEF waiting, more
    <3>2. QED
      BY <1>2, <2>4, <3>1
  <2>6. QED
    BY <2>1, <2>3, <2>5 DEF Placed
<1>12. QED
  BY <1>10, <1>11


\* The retry thread moves a detection between the buffer, its own hands and
\* those that were delivered or given up.
LEMMA RetryKeepsPlaces ==
  ASSUME AccountInv, RetryTake \/ RetrySent \/ RetryFails
  PROVE  Single' /\ Placed'
<1> USE DEF AccountInv
<1> DEFINE waiting == UNION {ToSet(todo[v]) : v \in Workers}
<1>1. /\ buffer \in Seq(Entries) /\ Apart(buffer) /\ retrying \in Entries \cup {None}
      /\ Buffered = Ids(buffer) /\ Buffered' = Ids(buffer')
  BY DEF Single, Buffered, Ids
<1>2. todo' = todo /\ log' = log
  BY DEF RetryTake, RetrySent, RetryFails, postVars, pastVars
<1>3. DOMAIN log = Buffered \cup Retried \cup gone \cup waiting
  BY DEF Placed
<1>4. \A x : x \in DOMAIN log /\ (\E w \in Workers : x \in ToSet(todo[w])) <=> x \in waiting
  BY <1>3
<1>5. SUFFICES /\ buffer' \in Seq(Entries) /\ Apart(buffer') /\ retrying' \in Entries \cup {None}
               /\ Buffered' \cup Retried' \cup gone' = Buffered \cup Retried \cup gone
               /\ Buffered' \cap (Retried' \cup gone') = {} /\ Retried' \cap gone' = {}
  BY <1>2, <1>3 DEF Single, Placed
<1>6. CASE RetryTake
  <2>1. retrying = None /\ buffer # <<>> /\ retrying' = Head(buffer) /\ buffer' = Tail(buffer) /\ gone' = gone
    BY <1>6 DEF RetryTake, pastVars
  <2>2. /\ buffer' \in Seq(Entries) /\ Apart(buffer') /\ retrying' \in Entries
        /\ Head(buffer).id \in Buffered /\ Buffered' = Buffered \ {Head(buffer).id}
    BY <1>1, <2>1, BufferTail
  <2>3. Retried = {} /\ Retried' = {Head(buffer).id}
    <3>1. retrying' # None
      BY <2>2, CameraAssumption DEF Entries
    <3>2. QED
      BY <2>1, <3>1 DEF Retried
  <2>4. QED
    BY <2>1, <2>2, <2>3 DEF Placed
<1>7. CASE RetrySent
  <2>1. retrying # None /\ gone' = gone \cup {retrying.id} /\ retrying' = None /\ buffer' = buffer
    BY <1>7 DEF RetrySent
  <2>2. Retried = {retrying.id} /\ Retried' = {} /\ Buffered' = Buffered
    BY <1>1, <2>1 DEF Retried
  <2>3. QED
    BY <1>1, <2>1, <2>2 DEF Placed
<1>8. CASE RetryFails
  <2> DEFINE id == retrying.id
             entry == [id |-> id, count |-> retrying.count + 1]
             full == Len(buffer) >= BufferMax
             kept == IF full THEN Tail(buffer) ELSE buffer
             out == IF full THEN {Head(buffer).id} ELSE {}
  <2>1. /\ retrying # None /\ retrying' = None
        /\ \/ buffer' = Append(kept, entry) /\ gone' = gone \cup out
           \/ gone' = gone \cup {id} /\ buffer' = buffer
    BY <1>8 DEF RetryFails
  <2>2. entry \in Entries
    BY <1>1, <2>1 DEF Entries
  <2>3. Retried = {id} /\ Retried' = {}
    BY <2>1 DEF Retried
  <2>4. id \notin Buffered /\ id \notin gone
    BY <2>3 DEF Placed
  <2>5. /\ kept \in Seq(Entries) /\ Apart(kept)
        /\ Ids(kept) = Buffered \ out /\ out \subseteq Buffered
    <3>1. CASE full
      <4>1. buffer # <<>>
        BY <3>1, CameraAssumption
      <4>2. QED
        BY <1>1, <3>1, <4>1, BufferTail
    <3>2. CASE ~full
      BY <1>1, <3>2
    <3>3. QED
      BY <3>1, <3>2
  <2> HIDE DEF kept, out
  <2>6. CASE buffer' = Append(kept, entry) /\ gone' = gone \cup out
    <3>1. entry.id = id /\ entry.id \notin Ids(kept)
      BY <2>4, <2>5
    <3> HIDE DEF entry
    <3>2. buffer' \in Seq(Entries) /\ Apart(buffer') /\ Buffered' = Ids(kept) \cup {id}
      BY <1>1, <2>2, <2>5, <2>6, <3>1, BufferAppend
    <3> HIDE DEF id
    <3>3. QED
      BY <2>1, <2>3, <2>4, <2>5, <2>6, <3>2 DEF Placed
  <2>7. CASE gone' = gone \cup {id} /\ buffer' = buffer
    BY <1>1, <2>1, <2>3, <2>4, <2>7 DEF Placed
  <2>8. QED
    BY <2>1, <2>6, <2>7
<1>9. QED
  BY <1>6, <1>7, <1>8

LEMMA NothingMoves ==
  ASSUME AccountInv, UNCHANGED <<todo, buffer, retrying, gone, log>>
  PROVE  Single' /\ Placed'
<1>1. Buffered' = Buffered /\ Retried' = Retried /\ todo' = todo /\ gone' = gone /\ DOMAIN log' = DOMAIN log
  BY DEF Buffered, Retried
<1>2. Single'
  BY DEF AccountInv, Single
<1>3. Placed'
  BY <1>1 DEF AccountInv, Placed
<1>4. QED
  BY <1>2, <1>3

\* What an exception leaves unposted is given up.
LEMMA FrameDropped ==
  ASSUME AccountInv, NEW w \in Workers, UNCHANGED <<buffer, retrying, log>>,
         gone' = gone \cup ToSet(todo[w]), todo' = [todo EXCEPT ![w] = <<>>]
  PROVE  Single' /\ Placed'
<1> USE DEF AccountInv
<1>1. todo \in [Workers -> Seq(Nat)] /\ Buffered' = Buffered /\ Retried' = Retried
  BY DEF IInv, TypeOK, Buffered, Retried
<1>2. /\ todo'[w] = <<>> /\ ToSet(todo'[w]) = {} /\ IsInjective(todo'[w])
      /\ \A v \in Workers \ {w} : todo'[v] = todo[v]
  BY <1>1 DEF ToSet, IsInjective
<1>3. \A v, u \in Workers : v # u => ToSet(todo[v]) \cap ToSet(todo[u]) = {}
  BY DEF Single
<1>4. Single'
  BY <1>2, <1>3 DEF Single
<1>5. UNION {ToSet(todo[v]) : v \in Workers} = ToSet(todo[w]) \cup UNION {ToSet(todo'[v]) : v \in Workers}
  <2>1. \A v \in Workers : ToSet(todo[v]) \subseteq ToSet(todo[w]) \cup ToSet(todo'[v]) /\ ToSet(todo'[v]) \subseteq ToSet(todo[v])
    BY <1>2
  <2>2. QED
    BY <2>1
<1>6. \A v \in Workers : ToSet(todo'[v]) \cap (Buffered \cup Retried \cup gone \cup ToSet(todo[w])) = {}
  BY <1>2, <1>3 DEF Placed
<1>7. ToSet(todo[w]) \cap (Buffered \cup Retried) = {}
  BY DEF Placed
<1>8. DOMAIN log = Buffered \cup Retried \cup gone \cup UNION {ToSet(todo[v]) : v \in Workers}
  BY DEF Placed
<1> DEFINE before == UNION {ToSet(todo[v]) : v \in Workers}
           after == UNION {ToSet(todo'[v]) : v \in Workers}
<1>9. DOMAIN log' = Buffered' \cup Retried' \cup gone' \cup after
  <2> HIDE DEF before, after
  <2>1. QED
    BY <1>1, <1>5, <1>8 DEF before, after
<1>10. QED
  BY <1>1, <1>4, <1>6, <1>7, <1>9 DEF Placed

LEMMA AccountStep == AccountInv /\ [Next]_vars => Single' /\ Placed'
<1> SUFFICES ASSUME AccountInv, [Next]_vars
             PROVE  Single' /\ Placed'
  OBVIOUS
<1>1. ASSUME NEW w \in Workers, NEW restricted \in SUBSET Tracks, NEW other \in Others, Frame(w, restricted, other)
      PROVE  Single' /\ Placed'
  <2> DEFINE breaches == SetToSeq({Detection(w, t, "breach") : t \in restricted \ breach[w]})
             others == IF other THEN <<Detection(w, None, "other")>> ELSE <<>>
  <2>1. breaches \in Seq(Detections)
    BY FoundOfKind
  <2>2. others \in Seq(Detections)
    <3>1. Detection(w, None, "other") \in Detections
      BY DEF Detection, Detections
    <3> HIDE DEF Detections
    <3>2. QED
      BY <3>1
  <2>3. /\ Found(w, breaches \o others) /\ UNCHANGED <<buffer, retrying, gone>>
    BY <1>1 DEF Frame, retryVars
  <2> HIDE DEF breaches, others
  <2>4. breaches \o others \in Seq(Detections)
    BY <2>1, <2>2
  <2>5. QED
    BY <2>3, <2>4, FoundWaits
<1>2. ASSUME NEW w \in Workers, NEW seen \in SUBSET Tracks, NEW standing \in SUBSET seen, Analyse(w, seen, standing)
      PROVE  Single' /\ Placed'
  <2> DEFINE known == [t \in Tracks |-> IF t \in seen /\ entries[w][t] = None THEN lastFrame[w] ELSE entries[w][t]]
             T == {t \in standing \ loitering[w] : lastFrame[w] - known[t] > LoiteringThreshold}
             found == SetToSeq({Detection(w, t, "loitering") : t \in T})
  <2>1. found \in Seq(Detections)
    BY FoundOfKind
  <2>2. Found(w, found) /\ UNCHANGED <<buffer, retrying, gone>>
    BY <1>2 DEF Analyse, retryVars
  <2> HIDE DEF found
  <2>3. QED
    BY <2>1, <2>2, FoundWaits
<1>3. ASSUME NEW w \in Workers, Post(w) \/ Sent(w) \/ SendFails(w)
      PROVE  Single' /\ Placed'
  <2>1. todo[w] # <<>>
    BY <1>3 DEF AccountInv, IInv, Roomy, Post, Sent, SendFails, Returned
  <2>2. \/ /\ todo' = [todo EXCEPT ![w] = Tail(@)] /\ UNCHANGED <<retrying, log>>
           /\ \/ gone' = gone \cup {Head(todo[w])} /\ buffer' = buffer
              \/ gone' = gone /\ buffer' = Append(buffer, [id |-> Head(todo[w]), count |-> 0])
        \/ UNCHANGED <<todo, buffer, retrying, gone, log>>
    <3>1. CASE Post(w)
      BY <3>1 DEF Post, retryVars
    <3>2. CASE Sent(w)
      BY <3>2 DEF Sent, Returned
    <3>3. CASE SendFails(w)
      BY <3>3 DEF SendFails, Returned
    <3>4. QED
      BY <1>3, <3>1, <3>2, <3>3
  <2>3. CASE UNCHANGED <<todo, buffer, retrying, gone, log>>
    BY <2>3, NothingMoves
  <2>4. QED
    BY <2>1, <2>2, <2>3, HeadLeaves
<1>4. CASE \/ \E w \in Workers : Open(w) \/ Release(w) \/ CleanEntries(w) \/ CleanReports(w)
           \/ \E c \in Cameras : RemoveCamera(c) \/ \E w \in Workers : AddCamera(c, w)
           \/ CleanupStarts \/ CleanupEnds \/ Tick \/ UNCHANGED vars
  <2>1. UNCHANGED <<todo, buffer, retrying, gone, log>>
    BY <1>4 DEF Open, Release, CleanEntries, CleanReports, RemoveCamera, AddCamera, CleanupStarts, CleanupEnds, Tick, vars,
                postVars, retryVars, pastVars
  <2>2. QED
    BY <2>1, NothingMoves
<1>5. ASSUME NEW w \in Workers, NEW other \in Others, YoloFails(w, other)
      PROVE  Single' /\ Placed'
  <2>1. UNCHANGED <<todo, buffer, retrying>>
    BY <1>5 DEF YoloFails, postVars, retryVars
  <2>2. DOMAIN log \subseteq DOMAIN log' /\ gone' = gone \cup (DOMAIN log' \ DOMAIN log)
    BY <1>5, DroppedFrame DEF AccountInv, IInv, TypeOK
  <2>3. Buffered' = Buffered /\ Retried' = Retried
    BY <2>1 DEF Buffered, Retried
  <2>4. Single'
    BY <2>1 DEF AccountInv, Single
  <2>5. QED
    BY <2>1, <2>2, <2>3, <2>4 DEF AccountInv, Placed
<1>6. ASSUME NEW w \in Workers, Raises(w)
      PROVE  Single' /\ Placed'
  <2>1. /\ UNCHANGED <<buffer, retrying, log>> /\ gone' = gone \cup ToSet(todo[w])
        /\ todo' = [todo EXCEPT ![w] = <<>>]
    BY <1>6 DEF Raises, retryVars
  <2>2. QED
    BY <2>1, FrameDropped
<1>7. QED
  BY <1>1, <1>2, <1>3, <1>4, <1>5, <1>6, RetryKeepsPlaces DEF Next, ThreadStep

\* No detection is lost or doubled between the threads that post, buffer and
\* retry it.
THEOREM Accounted == Spec => []DetectionsAccounted
<1>1. AccountInv /\ [Next]_vars => AccountInv'
  BY StepKeepsInv, AccountStep DEF AccountInv
<1>2. AccountInv => DetectionsAccounted
  <2> SUFFICES ASSUME AccountInv PROVE DetectionsAccounted
    OBVIOUS
  <2>1. buffer \in Seq(Entries) /\ Apart(buffer) /\ Buffered = Ids(buffer)
    BY DEF AccountInv, Single, Buffered, Ids
  <2>2. Cardinality(Buffered) = Len(buffer)
    BY <2>1, BufferedCount
  <2>3. QED
    BY <2>2 DEF AccountInv, Placed, DetectionsAccounted
<1>3. QED
  BY <1>1, <1>2, AccountInit, PTL DEF Spec
=============================================================================
