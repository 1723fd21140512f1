---------------------------- MODULE CameraService ----------------------------
(***************************************************************************)
(* The camera service (cv-service/app.py): a thread per camera reads frames *)
(* and posts what it detects to the backend, a thread retries what could    *)
(* not be posted, a thread cleans up, and the handlers of the web server    *)
(* add, replace and remove cameras.  A worker is a CameraWorker object; the *)
(* image analysis is an input: which tracked persons a frame shows, who of  *)
(* them is in the restricted zone, who stands still, and whether there is   *)
(* anything else to report (an object, a gathering, somebody running).      *)
(***************************************************************************)
EXTENDS Integers, Sequences, FiniteSets, SequencesExt

CONSTANTS
  None,
  Cameras,              \* camera ids
  Workers,              \* CameraWorker objects, 1..n in the order they are made
  Tracks,               \* track ids of persons
  Others,               \* whether a frame may show anything else: subset of BOOLEAN
  Cooldown,             \* DETECTION_COOLDOWN_DEFAULT (10 s)
  LoiteringThreshold,   \* LOITERING_THRESHOLD (20 s)
  EntryStale,           \* ENTRY_STALE_SECONDS (60 s)
  HealthTimeout,        \* WORKER_HEALTH_TIMEOUT (120 s)
  RetryMax,             \* DETECTION_RETRY_MAX (3)
  BufferMax,            \* FAILED_DETECTION_BUFFER_MAX (500)
  MaxDetections,        \* bound: detections in all
  MaxTime               \* bound: the clock

ASSUME CameraAssumption ==
  /\ IsFiniteSet(Workers) /\ Workers = 1..Cardinality(Workers)
  /\ IsFiniteSet(Tracks) /\ Others \subseteq BOOLEAN
  /\ {Cooldown, LoiteringThreshold, EntryStale, HealthTimeout} \subseteq Nat
  /\ {RetryMax, BufferMax} \subseteq Nat \ {0} /\ MaxDetections \in Nat
  /\ None \notin Int \cup [id : Nat, count : Nat]

VARIABLES
  registry,     \* workers: the worker of a camera, or None
  running, cap, pc, lastFrame,    \* of a worker: running, an open capture, its thread, _last_frame_time
  entries,      \* _person_entries: when a worker first saw a track, or None
  loitering, breach,              \* _loitering_reported, _zone_breach_reported
  lastAlert,    \* last_alert: when a worker last posted a type, or None
  todo,         \* the detections of a worker's frame that are not posted yet
  buffer,       \* _failed_detections: [id, count]
  retrying,     \* what the retry thread has taken out of it, or None
  cleaner,      \* the clean-up thread, which holds workers_lock unless it is idle
  clock,
  log,          \* all detections: [worker, track, kind] (history)
  gone          \* those that were delivered or given up (history)

workerVars == <<running, cap, pc, lastFrame>>
trackVars  == <<entries, loitering, breach>>
postVars   == <<lastAlert, todo>>
retryVars  == <<buffer, retrying>>
pastVars   == <<log, gone>>
vars == <<registry, workerVars, trackVars, postVars, retryVars, cleaner, clock, pastVars>>

Idle == [stage |-> "idle", todo |-> {}, at |-> None, cutoff |-> 0, stale |-> {}]

Init ==
  /\ registry = [c \in Cameras |-> None]
  /\ running = [w \in Workers |-> FALSE] /\ cap = [w \in Workers |-> FALSE]
  /\ pc = [w \in Workers |-> "new"]
  /\ lastFrame = [w \in Workers |-> None]
  /\ entries = [w \in Workers |-> [t \in Tracks |-> None]]
  /\ loitering = [w \in Workers |-> {}] /\ breach = [w \in Workers |-> {}]
  /\ lastAlert = [w \in Workers |-> [type \in {"breach", "behavior_anomaly"} |-> None]]
  /\ todo = [w \in Workers |-> <<>>]
  /\ buffer = <<>> /\ retrying = None
  /\ cleaner = Idle /\ clock = 0
  /\ log = <<>> /\ gone = {}

-------------------------------------------------------------------------------
(* A worker's thread. *)

\* The loop looks at running before it opens the stream, which takes a while.
Again(w) == IF running[w] THEN "opening" ELSE "ended"

\* The capture is assigned without its lock; if the stream cannot be opened
\* it is tried again later.
Open(w) ==
  /\ pc[w] = "opening"
  /\ \/ cap' = [cap EXCEPT ![w] = TRUE] /\ pc' = [pc EXCEPT ![w] = "read"]
     \/ pc' = [pc EXCEPT ![w] = Again(w)] /\ UNCHANGED cap
  /\ UNCHANGED <<registry, running, lastFrame, trackVars, postVars, retryVars, cleaner, clock, pastVars>>

\* The end of the inner loop: stopped, or no frame
Release(w) ==
  /\ pc[w] = "read"
  /\ cap' = [cap EXCEPT ![w] = FALSE]
  /\ pc' = [pc EXCEPT ![w] = Again(w)]
  /\ UNCHANGED <<registry, running, lastFrame, trackVars, postVars, retryVars, cleaner, clock, pastVars>>

Found(w, found) ==
  /\ Len(log) + Len(found) <= MaxDetections
  /\ log' = log \o found
  /\ todo' = [todo EXCEPT ![w] = @ \o [i \in 1..Len(found) |-> Len(log) + i]]

Detection(w, track, kind) == [worker |-> w, track |-> track, kind |-> kind]

\* _process_frame up to the analysis of groups; two frames of three are only
\* read.  A breach of a track is reported once.
Frame(w, restricted, other) ==
  /\ pc[w] = "read" /\ running[w] /\ cap[w]
  /\ lastFrame' = [lastFrame EXCEPT ![w] = clock]
  /\ breach' = [breach EXCEPT ![w] = @ \cup restricted]
  /\ Found(w, SetToSeq({Detection(w, t, "breach") : t \in restricted \ breach[w]})
              \o IF other THEN <<Detection(w, None, "other")>> ELSE <<>>)
  /\ pc' = [pc EXCEPT ![w] = "analyse"]
  /\ UNCHANGED <<registry, running, cap, entries, loitering, lastAlert, retryVars, cleaner, clock, gone>>

\* YOLO failed: what the ambient detectors found in the frame is dropped,
\* though they may have noted it as reported (_detect_night).
YoloFails(w, other) ==
  /\ pc[w] = "read" /\ running[w] /\ cap[w]
  /\ lastFrame' = [lastFrame EXCEPT ![w] = clock]
  /\ other => Len(log) < MaxDetections
  /\ log' = IF other THEN Append(log, Detection(w, None, "other")) ELSE log
  /\ gone' = gone \cup (DOMAIN log' \ DOMAIN log)
  /\ UNCHANGED <<registry, running, cap, pc, trackVars, postVars, retryVars, cleaner, clock>>

\* Whatever is left of the frame is posted before the next one is read
After(left) == IF left = <<>> THEN "read" ELSE "post"

\* The rest of it: a track that stands still long after it was first seen is
\* reported once.
Analyse(w, seen, standing) ==
  LET now == lastFrame[w]
      known == [t \in Tracks |-> IF t \in seen /\ entries[w][t] = None THEN now ELSE entries[w][t]]
      loiterers == {t \in standing \ loitering[w] : now - known[t] > LoiteringThreshold}
  IN
  /\ pc[w] = "analyse"
  /\ entries' = [entries EXCEPT ![w] = known]
  /\ loitering' = [loitering EXCEPT ![w] = @ \cup loiterers]
  /\ Found(w, SetToSeq({Detection(w, t, "loitering") : t \in loiterers}))
  /\ pc' = [pc EXCEPT ![w] = After(todo'[w])]
  /\ UNCHANGED <<registry, running, cap, lastFrame, breach, lastAlert, retryVars, cleaner, clock, gone>>

TypeOf(id) == IF log[id].kind = "breach" THEN "breach" ELSE "behavior_anomaly"

\* _post_detection: a type that was posted within the cooldown is dropped
Post(w) ==
  LET id == Head(todo[w])
      last == lastAlert[w][TypeOf(id)]
      cooling == last # None /\ clock - last < Cooldown
  IN
  /\ pc[w] = "post"
  /\ \/ /\ cooling
        /\ gone' = gone \cup {id}
        /\ todo' = [todo EXCEPT ![w] = Tail(@)]
        /\ pc' = [pc EXCEPT ![w] = After(todo'[w])]
        /\ UNCHANGED lastAlert
     \/ /\ ~cooling
        /\ lastAlert' = [lastAlert EXCEPT ![w][TypeOf(id)] = clock]
        /\ pc' = [pc EXCEPT ![w] = "sending"]
        /\ UNCHANGED <<gone, todo>>
  /\ UNCHANGED <<registry, running, cap, lastFrame, trackVars, retryVars, cleaner, clock, log>>

\* _post_with_retry, which makes RetryMax attempts, has returned
Returned(w) ==
  /\ pc[w] = "sending"
  /\ todo' = [todo EXCEPT ![w] = Tail(@)]
  /\ pc' = [pc EXCEPT ![w] = After(todo'[w])]
  /\ UNCHANGED <<registry, running, cap, lastFrame, trackVars, lastAlert, retrying, cleaner, clock, log>>

Sent(w) ==
  /\ Returned(w)
  /\ gone' = gone \cup {Head(todo[w])}
  /\ UNCHANGED buffer

\* A full buffer keeps what it has
SendFails(w) ==
  LET id == Head(todo[w]) IN
  /\ Returned(w)
  /\ IF Len(buffer) < BufferMax
     THEN buffer' = Append(buffer, [id |-> id, count |-> 0]) /\ UNCHANGED gone
     ELSE gone' = gone \cup {id} /\ UNCHANGED buffer

\* Any other exception ends the inner loop: what the frame still has to post
\* is dropped, though its tracks are noted as reported, and the capture released.
Raises(w) ==
  /\ pc[w] \in {"analyse", "post", "sending"}
  /\ gone' = gone \cup ToSet(todo[w])
  /\ todo' = [todo EXCEPT ![w] = <<>>]
  /\ cap' = [cap EXCEPT ![w] = FALSE]
  /\ pc' = [pc EXCEPT ![w] = Again(w)]
  /\ UNCHANGED <<registry, running, lastFrame, trackVars, lastAlert, retryVars, cleaner, clock, log>>

ThreadStep(w) ==
  \/ Open(w) \/ Release(w) \/ Post(w) \/ Sent(w) \/ SendFails(w) \/ Raises(w)
  \/ \E restricted \in SUBSET Tracks, other \in Others : Frame(w, restricted, other)
  \/ \E other \in Others : YoloFails(w, other)
  \/ \E seen \in SUBSET Tracks : \E standing \in SUBSET seen : Analyse(w, seen, standing)

-------------------------------------------------------------------------------
(* The retry thread, every 10 s. *)

\* Fault: the detection that is retried stays in the buffer
RetryTakePeeks ==
  /\ retrying = None /\ buffer # <<>>
  /\ retrying' = Head(buffer)
  /\ UNCHANGED <<registry, workerVars, trackVars, postVars, buffer, cleaner, clock, pastVars>>

RetryTake ==
  /\ retrying = None /\ buffer # <<>>
  /\ retrying' = Head(buffer) /\ buffer' = Tail(buffer)
  /\ UNCHANGED <<registry, workerVars, trackVars, postVars, cleaner, clock, pastVars>>

RetrySent ==
  /\ retrying # None
  /\ gone' = gone \cup {retrying.id}
  /\ retrying' = None
  /\ UNCHANGED <<registry, workerVars, trackVars, postVars, buffer, cleaner, clock, log>>

\* What is to be retried again displaces the oldest of a full buffer
RetryFails ==
  LET id == retrying.id
      count == retrying.count + 1
      full == Len(buffer) >= BufferMax
      kept == IF full THEN Tail(buffer) ELSE buffer
  IN
  /\ retrying # None
  /\ retrying' = None
  /\ IF count < RetryMax
     THEN /\ buffer' = Append(kept, [id |-> id, count |-> count])
          /\ gone' = gone \cup (IF full THEN {Head(buffer).id} ELSE {})
     ELSE gone' = gone \cup {id} /\ UNCHANGED buffer
  /\ UNCHANGED <<registry, workerVars, trackVars, postVars, cleaner, clock, log>>

-------------------------------------------------------------------------------
(* Cameras come and go under workers_lock. *)

Unlocked == cleaner.stage = "idle"

\* Fault: stop only takes the capture away
StoppedReleased(S) ==
  /\ UNCHANGED running
  /\ cap' = [w \in Workers |-> cap[w] /\ w \notin S]

\* CameraWorker.stop of the workers in S
Stopped(S) ==
  /\ running' = [w \in Workers |-> running[w] /\ w \notin S]
  /\ cap' = [w \in Workers |-> cap[w] /\ w \notin S]

\* Fault: the worker that is replaced goes on
AddCameraBeside(c, w) ==
  /\ Unlocked
  /\ pc[w] = "new" /\ \A v \in Workers : v < w => pc[v] # "new"
  /\ running' = [running EXCEPT ![w] = TRUE]
  /\ registry' = [registry EXCEPT ![c] = w]
  /\ pc' = [pc EXCEPT ![w] = "opening"]
  /\ UNCHANGED <<cap, lastFrame, trackVars, postVars, retryVars, cleaner, clock, pastVars>>

\* add_camera, and add_webcam, which looks for a worker before it takes the
\* lock a second time
AddCamera(c, w) ==
  /\ Unlocked
  /\ pc[w] = "new" /\ \A v \in Workers : v < w => pc[v] # "new"
  /\ running' = [v \in Workers |-> v = w \/ (running[v] /\ v # registry[c])]
  /\ cap' = [v \in Workers |-> cap[v] /\ v # registry[c]]
  /\ registry' = [registry EXCEPT ![c] = w]
  /\ pc' = [pc EXCEPT ![w] = "opening"]
  /\ UNCHANGED <<lastFrame, trackVars, postVars, retryVars, cleaner, clock, pastVars>>

RemoveCamera(c) ==
  /\ Unlocked
  /\ registry[c] # None
  /\ Stopped({registry[c]})
  /\ registry' = [registry EXCEPT ![c] = None]
  /\ UNCHANGED <<pc, lastFrame, trackVars, postVars, retryVars, cleaner, clock, pastVars>>

-------------------------------------------------------------------------------
(* The clean-up thread. *)

CleanupStarts ==
  /\ Unlocked
  /\ cleaner' = [Idle EXCEPT !.stage = "next", !.todo = {registry[c] : c \in Cameras} \ {None}]
  /\ UNCHANGED <<registry, workerVars, trackVars, postVars, retryVars, clock, pastVars>>

Stale(entry, cutoff) == entry # None /\ entry < cutoff

\* Fault: the reports are cleaned up before the entries
CleanReportsFirst(w) ==
  LET cutoff == clock - EntryStale
      left(reported) == {t \in reported : ~Stale(entries[w][t], cutoff)}
  IN
  /\ cleaner.stage = "next" /\ w \in cleaner.todo
  /\ cleaner' = [cleaner EXCEPT !.stage = "reports", !.at = w, !.cutoff = cutoff, !.todo = @ \ {w}]
  /\ loitering' = [loitering EXCEPT ![w] = left(@)] /\ breach' = [breach EXCEPT ![w] = left(@)]
  /\ UNCHANGED <<registry, workerVars, entries, postVars, retryVars, clock, pastVars>>

\* CameraWorker.cleanup, one lock after the other
CleanEntries(w) ==
  LET cutoff == clock - EntryStale IN
  /\ cleaner.stage = "next" /\ w \in cleaner.todo
  /\ cleaner' = [cleaner EXCEPT !.stage = "reports", !.at = w, !.cutoff = cutoff, !.todo = @ \ {w}]
  /\ entries' = [entries EXCEPT ![w] = [t \in Tracks |-> IF Stale(@[t], cutoff) THEN None ELSE @[t]]]
  /\ UNCHANGED <<registry, workerVars, loitering, breach, postVars, retryVars, clock, pastVars>>

\* The entries of stale tracks, by which their reports are found, are gone.
\* _cleanup_loop then asks whether the worker is stale.
CleanReports(w) ==
  LET left(reported) == {t \in reported : ~Stale(entries[w][t], cleaner.cutoff)}
      silent == lastFrame[w] # None /\ clock - lastFrame[w] > HealthTimeout
  IN
  /\ cleaner.stage = "reports" /\ cleaner.at = w
  /\ loitering' = [loitering EXCEPT ![w] = left(@)] /\ breach' = [breach EXCEPT ![w] = left(@)]
  /\ cleaner' = [cleaner EXCEPT !.stage = "next", !.at = None,
                                !.stale = IF running[w] /\ silent THEN @ \cup {w} ELSE @]
  /\ UNCHANGED <<registry, workerVars, entries, postVars, retryVars, clock, pastVars>>

CleanupEnds ==
  /\ cleaner.stage = "next" /\ cleaner.todo = {}
  /\ Stopped(cleaner.stale)
  /\ registry' = [c \in Cameras |-> IF registry[c] \in cleaner.stale THEN None ELSE registry[c]]
  /\ cleaner' = Idle
  /\ UNCHANGED <<pc, lastFrame, trackVars, postVars, retryVars, clock, pastVars>>

\* The analysis of a frame takes less than EntryStale
Tick ==
  /\ clock < MaxTime
  /\ \A w \in Workers : pc[w] = "analyse" => clock - lastFrame[w] < EntryStale
  /\ clock' = clock + 1
  /\ UNCHANGED <<registry, workerVars, trackVars, postVars, retryVars, cleaner, pastVars>>

Next ==
  \/ \E w \in Workers : ThreadStep(w) \/ CleanEntries(w) \/ CleanReports(w)
  \/ \E c \in Cameras : RemoveCamera(c) \/ \E w \in Workers : AddCamera(c, w)
  \/ RetryTake \/ RetrySent \/ RetryFails
  \/ CleanupStarts \/ CleanupEnds
  \/ Tick

Spec == Init /\ [][Next]_vars

-------------------------------------------------------------------------------
\* A worker that runs can be reached by remove_camera: whatever is added,
\* replaced, removed and cleaned up, no camera has a second worker.
RunningIsRegistered ==
  \A w \in Workers : running[w] => \E c \in Cameras : registry[c] = w

\* A breach or a loiterer is reported once by a worker, although the entries
\* its reports are cleaned up by are themselves forgotten while the person is
\* still there.  (The clean-up removes the entries first and so never a
\* report: the sets of reported tracks grow for ever.)
ReportedOnce ==
  \A i, j \in DOMAIN log : i # j /\ log[i].kind # "other" => log[i] # log[j]

Buffered == {buffer[i].id : i \in DOMAIN buffer}
Retried == IF retrying = None THEN {} ELSE {retrying.id}

\* No detection is lost or doubled between the threads that post, buffer and
\* retry it: until it is delivered, dropped by the cooldown or with a frame that
\* failed, or given up after its retries or for want of room, it waits in
\* exactly one place.
DetectionsAccounted ==
  /\ \A w \in Workers : ToSet(todo[w]) \cap (Buffered \cup Retried \cup gone) = {}
  /\ Buffered \cap (Retried \cup gone) = {} /\ Retried \cap gone = {}
  /\ Cardinality(Buffered) = Len(buffer)
  /\ DOMAIN log = Buffered \cup Retried \cup gone \cup UNION {ToSet(todo[w]) : w \in Workers}

Unregistered(w) == pc[w] # "new" /\ \A c \in Cameras : registry[c] # w

\* The steps a worker that has been stopped may still take
StepsLeft(w) ==
  CASE pc[w] = "ended"   -> 0
    [] pc[w] = "read"    -> 1
    [] pc[w] = "opening" -> 2
    [] pc[w] = "sending" -> 2 * Len(todo[w])
    [] pc[w] = "post"    -> 2 * Len(todo[w]) + 1
    [] OTHER             -> 2 * MaxDetections + 2

\* Whatever it was doing when it was replaced, removed or found stale, even if
\* it was just opening the stream, a worker takes the camera up no more: every
\* step of its thread brings it nearer to its end, where it has let go of it.
RemovedEnds ==
  [][\A w \in Workers : Unregistered(w) /\ Unregistered(w)' =>
       /\ <<pc[w], todo[w]>>' # <<pc[w], todo[w]>> => StepsLeft(w)' < StepsLeft(w)
       /\ pc'[w] = "ended" => ~cap'[w]]_vars
==============================================================================
