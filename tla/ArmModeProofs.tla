----------------------------- MODULE ArmModeProofs -----------------------------
(***************************************************************************)
(* Who has the arm, on whose word it moves and how a path ends: the safety *)
(* properties of the mode manager for every surroundings and every limit,  *)
(* and the abstract owner it implements.                                   *)
(***************************************************************************)
EXTENDS ArmModeManager, SequenceTheorems, TLAPS

LEMMA Constants ==
  /\ None \notin Int /\ Top \in Nat /\ Zero \in Nat /\ Zero <= Top /\ Lead \in Nat
  /\ Settle \in Nat /\ Settle > 1 /\ ActivateLimit \in Nat
  /\ AlignmentEnabled \in BOOLEAN
  BY NoneAssumption, CoreAssumption, ManagerAssumption

-----------------------------------------------------------------------------
(* The core as a record *)

Fields == {"mode", "requested", "transitioning", "renewed", "focus", "ready",
           "position", "velocity", "age", "target", "goal", "ee", "command", "started",
           "settled", "queue", "stop", "job", "last", "stall", "outward", "steady",
           "proof", "startup", "recovery", "aligned", "aligning", "alignSteady"}
Shape(c) == c = [f \in DOMAIN c |-> c[f]] /\ DOMAIN c = Fields

\* What only feedback, the focus and the controllers change
Fixed(c, d) ==
  /\ Shape(d)
  /\ d.position = c.position /\ d.velocity = c.velocity /\ d.age = c.age
  /\ d.focus = c.focus /\ d.ready = c.ready /\ d.aligned = c.aligned

LEMMA InvalidateFacts ==
  ASSUME NEW c, Shape(c)
  PROVE  LET d == Invalidate(c)
         IN  /\ Shape(d) /\ Fixed(c, d)
             /\ d.renewed = TRUE /\ d.goal = None /\ d.job = None /\ d.queue = <<>>
             /\ d.settled = 0 /\ d.target = c.target
             /\ d.last = IF c.job # None THEN [id |-> c.job.id, result |-> "aborted"] ELSE c.last
             /\ d.mode = c.mode /\ d.requested = c.requested
             /\ d.transitioning = c.transitioning /\ d.startup = c.startup
             /\ d.aligning = c.aligning
<1> DEFINE d == Invalidate(c)
<1>1. Shape(d)
  BY DEF Invalidate, Shape
<1>2. /\ d.renewed = TRUE /\ d.goal = None /\ d.job = None /\ d.queue = <<>>
      /\ d.settled = 0 /\ d.target = c.target /\ d.mode = c.mode
  BY DEF Invalidate, Shape, Fields
<1>3. /\ d.requested = c.requested /\ d.transitioning = c.transitioning
      /\ d.startup = c.startup /\ d.aligning = c.aligning /\ d.aligned = c.aligned
  BY DEF Invalidate, Shape, Fields
<1>4. /\ d.position = c.position /\ d.velocity = c.velocity /\ d.age = c.age
      /\ d.focus = c.focus /\ d.ready = c.ready
  BY DEF Invalidate, Shape, Fields
<1>5. d.last = IF c.job # None THEN [id |-> c.job.id, result |-> "aborted"] ELSE c.last
  BY DEF Invalidate, Shape, Fields
<1> HIDE DEF d
<1> QED BY <1>1, <1>2, <1>3, <1>4, <1>5 DEF Fixed, d

LEMMA HeldFacts ==
  ASSUME NEW c, Shape(c)
  PROVE  LET d == HoldMeasured(c)
         IN  /\ Shape(d) /\ Fixed(c, d)
             /\ d.target = IF c.position = None THEN c.target ELSE c.position
             /\ d.goal = IF c.position = None THEN c.goal ELSE c.position
             /\ d.renewed = c.renewed /\ d.job = c.job /\ d.queue = c.queue
             /\ d.settled = c.settled /\ d.last = c.last
             /\ d.mode = c.mode /\ d.requested = c.requested
             /\ d.transitioning = c.transitioning /\ d.startup = c.startup
             /\ d.aligning = c.aligning
<1> DEFINE d == HoldMeasured(c)
<1>1. Shape(d)
  BY DEF HoldMeasured, Shape
<1>2. /\ d.target = IF c.position = None THEN c.target ELSE c.position
      /\ d.goal = IF c.position = None THEN c.goal ELSE c.position
      /\ d.renewed = c.renewed /\ d.job = c.job /\ d.queue = c.queue
  BY DEF HoldMeasured, Shape, Fields
<1>3. /\ d.settled = c.settled /\ d.last = c.last
      /\ d.mode = c.mode /\ d.requested = c.requested
      /\ d.transitioning = c.transitioning /\ d.startup = c.startup
      /\ d.aligning = c.aligning /\ d.aligned = c.aligned
  BY DEF HoldMeasured, Shape, Fields
<1>4. /\ d.position = c.position /\ d.velocity = c.velocity /\ d.age = c.age
      /\ d.focus = c.focus /\ d.ready = c.ready
  BY DEF HoldMeasured, Shape, Fields
<1> HIDE DEF d
<1> QED BY <1>1, <1>2, <1>3, <1>4 DEF Fixed, d

\* Every motion is given up: the epoch is new, the arm has no job and no goal but the
\* place it is at, and the mode is HOLD, on the way to it, or FAULT.
Ends(c, d) ==
  /\ Fixed(c, d) /\ d.renewed = TRUE /\ d.job = None /\ d.queue = <<>>
  /\ d.settled = 0 /\ d.goal \in {None, c.position} /\ d.target \in {c.target, c.position}
  /\ d.last = IF c.job # None THEN [id |-> c.job.id, result |-> "aborted"] ELSE c.last

Faulted(c, d) ==
  /\ Ends(c, d) /\ d.mode = "fault" /\ d.requested = "fault" /\ d.transitioning = FALSE
  /\ d.aligning = c.aligning
  /\ d.startup = IF c.startup = "recovering" THEN "pending" ELSE c.startup

Entered(c, d, m) ==
  /\ Ends(c, d) /\ d.mode = "hold" /\ d.requested = m /\ d.transitioning = TRUE
  /\ d.aligning = c.aligning /\ d.startup = c.startup

LEMMA FaultFacts == ASSUME NEW c, Shape(c) PROVE Faulted(c, Fault(c))
<1> DEFINE i == Invalidate(c)
           h == HoldMeasured(i)
           d == Fault(c)
<1>1. /\ Shape(i) /\ Fixed(c, i) /\ i.renewed = TRUE /\ i.goal = None /\ i.job = None
      /\ i.queue = <<>> /\ i.settled = 0 /\ i.target = c.target
      /\ i.last = IF c.job # None THEN [id |-> c.job.id, result |-> "aborted"] ELSE c.last
      /\ i.startup = c.startup /\ i.aligning = c.aligning
  BY InvalidateFacts
<1> HIDE DEF i
<1>2. /\ Shape(h) /\ Fixed(i, h)
      /\ h.target = IF i.position = None THEN i.target ELSE i.position
      /\ h.goal = IF i.position = None THEN i.goal ELSE i.position
      /\ h.renewed = i.renewed /\ h.job = i.job /\ h.queue = i.queue
      /\ h.settled = i.settled /\ h.last = i.last
      /\ h.startup = i.startup /\ h.aligning = i.aligning
  BY <1>1, HeldFacts
<1>3. d = [h EXCEPT !.startup = IF @ = "recovering" THEN "pending" ELSE @,
                    !.mode = "fault", !.requested = "fault", !.transitioning = FALSE]
  BY DEF Fault, i
<1> HIDE DEF h, d
<1>4. Shape(d)
  BY <1>2, <1>3 DEF Shape
<1>5. /\ d.mode = "fault" /\ d.requested = "fault" /\ d.transitioning = FALSE
      /\ d.startup = IF h.startup = "recovering" THEN "pending" ELSE h.startup
      /\ d.aligning = h.aligning
  BY <1>2, <1>3 DEF Shape, Fields
<1>6. /\ d.target = h.target /\ d.goal = h.goal /\ d.renewed = h.renewed /\ d.job = h.job
      /\ d.queue = h.queue /\ d.settled = h.settled /\ d.last = h.last
  BY <1>2, <1>3 DEF Shape, Fields
<1>7. /\ d.position = h.position /\ d.velocity = h.velocity /\ d.age = h.age
      /\ d.focus = h.focus /\ d.ready = h.ready /\ d.aligned = h.aligned
  BY <1>2, <1>3 DEF Shape, Fields
<1>8. Fixed(c, d)
  BY <1>1, <1>2, <1>4, <1>7 DEF Fixed
<1>9. d.goal \in {None, c.position} /\ d.target \in {c.target, c.position}
  BY <1>1, <1>2, <1>6 DEF Fixed
<1> QED BY <1>1, <1>2, <1>5, <1>6, <1>8, <1>9 DEF Faulted, Ends, d

LEMMA EnterFacts == ASSUME NEW c, Shape(c), NEW m PROVE Entered(c, Enter(c, m), m)
<1> DEFINE i == Invalidate(c)
           d == Enter(c, m)
<1>1. /\ Shape(i) /\ Fixed(c, i) /\ i.renewed = TRUE /\ i.goal = None /\ i.job = None
      /\ i.queue = <<>> /\ i.settled = 0 /\ i.target = c.target
      /\ i.last = IF c.job # None THEN [id |-> c.job.id, result |-> "aborted"] ELSE c.last
      /\ i.startup = c.startup /\ i.aligning = c.aligning
  BY InvalidateFacts
<1> DEFINE g == IF Fresh(c) THEN c.position ELSE None
           p == IF m = "tcp_ik" /\ i.proof # None THEN [i.proof EXCEPT !.cur = TRUE] ELSE i.proof
<1>2. d = [i EXCEPT !.mode = "hold", !.requested = m, !.transitioning = TRUE, !.started = 0,
                    !.goal = g, !.proof = p]
  BY DEF Enter
<1>3. g \in {None, c.position}
  OBVIOUS
<1> HIDE DEF i, d, g, p
<1>4. Shape(d)
  BY <1>1, <1>2 DEF Shape
<1>5. /\ d.mode = "hold" /\ d.requested = m /\ d.transitioning = TRUE
      /\ d.startup = i.startup /\ d.aligning = i.aligning /\ d.target = i.target /\ d.goal = g
  BY <1>1, <1>2 DEF Shape, Fields
<1>6. /\ d.renewed = i.renewed /\ d.job = i.job
      /\ d.queue = i.queue /\ d.settled = i.settled /\ d.last = i.last
  BY <1>1, <1>2 DEF Shape, Fields
<1>7. /\ d.position = i.position /\ d.velocity = i.velocity /\ d.age = i.age
      /\ d.focus = i.focus /\ d.ready = i.ready /\ d.aligned = i.aligned
  BY <1>1, <1>2 DEF Shape, Fields
<1>8. Fixed(c, d)
  BY <1>1, <1>4, <1>7 DEF Fixed
<1> QED BY <1>1, <1>3, <1>5, <1>6, <1>8 DEF Entered, Ends, d

\* How the mode is left after a motion has been given up
Left(c, d) ==
  \/ /\ d.mode = "fault" /\ d.requested = "fault" /\ d.transitioning = FALSE
     /\ d.aligning \in {c.aligning, None}
     /\ d.startup = IF c.startup = "recovering" THEN "pending" ELSE c.startup
  \/ /\ d.mode = "hold" /\ c.startup = "complete" /\ d.startup = "complete"
     /\ d.aligning \in {c.aligning, None} /\ d.transitioning \in BOOLEAN
     /\ d.transitioning \/ (d.aligning = None /\ c.aligned)
     /\ \/ d.requested = "hold"
        \/ /\ d.transitioning /\ d.requested \in Clients
           /\ c.focus = "arm" /\ c.ready /\ c.aligned

Halted(c, d) == Ends(c, d) /\ Left(c, d)

Ways == Seq([at : Within, stop : BOOLEAN])
Spots == Positions \cup {None}

\* The arm is a producer's, or is stopping for one.
Claimed(c) == c.mode \in Clients \/ (c.transitioning /\ c.requested \in Clients)

Typed(c) ==
  /\ Shape(c) /\ c.mode \in Modes /\ c.requested \in Modes
  /\ c.transitioning \in BOOLEAN /\ c.renewed \in BOOLEAN
  /\ c.ready \in BOOLEAN /\ c.aligned \in BOOLEAN
  /\ c.position \in Spots /\ c.target \in Spots /\ c.goal \in Spots
  /\ c.settled \in Nat /\ c.queue \in Ways /\ c.aligning \in Nat \cup {None}
  /\ c.startup \in {"pending", "recovering", "complete"}

Sound(c) ==
  /\ Typed(c)
  /\ c.transitioning => c.mode = "hold"
  /\ c.mode \in Clients => c.requested = c.mode
  /\ c.aligning # None => c.startup = "complete" /\ ~c.aligned
  /\ ~c.aligned => AlignmentEnabled
  /\ c.startup = "recovering" => c.mode = "hold" /\ c.requested = "hold" /\ c.goal \in Positions
  /\ c.job # None => c.mode = "tool_auto"
  /\ c.job # None /\ c.job.kind = "path" => c.goal # None

Entitled(c) ==
  Claimed(c) => c.focus = "arm" /\ c.ready /\ c.startup = "complete" /\ c.aligned

Good(c) == Sound(c) /\ Entitled(c)

LEMMA HaltedGood ==
  ASSUME NEW c, NEW d, Sound(c), Halted(c, d) PROVE Good(d)
<1>1. /\ Shape(d) /\ d.job = None /\ d.queue = <<>> /\ d.settled = 0 /\ d.renewed = TRUE
      /\ d.goal \in {None, c.position} /\ d.target \in {c.target, c.position}
      /\ d.position = c.position /\ d.focus = c.focus /\ d.ready = c.ready
      /\ d.aligned = c.aligned
  BY DEF Halted, Ends, Fixed
<1>2. /\ d.mode \in Modes /\ d.requested \in Modes /\ d.transitioning \in BOOLEAN
      /\ d.aligning \in {c.aligning, None} /\ d.startup \in {c.startup, "pending"}
      /\ d.startup # "recovering"
      /\ d.transitioning => d.mode = "hold" /\ d.startup = "complete"
      /\ d.mode \notin Clients
      /\ d.aligning # None => c.aligning # None /\ d.startup = c.startup
      /\ Claimed(d) => c.focus = "arm" /\ c.ready /\ c.aligned /\ d.startup = "complete"
  BY DEF Sound, Typed, Halted, Left, Modes, Clients, Streams, Claimed
<1>3. <<>> \in Ways
  BY DEF Ways
<1>4. Typed(d)
  <2>1. /\ c.position \in Spots /\ c.target \in Spots /\ c.aligning \in Nat \cup {None}
        /\ c.ready \in BOOLEAN /\ c.aligned \in BOOLEAN
        /\ c.startup \in {"pending", "recovering", "complete"}
    BY DEF Sound, Typed
  <2>2. /\ d.position \in Spots /\ d.target \in Spots /\ d.goal \in Spots
        /\ d.aligning \in Nat \cup {None} /\ d.settled \in Nat
    BY <1>1, <1>2, <2>1 DEF Spots
  <2>3. d.ready \in BOOLEAN /\ d.aligned \in BOOLEAN /\ d.renewed \in BOOLEAN
    BY <1>1, <2>1
  <2>4. d.startup \in {"pending", "recovering", "complete"}
    BY <1>2, <2>1
  <2> QED BY <1>1, <1>2, <1>3, <2>2, <2>3, <2>4 DEF Typed
<1> QED BY <1>1, <1>2, <1>4 DEF Good, Sound, Entitled

LEMMA FaultGood ==
  ASSUME NEW c, Sound(c) PROVE Halted(c, Fault(c)) /\ Good(Fault(c)) /\ Fault(c).mode = "fault"
<1>1. Faulted(c, Fault(c))
  BY FaultFacts DEF Sound, Typed
<1>2. Halted(c, Fault(c)) /\ Fault(c).mode = "fault"
  BY <1>1 DEF Faulted, Halted, Left
<1> QED BY <1>2, HaltedGood

LEMMA EnterGood ==
  ASSUME NEW c, Sound(c), NEW m, c.startup = "complete",
         \/ m = "hold"
         \/ m \in Clients /\ c.focus = "arm" /\ c.ready /\ c.aligned
  PROVE  Halted(c, Enter(c, m)) /\ Good(Enter(c, m))
<1>1. Entered(c, Enter(c, m), m)
  BY EnterFacts DEF Sound, Typed
<1>2. Halted(c, Enter(c, m))
  BY <1>1 DEF Entered, Halted, Left
<1> QED BY <1>2, HaltedGood

LEMMA AbortGood ==
  ASSUME NEW c, Good(c), c.mode = "tool_auto"
  PROVE  Halted(c, AbortToHold(c)) /\ Good(AbortToHold(c))
<1>1. /\ c.startup = "complete" /\ c.aligned /\ c.aligning = None /\ Sound(c) /\ Shape(c)
  BY DEF Good, Entitled, Claimed, Clients, Streams, Sound, Typed
<1>2. CASE ~Fresh(c)
  BY <1>1, <1>2, FaultGood DEF AbortToHold
<1>3. CASE Fresh(c)
  <2> DEFINE i == Invalidate(c)
             h == HoldMeasured(i)
             d == AbortToHold(c)
  <2>1. /\ Shape(i) /\ Fixed(c, i) /\ i.renewed = TRUE /\ i.goal = None /\ i.job = None
        /\ i.queue = <<>> /\ i.settled = 0 /\ i.target = c.target
        /\ i.last = IF c.job # None THEN [id |-> c.job.id, result |-> "aborted"] ELSE c.last
        /\ i.startup = c.startup /\ i.aligning = c.aligning
    BY <1>1, InvalidateFacts
  <2> HIDE DEF i
  <2>2. /\ Shape(h) /\ Fixed(i, h)
        /\ h.target = IF i.position = None THEN i.target ELSE i.position
        /\ h.goal = IF i.position = None THEN i.goal ELSE i.position
        /\ h.renewed = i.renewed /\ h.job = i.job /\ h.queue = i.queue
        /\ h.settled = i.settled /\ h.last = i.last
        /\ h.startup = i.startup /\ h.aligning = i.aligning
    BY <2>1, HeldFacts
  <2>3. d = [h EXCEPT !.mode = "hold", !.requested = "hold", !.transitioning = FALSE]
    BY <1>3 DEF AbortToHold, i
  <2> HIDE DEF h, d
  <2>4. Shape(d)
    BY <2>2, <2>3 DEF Shape
  <2>5. /\ d.mode = "hold" /\ d.requested = "hold" /\ d.transitioning = FALSE
        /\ d.startup = h.startup /\ d.aligning = h.aligning
    BY <2>2, <2>3 DEF Shape, Fields
  <2>6. /\ d.target = h.target /\ d.goal = h.goal /\ d.renewed = h.renewed /\ d.job = h.job
        /\ d.queue = h.queue /\ d.settled = h.settled /\ d.last = h.last
    BY <2>2, <2>3 DEF Shape, Fields
  <2>7. /\ d.position = h.position /\ d.velocity = h.velocity /\ d.age = h.age
        /\ d.focus = h.focus /\ d.ready = h.ready /\ d.aligned = h.aligned
    BY <2>2, <2>3 DEF Shape, Fields
  <2>8. Fixed(c, d)
    BY <2>1, <2>2, <2>4, <2>7 DEF Fixed
  <2>9. d.goal \in {None, c.position} /\ d.target \in {c.target, c.position}
    BY <2>1, <2>2, <2>6 DEF Fixed
  <2>10. Ends(c, d)
    BY <2>1, <2>2, <2>6, <2>8, <2>9 DEF Ends
  <2>11. Left(c, d)
    BY <1>1, <2>1, <2>2, <2>5 DEF Left
  <2> QED BY <1>1, <2>10, <2>11, HaltedGood DEF Halted, d
<1> QED BY <1>2, <1>3

LEMMA RequestFacts ==
  ASSUME NEW c, Good(c), NEW m \in Clients \cup {"hold"}
  PROVE  \/ Request(c, m) = c
         \/ Halted(c, Request(c, m)) /\ Good(Request(c, m))
<1>1. Sound(c)
  BY DEF Good
<1>2. \/ Request(c, m) = c \/ Request(c, m) = Fault(c)
      \/ c.startup = "complete" /\ Request(c, m) = Enter(c, "hold")
      \/ ~Refuses(c, m) /\ Request(c, m) = Enter(c, m)
  BY DEF Request, Refuses
<1>3. ~Refuses(c, m) => /\ c.startup = "complete"
                        /\ m = "hold" \/ (m \in Clients /\ c.focus = "arm" /\ c.ready /\ c.aligned)
  BY <1>1 DEF Refuses, Usable, Sound, Typed
<1>4. CASE Request(c, m) = Fault(c)
  BY <1>1, <1>4, FaultGood
<1>5. CASE c.startup = "complete" /\ Request(c, m) = Enter(c, "hold")
  BY <1>1, <1>5, EnterGood
<1>6. CASE ~Refuses(c, m) /\ Request(c, m) = Enter(c, m)
  BY <1>1, <1>3, <1>6, EnterGood
<1> QED BY <1>2, <1>4, <1>5, <1>6

-----------------------------------------------------------------------------
(* What a callback or a tick may make of the core *)

OwnerOf(c) ==
  CASE c.mode = "fault" -> "fault"
    [] c.mode \in Clients -> c.mode
    [] c.mode = "hold" ->
         IF c.startup = "recovering" \/ (c.aligning # None /\ ~c.transitioning)
         THEN "self" ELSE "none"

\* A step of the abstract owner, or none
OwnerStep(c, d) ==
  \/ /\ OwnerOf(d) = OwnerOf(c) /\ d.goal = c.goal
     /\ d.position = c.position \/ d.position \in Positions
  \/ /\ OwnerOf(d) = OwnerOf(c) /\ OwnerOf(c) \in Clients \cup {"self"}
     /\ d.goal \in Positions /\ d.position = c.position
  \/ /\ OwnerOf(c) = "none" /\ OwnerOf(d) \in Clients
     /\ c.goal \in {None, c.position} /\ d.goal = c.goal /\ d.position = c.position
  \/ /\ OwnerOf(c) = "none" /\ OwnerOf(d) = "self"
     /\ d.goal \in Positions \cup {c.goal} /\ d.position = c.position
  \/ /\ OwnerOf(d) \in {"none", "fault"}
     /\ d.goal \in {None, c.position} /\ d.position = c.position

Holds(c, s) == c.mode = s \/ (c.transitioning /\ c.requested = s)

\* s has it after the step as it had it before, or was to get it.
Turn(c, d, s) ==
  \/ c.mode = s /\ d.mode = s
  \/ c.requested = s /\ c.transitioning /\ d.requested = s /\ (d.transitioning \/ d.mode = s)

Told(c, d) ==
  c.job # None /\ d.job = None =>
    \E r \in {"aborted", "succeeded"} :
      /\ d.last = [id |-> c.job.id, result |-> r]
      /\ r = "succeeded" /\ c.job.kind = "path" =>
           /\ c.queue = <<>> /\ c.position = c.goal /\ Stopped(c)

Steps(c, d) ==
  /\ Good(d)
  /\ d.renewed \/ \A s \in Clients : Holds(d, s) => Turn(c, d, s)
  /\ d.mode = "tcp_ik" /\ c.mode # "tcp_ik" => EntryClear(d)
  /\ Told(c, d)
  /\ OwnerStep(c, d)

\* ... without beginning the startup, which only poll does.
Moves(c, d) == Steps(c, d) /\ (c.startup = "pending" => d.startup = "pending")

\* The arm rests where it was seen.
Rests(c, d) ==
  /\ d.position = c.position /\ d.ready = c.ready /\ d.renewed = TRUE /\ d.job = None /\ d.goal \in {None, c.position}
  /\ d.last = IF c.job # None THEN [id |-> c.job.id, result |-> "aborted"] ELSE c.last
  /\ \/ d.mode = "fault"
     \/ d.mode = "hold" /\ d.startup = "complete" /\ (d.transitioning \/ d.aligning = None)
  /\ c.startup = "pending" => d.startup = "pending"

LEMMA RestMoves ==
  ASSUME NEW c, NEW d, Good(d), Rests(c, d) PROVE Moves(c, d) /\ d.ready = c.ready
<1>1. OwnerOf(d) \in {"none", "fault"}
  <2>1. CASE d.mode = "fault"
    BY <2>1 DEF OwnerOf
  <2>2. CASE d.mode = "hold"
    <3>1. d.startup = "complete" /\ (d.transitioning \/ d.aligning = None)
      BY <2>2 DEF Rests
    <3> QED BY <2>2, <3>1 DEF OwnerOf, Clients, Streams
  <2> QED BY <2>1, <2>2 DEF Rests
<1>2. OwnerStep(c, d)
  BY <1>1 DEF OwnerStep, Rests
<1>3. d.mode # "tcp_ik" /\ (c.startup = "pending" => d.startup = "pending")
  BY DEF Rests
<1>4. Told(c, d)
  <2>1. SUFFICES ASSUME c.job # None PROVE d.last = [id |-> c.job.id, result |-> "aborted"]
    BY DEF Told
  <2> QED BY <2>1 DEF Rests
<1> QED BY <1>2, <1>3, <1>4 DEF Moves, Steps, Rests

LEMMA HaltedMoves ==
  ASSUME NEW c, NEW d, Sound(c), Halted(c, d)
  PROVE  Good(d) /\ Rests(c, d) /\ Moves(c, d) /\ d.ready = c.ready
<1>1. Good(d)
  BY HaltedGood
<1>2. Rests(c, d)
  BY DEF Halted, Ends, Fixed, Rests, Left
<1> QED BY <1>1, <1>2, RestMoves

\* Nobody takes or leaves the arm.
Steady(c, d) ==
  /\ Shape(d) /\ d.mode = c.mode /\ d.requested = c.requested
  /\ d.transitioning = c.transitioning /\ d.renewed = c.renewed /\ d.startup = c.startup
  /\ d.aligning = c.aligning /\ d.aligned = c.aligned /\ d.focus = c.focus /\ d.ready = c.ready
  /\ d.settled \in Nat /\ d.queue \in Ways /\ d.target \in Spots
  /\ \/ d.job = c.job
     \/ c.job = None /\ c.mode = "tool_auto"
  /\ d.job # None /\ d.job.kind = "path" => d.goal # None
  /\ \/ d.goal = c.goal /\ (d.position = c.position \/ d.position \in Positions)
     \/ c.mode \in Clients /\ d.goal \in Positions /\ d.position = c.position

LEMMA SteadyMoves ==
  ASSUME NEW c, NEW d, Good(c), Steady(c, d) PROVE Moves(c, d) /\ d.ready = c.ready
<1>1. Good(d)
  <2>1. /\ c.position \in Spots /\ c.goal \in Spots /\ c.mode \in Modes /\ c.requested \in Modes
        /\ c.transitioning \in BOOLEAN /\ c.renewed \in BOOLEAN
        /\ c.ready \in BOOLEAN /\ c.aligned \in BOOLEAN /\ c.aligning \in Nat \cup {None}
        /\ c.startup \in {"pending", "recovering", "complete"}
    BY DEF Good, Sound, Typed
  <2>2. d.position \in Spots /\ d.goal \in Spots
    BY <2>1 DEF Steady, Spots
  <2>3. Typed(d)
    BY <2>1, <2>2 DEF Steady, Typed
  <2>4. /\ d.startup = "recovering" => c.mode = "hold" /\ d.goal = c.goal
        /\ d.job # None => d.mode = "tool_auto"
    BY DEF Steady, Good, Sound, Clients, Streams
  <2>5. Sound(d)
    BY <2>3, <2>4 DEF Steady, Good, Sound
  <2>6. Entitled(d)
    BY DEF Steady, Good, Entitled, Claimed
  <2> QED BY <2>5, <2>6 DEF Good
<1>2. OwnerOf(d) = OwnerOf(c) /\ (c.mode \in Clients => OwnerOf(c) \in Clients)
  BY DEF Steady, OwnerOf, Clients, Streams
<1>3. OwnerStep(c, d)
  BY <1>2 DEF Steady, OwnerStep
<1>4. \A s \in Clients : Holds(d, s) => Turn(c, d, s)
  BY DEF Steady, Holds, Turn
<1>5. Told(c, d)
  BY DEF Told, Steady
<1> QED BY <1>1, <1>3, <1>4, <1>5 DEF Moves, Steps, Steady

LEMMA SelfMoves == ASSUME NEW c, Good(c) PROVE Moves(c, c)
<1>1. Steady(c, c)
  BY DEF Steady, Good, Sound, Typed
<1> QED BY <1>1, SteadyMoves

LEMMA RequestMoves ==
  ASSUME NEW c, Good(c), NEW m \in Clients \cup {"hold"}
  PROVE  /\ Moves(c, Request(c, m)) /\ Request(c, m).ready = c.ready
         /\ c.mode = "fault" => Request(c, m) = c
<1>1. c.mode = "fault" => Request(c, m) = c
  BY DEF Request, Refuses
<1> QED BY <1>1, RequestFacts, HaltedMoves, SelfMoves DEF Good

-----------------------------------------------------------------------------
(* The callbacks *)

LEMMA FeedbackMoves ==
  ASSUME NEW c, Good(c), NEW p \in Int, NEW v
  PROVE  Moves(c, Feedback(c, p, v)) /\ Feedback(c, p, v).ready = c.ready
         /\ (c.mode = "fault" => Feedback(c, p, v).mode = "fault")
<1>1. CASE Feedback(c, p, v) = Fault(c)
  BY <1>1, FaultGood, HaltedMoves DEF Good
<1>2. CASE Allowed(c, p) /\ Feedback(c, p, v) = Store(c, p, v)
  <2>1. p \in Positions
    BY <1>2, Constants DEF Allowed, Within, Positions
  <2> DEFINE d == Store(c, p, v)
             o == IF ~Outward(c, p, v) THEN None ELSE IF c.outward = None THEN 0 ELSE c.outward
             anew == ~Fresh(c) \/ v # 0 \/ p # c.position
             st == IF v # 0 THEN None ELSE IF anew \/ c.steady = None THEN 0 ELSE c.steady
             t == IF c.target = None THEN p ELSE c.target
  <2>2. d = [c EXCEPT !.outward = o, !.steady = st, !.position = p, !.velocity = v,
                      !.age = 0, !.target = t]
    BY DEF Store
  <2>3. Shape(c) /\ c.target \in Spots /\ c.queue \in Ways /\ c.settled \in Nat
    BY DEF Good, Sound, Typed
  <2>4. t \in Spots
    BY <2>1, <2>3 DEF Spots
  <2> HIDE DEF o, anew, st, t, d
  <2>5. Shape(d)
    BY <2>2, <2>3 DEF Shape
  <2>6. /\ d.mode = c.mode /\ d.requested = c.requested
        /\ d.transitioning = c.transitioning /\ d.renewed = c.renewed
        /\ d.startup = c.startup /\ d.aligning = c.aligning /\ d.aligned = c.aligned
    BY <2>2, <2>3 DEF Shape, Fields
  <2>7. /\ d.focus = c.focus /\ d.ready = c.ready
        /\ d.settled = c.settled /\ d.queue = c.queue /\ d.target = t
        /\ d.job = c.job /\ d.goal = c.goal /\ d.position = p
    BY <2>2, <2>3 DEF Shape, Fields
  <2>8. Steady(c, d)
    BY <2>1, <2>3, <2>4, <2>5, <2>6, <2>7 DEF Steady, Good, Sound
  <2> QED BY <1>2, <2>6, <2>8, SteadyMoves DEF d
<1> QED BY <1>1, <1>2 DEF Feedback

\* A change of what no proof looks at
LEMMA ProofMoves ==
  ASSUME NEW c, Good(c), NEW p, NEW d, d = [c EXCEPT !.proof = p]
  PROVE  Moves(c, d) /\ d.ready = c.ready /\ d.mode = c.mode
<1>1. Shape(c) /\ c.target \in Spots /\ c.queue \in Ways /\ c.settled \in Nat
  BY DEF Good, Sound, Typed
<1>2. Shape(d)
  BY <1>1 DEF Shape
<1>3. /\ d.mode = c.mode /\ d.requested = c.requested
      /\ d.transitioning = c.transitioning /\ d.renewed = c.renewed
      /\ d.startup = c.startup /\ d.aligning = c.aligning /\ d.aligned = c.aligned
  BY <1>1 DEF Shape, Fields
<1>4. /\ d.focus = c.focus /\ d.ready = c.ready
      /\ d.settled = c.settled /\ d.queue = c.queue /\ d.target = c.target
      /\ d.job = c.job /\ d.goal = c.goal /\ d.position = c.position
  BY <1>1 DEF Shape, Fields
<1>5. Steady(c, d)
  BY <1>1, <1>2, <1>3, <1>4 DEF Steady, Good, Sound
<1> QED BY <1>3, <1>5, SteadyMoves

LEMMA FocusedMoves ==
  ASSUME NEW c, Good(c), NEW f
  PROVE  Moves(c, Focused(c, f)) /\ Focused(c, f).ready = c.ready
         /\ (c.mode = "fault" => Focused(c, f).mode = "fault")
<1> DEFINE a == IF f = "arm" THEN c.aligning ELSE None
           t == [c EXCEPT !.focus = f, !.aligning = a]
<1>1. Sound(c) /\ Shape(c) /\ a \in Nat \cup {None}
  BY DEF Good, Sound, Typed
<1> HIDE DEF a
<1>2. Shape(t)
  BY <1>1 DEF Shape
<1>3. /\ t.mode = c.mode /\ t.requested = c.requested
      /\ t.transitioning = c.transitioning /\ t.renewed = c.renewed
      /\ t.startup = c.startup /\ t.aligning = a /\ t.aligned = c.aligned /\ t.last = c.last
  BY <1>1 DEF Shape, Fields
<1>4. /\ t.focus = f /\ t.ready = c.ready
      /\ t.settled = c.settled /\ t.queue = c.queue /\ t.target = c.target
      /\ t.job = c.job /\ t.goal = c.goal /\ t.position = c.position
  BY <1>1 DEF Shape, Fields
<1>5. Focused(c, f) = IF f # "arm" /\ c.mode # "fault" /\ c.startup = "complete"
                      THEN Request(t, "hold") ELSE t
  BY DEF Focused, a
<1>6. a # None => a = c.aligning
  BY DEF a
<1> HIDE DEF t
<1>7. Sound(t)
  <2>1. Typed(t)
    BY <1>1, <1>2, <1>3, <1>4 DEF Sound, Typed
  <2> QED BY <1>1, <1>3, <1>4, <1>6, <2>1 DEF Sound
<1>8. CASE f # "arm" /\ c.mode # "fault" /\ c.startup = "complete"
  <2> DEFINE d == Enter(t, "hold")
  <2>1. Focused(c, f) = d
    BY <1>3, <1>5, <1>8 DEF Request, Refuses
  <2>2. Halted(t, d) /\ Good(d)
    BY <1>3, <1>7, <1>8, EnterGood
  <2>3. Entered(t, d, "hold")
    BY <1>2, EnterFacts
  <2> HIDE DEF d
  <2>4. Rests(c, d)
    BY <1>3, <1>4, <1>6, <1>8, <2>3 DEF Entered, Ends, Fixed, Rests, Left
  <2> QED BY <1>8, <2>1, <2>2, <2>4, RestMoves
<1>9. CASE ~(f # "arm" /\ c.mode # "fault" /\ c.startup = "complete")
  <2>1. Focused(c, f) = t
    BY <1>5, <1>9
  <2>2. f = "arm" \/ ~Claimed(c)
    BY <1>9 DEF Good, Sound, Entitled, Claimed, Clients, Streams
  <2>3. Good(t)
    BY <1>3, <1>4, <1>7, <2>2 DEF Good, Entitled, Claimed
  <2>4. t.aligning = c.aligning \/ t.mode = "fault"
    BY <1>1, <1>3, <1>6, <1>9 DEF a, Sound
  <2>5. OwnerStep(c, t)
    BY <1>3, <1>4, <2>4 DEF OwnerStep, OwnerOf
  <2> QED BY <1>3, <1>4, <2>1, <2>3, <2>5 DEF Moves, Steps, Told, Holds, Turn
<1> QED BY <1>8, <1>9

LEMMA ResetMoves ==
  ASSUME NEW c, Good(c) PROVE Moves(c, Reset(c)) /\ Reset(c).ready = c.ready
<1>1. CASE ~CanReset(c)
  BY <1>1, SelfMoves DEF Reset
<1>2. CASE CanReset(c)
  <2> DEFINE again == IF AlignmentEnabled /\ ~c.aligned
                      THEN [c EXCEPT !.aligning = None, !.alignSteady = None] ELSE c
             r == [again EXCEPT !.mode = "hold"]
             d == Enter(r, "hold")
  <2>1. Sound(c) /\ Shape(c) /\ c.startup = "complete"
    BY <1>2 DEF Good, Sound, Typed, CanReset
  <2>2. /\ Shape(again) /\ again.aligning \in {c.aligning, None}
        /\ again.startup = c.startup /\ again.last = c.last /\ again.job = c.job
        /\ again.target = c.target
    BY <2>1 DEF Shape, Fields
  <2>3. /\ again.position = c.position /\ again.velocity = c.velocity /\ again.age = c.age
        /\ again.focus = c.focus /\ again.ready = c.ready /\ again.aligned = c.aligned
    BY <2>1 DEF Shape, Fields
  <2>4. Reset(c) = Request(r, "hold")
    BY <1>2 DEF Reset
  <2> HIDE DEF again
  <2>5. /\ Shape(r) /\ r.mode = "hold" /\ r.aligning = again.aligning
        /\ r.startup = again.startup /\ r.last = again.last /\ r.job = again.job
        /\ r.target = again.target
    BY <2>2 DEF Shape, Fields
  <2>6. /\ r.position = again.position /\ r.velocity = again.velocity /\ r.age = again.age
        /\ r.focus = again.focus /\ r.ready = again.ready /\ r.aligned = again.aligned
    BY <2>2 DEF Shape, Fields
  <2> HIDE DEF r
  <2>7. Reset(c) = d
    BY <2>1, <2>2, <2>4, <2>5 DEF Request, Refuses
  <2>8. Entered(r, d, "hold")
    BY <2>5, EnterFacts
  <2> HIDE DEF d
  <2>9. Fixed(c, d)
    BY <2>3, <2>6, <2>8 DEF Entered, Ends, Fixed
  <2>10. Ends(c, d)
    BY <2>2, <2>3, <2>5, <2>6, <2>8, <2>9 DEF Entered, Ends
  <2>11. Left(c, d)
    BY <2>1, <2>2, <2>5, <2>8 DEF Entered, Left
  <2> QED BY <2>1, <2>7, <2>10, <2>11, HaltedMoves DEF Halted
<1> QED BY <1>1, <1>2

-----------------------------------------------------------------------------
(* What producers send *)

LEMMA Standing ==
  ASSUME NEW c, Good(c)
  PROVE  /\ Shape(c) /\ c.target \in Spots /\ c.queue \in Ways /\ c.settled \in Nat
         /\ c.position \in Spots /\ c.goal \in Spots /\ c.mode \in Modes
         /\ c.job # None => c.mode = "tool_auto"
         /\ c.job # None /\ c.job.kind = "path" => c.goal # None
  BY DEF Good, Sound, Typed

\* Only the goal, the target and what hangs on an execution change.
Work == {"target", "goal", "ee", "command", "started", "settled", "queue", "stop", "job",
         "stall", "last"}

LEMMA Working ==
  ASSUME NEW c, Good(c), NEW d, Shape(d), \A f \in Fields \ Work : d[f] = c[f],
         d.settled \in Nat, d.queue \in Ways, d.target \in Spots,
         d.job = c.job \/ (c.job = None /\ c.mode = "tool_auto"),
         d.job # None /\ d.job.kind = "path" => d.goal # None,
         d.goal = c.goal \/ (c.mode \in Clients /\ d.goal \in Positions)
  PROVE  Moves(c, d) /\ d.ready = c.ready
<1>1. /\ d.mode = c.mode /\ d.requested = c.requested
      /\ d.transitioning = c.transitioning /\ d.renewed = c.renewed /\ d.startup = c.startup
      /\ d.aligning = c.aligning /\ d.aligned = c.aligned /\ d.focus = c.focus
      /\ d.ready = c.ready /\ d.position = c.position
  BY DEF Fields, Work
<1>2. Steady(c, d)
  BY <1>1 DEF Steady
<1> QED BY <1>2, SteadyMoves

LEMMA CommandMoves ==
  ASSUME NEW c, Good(c), NEW s \in Clients, NEW cur, NEW m
  PROVE  Moves(c, Command(c, s, cur, m)) /\ Command(c, s, cur, m).ready = c.ready
<1> DEFINE d == Command(c, s, cur, m)
<1>1. CASE d = c
  BY <1>1, SelfMoves
<1>2. CASE d # c
  <2>1. d = [c EXCEPT !.goal = m.at, !.ee = m.ee, !.command = 0] /\ m.at \in Within /\ c.mode = s
    BY <1>2 DEF Command, Owner
  <2> HIDE DEF d
  <2>2. Shape(d) /\ d.goal = m.at /\ \A f \in Fields \ {"goal", "ee", "command"} : d[f] = c[f]
    BY <2>1, Standing DEF Shape, Fields
  <2>3. d.target = c.target /\ d.queue = c.queue /\ d.settled = c.settled /\ d.job = c.job
    BY <2>2 DEF Fields
  <2>4. m.at \in Positions /\ m.at # None
    BY <2>1, Constants DEF Within, Positions
  <2>5. \A f \in Fields \ Work : d[f] = c[f]
    BY <2>2 DEF Work
  <2>6. c.mode \in Clients /\ d.goal \in Positions /\ d.goal # None
    BY <2>1, <2>2, <2>4
  <2>7. Moves(c, d) /\ d.ready = c.ready
    BY <2>2, <2>3, <2>5, <2>6, Standing, Working
  <2> QED BY <2>7 DEF d
<1> QED BY <1>1, <1>2

LEMMA HeldMoves ==
  ASSUME NEW c, Good(c), c.mode \in Clients, c.position # None
  PROVE  Moves(c, HoldMeasured(c)) /\ HoldMeasured(c).ready = c.ready
<1> DEFINE d == HoldMeasured(c)
<1>1. d = [c EXCEPT !.target = c.position, !.goal = c.position]
  BY DEF HoldMeasured
<1> HIDE DEF d
<1>2. /\ Shape(d) /\ d.goal = c.position /\ d.target = c.position
      /\ \A f \in Fields \ {"goal", "target"} : d[f] = c[f]
  BY <1>1, Standing DEF Shape, Fields
<1>3. d.queue = c.queue /\ d.settled = c.settled /\ d.job = c.job
  BY <1>2 DEF Fields
<1>4. c.position \in Positions
  BY Standing DEF Spots
<1>5. \A f \in Fields \ Work : d[f] = c[f]
  BY <1>2 DEF Work
<1>6. d.goal \in Positions /\ d.goal # None
  BY <1>2, <1>4
<1>7. Moves(c, d) /\ d.ready = c.ready
  BY <1>2, <1>3, <1>4, <1>5, <1>6, Standing, Working
<1> QED BY <1>7 DEF d

LEMMA PauseMoves ==
  ASSUME NEW c, Good(c), NEW cur
  PROVE  /\ Moves(c, PauseTcp(c, cur)) /\ PauseTcp(c, cur).ready = c.ready
         /\ c.mode = "fault" => PauseTcp(c, cur).mode = "fault"
<1> DEFINE d == PauseTcp(c, cur)
<1>1. CASE ~Owner(c, "tcp_ik", cur)
  BY <1>1, SelfMoves DEF PauseTcp
<1>2. CASE Owner(c, "tcp_ik", cur) /\ (~c.ready \/ ~Fresh(c) \/ ~Valid(c))
  BY <1>2, FaultGood, HaltedMoves DEF PauseTcp, Good
<1>3. CASE Owner(c, "tcp_ik", cur) /\ ~(~c.ready \/ ~Fresh(c) \/ ~Valid(c))
  <2> DEFINE h == HoldMeasured(c)
  <2>1. /\ d = [h EXCEPT !.ee = FALSE, !.command = 0] /\ c.mode = "tcp_ik"
        /\ h = [c EXCEPT !.target = c.position, !.goal = c.position] /\ c.position \in Positions
        /\ c.position # None
    BY <1>3, Standing DEF PauseTcp, HoldMeasured, Owner, Fresh, Spots
  <2> HIDE DEF d, h
  <2>2. /\ Shape(h) /\ h.goal = c.position /\ h.target = c.position
        /\ \A f \in Fields \ {"goal", "target"} : h[f] = c[f]
    BY <2>1, Standing DEF Shape, Fields
  <2>3. Shape(d) /\ \A f \in Fields \ {"ee", "command"} : d[f] = h[f]
    BY <2>1, <2>2, ZenonT(60) DEF Shape, Fields
  <2>4. /\ d.queue = c.queue /\ d.settled = c.settled /\ d.job = c.job
        /\ d.goal = c.position /\ d.target = c.position
    BY <2>2, <2>3 DEF Fields
  <2>5. \A f \in Fields \ Work : d[f] = c[f]
    BY <2>2, <2>3 DEF Work
  <2>6. c.mode \in Clients /\ d.goal \in Positions /\ d.goal # None /\ d.target \in Spots
    BY <2>1, <2>4 DEF Clients, Streams, Spots
  <2>7. Moves(c, d) /\ d.ready = c.ready
    BY <2>3, <2>4, <2>5, <2>6, Standing, Working
  <2> QED BY <2>1, <2>7 DEF d
<1> QED BY <1>1, <1>2, <1>3

\* A halt that also holds the target where the arm is is still a halt.
LEMMA HaltHeld ==
  ASSUME NEW c, NEW d, Halted(c, d) PROVE Halted(c, HoldMeasured(d))
<1> DEFINE h == HoldMeasured(d)
<1>1. Shape(d)
  BY DEF Halted, Ends, Fixed
<1>2. /\ Shape(h) /\ Fixed(d, h)
      /\ h.target = IF d.position = None THEN d.target ELSE d.position
      /\ h.goal = IF d.position = None THEN d.goal ELSE d.position
      /\ h.renewed = d.renewed /\ h.job = d.job /\ h.queue = d.queue
      /\ h.settled = d.settled /\ h.last = d.last
      /\ h.mode = d.mode /\ h.requested = d.requested
      /\ h.transitioning = d.transitioning /\ h.startup = d.startup
      /\ h.aligning = d.aligning
  BY <1>1, HeldFacts
<1> HIDE DEF h
<1>3. Fixed(c, h)
  BY <1>2 DEF Halted, Ends, Fixed
<1>4. h.goal \in {None, c.position} /\ h.target \in {c.target, c.position}
  BY <1>2 DEF Halted, Ends, Fixed
<1>5. Ends(c, h)
  BY <1>2, <1>3, <1>4 DEF Halted, Ends
<1>6. Left(c, h)
  BY <1>2 DEF Halted, Left
<1> QED BY <1>5, <1>6 DEF Halted, h

\* An owner that asks for HOLD gets it.
LEMMA OwnerHalts ==
  ASSUME NEW c, Good(c), c.mode \in Clients PROVE Halted(c, Request(c, "hold"))
<1>1. c.startup = "complete" /\ c.mode # "fault" /\ Sound(c)
  BY DEF Good, Entitled, Claimed, Clients, Streams
<1>2. Request(c, "hold") = Enter(c, "hold")
  BY <1>1 DEF Request, Refuses
<1> QED BY <1>1, <1>2, EnterGood

LEMMA StopMoves ==
  ASSUME NEW c, Good(c), NEW cur
  PROVE  /\ Moves(c, StopTcp(c, cur)) /\ StopTcp(c, cur).ready = c.ready
         /\ c.mode = "fault" => StopTcp(c, cur).mode = "fault"
<1>1. CASE ~Owner(c, "tcp_ik", cur)
  BY <1>1, SelfMoves DEF StopTcp
<1>2. CASE Owner(c, "tcp_ik", cur) /\ (~c.ready \/ ~Fresh(c) \/ ~Valid(c))
  BY <1>2, FaultGood, HaltedMoves DEF StopTcp, Good
<1>3. CASE Owner(c, "tcp_ik", cur) /\ ~(~c.ready \/ ~Fresh(c) \/ ~Valid(c))
  <2>1. StopTcp(c, cur) = HoldMeasured(Request(c, "hold")) /\ c.mode \in Clients
        /\ c.mode # "fault"
    BY <1>3 DEF StopTcp, Owner, Clients, Streams
  <2> QED BY <2>1, OwnerHalts, HaltHeld, HaltedMoves DEF Good
<1> QED BY <1>1, <1>2, <1>3

LEMMA CancelMoves ==
  ASSUME NEW c, Good(c), NEW cur, NEW m
  PROVE  /\ Moves(c, CancelPath(c, cur, m)) /\ CancelPath(c, cur, m).ready = c.ready
         /\ c.mode = "fault" => CancelPath(c, cur, m).mode = "fault"
<1>1. CASE CancelPath(c, cur, m) = c
  BY <1>1, SelfMoves
<1>2. CASE CancelPath(c, cur, m) # c
  <2>1. /\ c.mode = "tool_auto" /\ c.mode \in Clients
        /\ CancelPath(c, cur, m) \in {Request(c, "hold"), HoldMeasured(Request(c, "hold"))}
    BY <1>2 DEF CancelPath, Clients
  <2> QED BY <2>1, OwnerHalts, HaltHeld, HaltedMoves DEF Good
<1> QED BY <1>1, <1>2

LEMMA StartEEMoves ==
  ASSUME NEW c, Good(c), NEW cur, NEW m
  PROVE  Moves(c, StartEE(c, cur, m)) /\ StartEE(c, cur, m).ready = c.ready
<1> DEFINE d == StartEE(c, cur, m)
<1>1. CASE ~(Owner(c, "tool_auto", cur) /\ Usable(c) /\ c.job = None /\ Stopped(c))
  BY <1>1, SelfMoves DEF StartEE
<1>2. CASE Owner(c, "tool_auto", cur) /\ Usable(c) /\ c.job = None /\ Stopped(c)
  <2> DEFINE h == HoldMeasured(c)
             j == [id |-> m.id, kind |-> "ee"]
  <2>1. /\ d = [h EXCEPT !.job = j, !.started = 0, !.settled = 0] /\ c.mode = "tool_auto"
        /\ h = [c EXCEPT !.target = c.position, !.goal = c.position] /\ c.position \in Positions
        /\ c.position # None /\ c.job = None
    BY <1>2, Standing DEF StartEE, HoldMeasured, Owner, Usable, Fresh, Spots
  <2> HIDE DEF d, h, j
  <2>2. /\ Shape(h) /\ h.goal = c.position /\ h.target = c.position
        /\ \A f \in Fields \ {"goal", "target"} : h[f] = c[f]
    BY <2>1, Standing DEF Shape, Fields
  <2>3. Shape(d) /\ d.settled = 0 /\ \A f \in Fields \ {"job", "started", "settled"} : d[f] = h[f]
    BY <2>1, <2>2, ZenonT(60) DEF Shape, Fields
  <2>4. d.queue = c.queue /\ d.goal = c.position /\ d.target = c.position
    BY <2>2, <2>3 DEF Fields
  <2>5. \A f \in Fields \ Work : d[f] = c[f]
    BY <2>2, <2>3 DEF Work
  <2>6. c.mode \in Clients /\ d.goal \in Positions /\ d.goal # None /\ d.target \in Spots
    BY <2>1, <2>4 DEF Clients, Streams, Spots
  <2>7. d.settled \in Nat
    BY <2>3
  <2>8. d.queue \in Ways
    BY <2>4, Standing
  <2>9. c.job = None /\ c.mode = "tool_auto" /\ Shape(d)
    BY <2>1, <2>3
  <2>10. Moves(c, d) /\ d.ready = c.ready
    BY <2>5, <2>6, <2>7, <2>8, <2>9, Working
  <2> QED BY <2>10 DEF d
<1> QED BY <1>1, <1>2

LEMMA NextWaypointFacts ==
  ASSUME NEW c, Shape(c), c.queue \in Ways, c.queue # <<>>
  PROVE  LET d == NextWaypoint(c)
         IN  /\ Shape(d) /\ d.goal \in Within /\ d.queue \in Ways
             /\ \A f \in Fields \ {"goal", "stop", "queue", "stall"} : d[f] = c[f]
<1> DEFINE d == NextWaypoint(c)
           g == Head(c.queue).at
           p == Head(c.queue).stop
           q == Tail(c.queue)
<1>1. d = [c EXCEPT !.goal = g, !.stop = p, !.queue = q, !.stall = None]
  BY DEF NextWaypoint
<1>2. Head(c.queue) \in [at : Within, stop : BOOLEAN] /\ q \in Ways
  BY HeadTailProperties DEF Ways
<1>3. g \in Within
  BY <1>2
<1> HIDE DEF g, p, q, d
<1>4. /\ Shape(d) /\ d.goal = g /\ d.queue = q
      /\ \A f \in Fields \ {"goal", "stop", "queue", "stall"} : d[f] = c[f]
  BY <1>1 DEF Shape, Fields
<1> QED BY <1>2, <1>3, <1>4 DEF d

LEMMA WithStopsTyped ==
  ASSUME NEW c, NEW ways \in Seq([at : Int, stop : BOOLEAN]), ways # <<>>,
         \A i \in 1 .. Len(ways) : ways[i].at \in Within
  PROVE  WithStops(c, ways) \in Ways /\ WithStops(c, ways) # <<>>
<1> DEFINE w == WithStops(c, ways)
           e(i) == [at |-> ways[i].at,
                    stop |-> \/ ways[i].stop
                             \/ /\ i < Len(ways)
                                /\ Reverses(IF i = 1 THEN c.target ELSE ways[i - 1].at,
                                            ways[i].at, ways[i + 1].at)]
<1>1. w = [i \in 1 .. Len(ways) |-> e(i)] /\ Len(ways) \in Nat /\ Len(ways) # 0
  BY DEF WithStops
<1>2. ASSUME NEW i \in 1 .. Len(ways) PROVE e(i) \in [at : Within, stop : BOOLEAN]
  OBVIOUS
<1> HIDE DEF e, w
<1>3. w \in [1 .. Len(ways) -> [at : Within, stop : BOOLEAN]]
  BY <1>1, <1>2
<1>4. w \in Ways
  <2> DEFINE R == [at : Within, stop : BOOLEAN]
  <2>1. Len(ways) \in Nat /\ w \in [1 .. Len(ways) -> R]
    BY <1>1, <1>3
  <2>2. Ways = Seq(R)
    BY DEF Ways
  <2> HIDE DEF R
  <2>3. w \in Seq(R)
    BY <2>1, SeqDef, SMTT(30)
  <2> QED BY <2>2, <2>3
<1>5. w # <<>>
  <2>1. DOMAIN w = 1 .. Len(ways) /\ 1 \in 1 .. Len(ways)
    BY <1>1
  <2>2. DOMAIN w # DOMAIN <<>>
    BY <2>1
  <2> QED BY <2>2
<1> QED BY <1>4, <1>5 DEF w

LEMMA PathMoves ==
  ASSUME NEW c, Good(c), NEW cur, NEW m, m.ways \in Seq([at : Int, stop : BOOLEAN])
  PROVE  Moves(c, Path(c, cur, m)) /\ Path(c, cur, m).ready = c.ready
<1> DEFINE d == Path(c, cur, m)
<1>1. CASE d = c
  BY <1>1, SelfMoves
<1>2. CASE d # c
  <2> DEFINE w == WithStops(c, m.ways)
             j == [id |-> m.id, kind |-> "path"]
             set == [c EXCEPT !.queue = w, !.job = j]
             n == NextWaypoint(set)
  <2>1. /\ d = [n EXCEPT !.started = 0] /\ c.mode = "tool_auto" /\ c.job = None
        /\ m.ways # <<>> /\ \A i \in 1 .. Len(m.ways) : m.ways[i].at \in Within
    BY <1>2 DEF Path, Owner
  <2>2. w \in Ways /\ w # <<>>
    BY <2>1, WithStopsTyped
  <2> HIDE DEF w, j, d
  <2>3. /\ Shape(set) /\ set.queue = w
        /\ \A f \in Fields \ {"queue", "job"} : set[f] = c[f]
    BY Standing DEF Shape, Fields
  <2> HIDE DEF set
  <2>4. /\ Shape(n) /\ n.goal \in Within /\ n.queue \in Ways
        /\ \A f \in Fields \ {"goal", "stop", "queue", "stall"} : n[f] = set[f]
    BY <2>2, <2>3, NextWaypointFacts
  <2> HIDE DEF n
  <2>5. Shape(d) /\ \A f \in Fields \ {"started"} : d[f] = n[f]
    BY <2>1, <2>4 DEF Shape, Fields
  <2>6. /\ d.goal = n.goal /\ d.queue = n.queue /\ d.target = c.target
        /\ d.settled = c.settled
    BY <2>3, <2>4, <2>5 DEF Fields
  <2>7. \A f \in Fields \ Work : d[f] = c[f]
    BY <2>3, <2>4, <2>5 DEF Work
  <2>8. d.goal \in Positions /\ d.goal # None
    BY <2>4, <2>6, Constants DEF Within, Positions
  <2>9. d.queue \in Ways /\ d.target \in Spots /\ d.settled \in Nat /\ c.mode \in Clients
    BY <2>1, <2>4, <2>6, Standing DEF Clients
  <2>10. Moves(c, d) /\ d.ready = c.ready
    BY <2>1, <2>5, <2>7, <2>8, <2>9, Working
  <2> QED BY <2>10 DEF d
<1> QED BY <1>1, <1>2

-----------------------------------------------------------------------------
(* A message from a producer's queue *)

LEMMA HandledMoves ==
  ASSUME NEW c, Good(c), env \in Surroundings, NEW s \in Clients,
         NEW m, m.body \in env.messages[s], NEW d \in Handled(c, s, m)
  PROVE  /\ Moves(c, d) /\ d.ready = c.ready /\ (c.mode = "fault" => d.mode = "fault")
<1>1. /\ m.body.kind \in Kinds[s]
      /\ m.body.kind = "path" => m.body.ways \in Seq([at : Int, stop : BOOLEAN])
  <2>1. m.body.kind \in Kinds[s]
    BY ManagerAssumption DEF Surrounding
  <2>2. m.body.kind = "path" => s = "tool_auto"
    BY <2>1 DEF Kinds, Clients, Streams
  <2>3. \A b \in env.messages["tool_auto"] :
          b.kind = "path" => b.ways \in Seq([at : Int, stop : BOOLEAN])
    BY ManagerAssumption DEF Surrounding
  <2> QED BY <2>1, <2>2, <2>3
<1>2. m.body.kind \in {"fault", "move", "pause", "stop", "path", "ee", "cancel", "jog"}
  BY <1>1 DEF Kinds, Clients, Streams
<1>3. CASE d = c
  BY <1>3, SelfMoves
<1>4. CASE d = Fault(c)
  BY <1>4, FaultGood, HaltedMoves DEF Good
<1>5. CASE m.body.kind = "fault"
  BY <1>3, <1>4, <1>5 DEF Handled
<1>6. CASE m.body.kind = "move"
  <2>1. d = Command(c, s, m.cur, m.body)
    BY <1>6 DEF Handled
  <2>2. c.mode = "fault" => d = c
    BY <2>1 DEF Command, Owner, Clients, Streams
  <2> QED BY <2>1, <2>2, CommandMoves
<1>7. CASE m.body.kind = "pause"
  BY <1>7, PauseMoves DEF Handled
<1>8. CASE m.body.kind = "stop"
  BY <1>8, StopMoves DEF Handled
<1>9. CASE m.body.kind = "path"
  <2>1. d = Path(c, m.cur, m.body)
    BY <1>9 DEF Handled
  <2>2. c.mode = "fault" => d = c
    BY <2>1 DEF Path, Owner
  <2> QED BY <1>1, <1>9, <2>1, <2>2, PathMoves
<1>10. CASE m.body.kind = "ee"
  <2>1. d = c \/ d = StartEE(c, m.cur, m.body)
    BY <1>10 DEF Handled
  <2>2. c.mode = "fault" => d = c
    BY <2>1 DEF StartEE, Owner
  <2> QED BY <1>3, <2>1, <2>2, StartEEMoves
<1>11. CASE m.body.kind = "cancel"
  BY <1>11, CancelMoves DEF Handled
<1>12. CASE m.body.kind = "jog"
  BY <1>3, <1>12 DEF Handled
<1> QED BY <1>2, <1>5, <1>6, <1>7, <1>8, <1>9, <1>10, <1>11, <1>12

\* A message under another epoch, or of one who is not the owner, changes nothing.
LEMMA HandledOld ==
  ASSUME NEW c, env \in Surroundings, NEW s \in Clients,
         NEW m, m.body \in env.messages[s], NEW d \in Handled(c, s, m),
         m.cur \in BOOLEAN, ~(m.cur /\ c.mode = s)
  PROVE  d = c
<1>1. m.body.kind \in Kinds[s]
  BY ManagerAssumption DEF Surrounding
<1>2. /\ m.body.kind \in {"pause", "stop"} => s = "tcp_ik"
      /\ m.body.kind \in {"path", "ee", "cancel"} => s = "tool_auto"
      /\ m.body.kind \in {"fault", "move", "pause", "stop", "path", "ee", "cancel", "jog"}
  BY <1>1 DEF Kinds, Clients, Streams
<1>3. CASE m.body.kind \in {"fault", "jog"}
  BY <1>3 DEF Handled
<1>4. CASE m.body.kind = "move"
  BY <1>4 DEF Handled, Command, Owner
<1>5. CASE m.body.kind \in {"pause", "stop"}
  BY <1>2, <1>5 DEF Handled, PauseTcp, StopTcp, Owner
<1>6. CASE m.body.kind \in {"path", "ee", "cancel"}
  BY <1>2, <1>6 DEF Handled, Path, StartEE, CancelPath, Owner
<1> QED BY <1>2, <1>3, <1>4, <1>5, <1>6

-----------------------------------------------------------------------------
(* The tick *)

LEMMA HaltedTwice ==
  ASSUME NEW c, NEW d, NEW e, Halted(c, d), Halted(d, e) PROVE Halted(c, e)
<1>1. Fixed(c, e)
  BY DEF Halted, Ends, Fixed
<1>2. e.goal \in {None, c.position} /\ e.target \in {c.target, c.position}
  BY DEF Halted, Ends, Fixed
<1>3. Ends(c, e)
  BY <1>1, <1>2 DEF Halted, Ends
<1>4. /\ d.focus = c.focus /\ d.ready = c.ready /\ d.aligned = c.aligned
      /\ d.aligning \in {c.aligning, None}
      /\ d.startup = IF c.startup = "recovering" THEN "pending" ELSE c.startup
  BY DEF Halted, Ends, Fixed, Left
<1>5. Left(c, e)
  BY <1>4 DEF Halted, Left
<1> QED BY <1>3, <1>5 DEF Halted

\* What the motion of a tick touches, besides a new goal
Driven(c, d) ==
  /\ Shape(d) /\ d.target \in Spots /\ d.settled \in Nat
  /\ \A f \in Fields \ {"target", "settled", "stall", "ee", "recovery"} : d[f] = c[f]

LEMMA DrivenFacts ==
  ASSUME NEW c, NEW d, Driven(c, d)
  PROVE  /\ Shape(d) /\ d.target \in Spots /\ d.settled \in Nat
         /\ d.mode = c.mode /\ d.requested = c.requested
         /\ d.transitioning = c.transitioning /\ d.renewed = c.renewed /\ d.startup = c.startup
         /\ d.aligning = c.aligning /\ d.aligned = c.aligned /\ d.focus = c.focus
         /\ d.ready = c.ready /\ d.queue = c.queue /\ d.job = c.job /\ d.last = c.last
         /\ d.goal = c.goal /\ d.position = c.position /\ d.velocity = c.velocity
         /\ d.age = c.age /\ d.proof = c.proof /\ d.steady = c.steady
<1>1. /\ d.mode = c.mode /\ d.requested = c.requested
      /\ d.transitioning = c.transitioning /\ d.renewed = c.renewed /\ d.startup = c.startup
      /\ d.aligning = c.aligning /\ d.aligned = c.aligned /\ d.focus = c.focus
  BY DEF Driven, Fields
<1>2. /\ d.ready = c.ready /\ d.queue = c.queue /\ d.job = c.job /\ d.last = c.last
      /\ d.goal = c.goal /\ d.position = c.position /\ d.velocity = c.velocity
      /\ d.age = c.age /\ d.proof = c.proof /\ d.steady = c.steady
  BY DEF Driven, Fields
<1> QED BY <1>1, <1>2 DEF Driven

LEMMA DrivenGood ==
  ASSUME NEW c, NEW d, Sound(c), Driven(c, d)
  PROVE  Sound(d) /\ (Good(c) => Good(d))
<1>1. Typed(d)
  BY DrivenFacts DEF Sound, Typed
<1>2. Sound(d)
  BY <1>1, DrivenFacts DEF Sound
<1>3. Entitled(c) => Entitled(d)
  BY DrivenFacts DEF Entitled, Claimed
<1> QED BY <1>2, <1>3 DEF Good

\* Motion adds nothing to who has the arm.
LEMMA DrivenSteps ==
  ASSUME NEW c, NEW g, NEW d, Moves(c, g), Driven(g, d) PROVE Moves(c, d) /\ d.ready = g.ready
<1>1. Good(d)
  BY DrivenGood DEF Moves, Steps, Good
<1>2. EntryClear(g) => EntryClear(d)
  BY DrivenFacts DEF EntryClear, Fresh, Stopped
<1>3. OwnerStep(c, d)
  <2>1. OwnerStep(c, g) /\ d.goal = g.goal /\ d.position = g.position
    BY DrivenFacts DEF Moves, Steps
  <2>2. /\ d.mode = g.mode /\ d.startup = g.startup /\ d.aligning = g.aligning
        /\ d.transitioning = g.transitioning
    BY DrivenFacts
  <2>3. OwnerOf(d) = OwnerOf(g)
    BY <2>2 DEF OwnerOf
  <2> QED BY <2>1, <2>3 DEF OwnerStep
<1>4. Told(c, d)
  BY DrivenFacts DEF Told, Moves, Steps
<1>5. d.renewed \/ \A s \in Clients : Holds(d, s) => Turn(c, d, s)
  BY DrivenFacts DEF Holds, Turn, Moves, Steps
<1> QED BY <1>1, <1>2, <1>3, <1>4, <1>5, DrivenFacts DEF Moves, Steps

\* The arm has been given up already, or is as it was.
After(c, g) == Sound(c) /\ Good(g) /\ (g = c \/ Halted(c, g))

LEMMA AfterMoves ==
  ASSUME NEW c, NEW g, After(c, g) PROVE Moves(c, g) /\ g.ready = c.ready
<1>1. CASE g = c
  BY <1>1, SelfMoves DEF After
<1>2. CASE Halted(c, g)
  BY <1>2, HaltedMoves DEF After
<1> QED BY <1>1, <1>2 DEF After

\* A motion that is given up after it went on for this tick
LEMMA AfterHalted ==
  ASSUME NEW c, NEW g, NEW d, NEW e, After(c, g), Driven(g, d), Halted(d, e)
  PROVE  Moves(c, e) /\ e.ready = c.ready
<1>1. Sound(d)
  BY DrivenGood DEF After, Good
<1>2. Good(e) /\ Rests(d, e)
  BY <1>1, HaltedMoves
<1>3. Rests(g, e)
  BY <1>2, DrivenFacts DEF Rests
<1>4. CASE g = c
  BY <1>2, <1>3, <1>4, RestMoves
<1>5. CASE Halted(c, g)
  <2>1. Rests(c, g)
    BY <1>5, HaltedMoves DEF After
  <2>2. Rests(c, e)
    BY <1>3, <2>1 DEF Rests
  <2> QED BY <1>2, <2>2, RestMoves
<1> QED BY <1>4, <1>5 DEF After

\* Where a target goes is a place.
LEMMA TowardsPlace ==
  ASSUME NEW a \in Positions, NEW b \in Positions PROVE Towards(a, b) \in Positions
  BY Constants DEF Towards, Positions

LEMMA Places ==
  ASSUME NEW x PROVE /\ x \in Positions => x # None /\ x \in Int /\ x \in Spots
                     /\ x \in Spots /\ x # None => x \in Positions
                     /\ x \in Within => x \in Positions
  BY Constants DEF Positions, Spots, Within

LEMMA FinishMoves ==
  ASSUME NEW c, NEW g, Good(c), Driven(c, g), c.mode = "tool_auto", c.job # None,
         c.job.kind = "path" => c.queue = <<>> /\ c.position = c.goal /\ Stopped(c)
  PROVE  Moves(c, Finish(g)) /\ Finish(g).ready = c.ready
<1> DEFINE e == Enter(g, "hold")
           d == Finish(g)
           l == [id |-> c.job.id, result |-> "succeeded"]
<1>1. d = [e EXCEPT !.last = l]
  BY DrivenFacts DEF Finish
<1>2. Sound(g) /\ g.startup = "complete" /\ c.startup = "complete"
  BY DrivenGood, DrivenFacts DEF Good, Entitled, Claimed, Clients
<1>3. Halted(g, e) /\ Good(e) /\ Entered(g, e, "hold")
  BY <1>2, EnterGood, EnterFacts DEF Sound, Typed
<1> HIDE DEF e, d, l
<1>4. Shape(e)
  BY <1>3 DEF Good, Sound, Typed
<1>5. Shape(d) /\ d.last = l /\ \A f \in Fields \ {"last"} : d[f] = e[f]
  BY <1>1, <1>4 DEF Shape, Fields
<1>6. /\ d.mode = e.mode /\ d.requested = e.requested /\ d.transitioning = e.transitioning
      /\ d.renewed = e.renewed /\ d.startup = e.startup
      /\ d.aligning = e.aligning /\ d.aligned = e.aligned /\ d.focus = e.focus
  BY <1>5 DEF Fields
<1>7. /\ d.ready = e.ready /\ d.queue = e.queue /\ d.job = e.job /\ d.target = e.target
      /\ d.goal = e.goal /\ d.position = e.position /\ d.settled = e.settled
  BY <1>5 DEF Fields
<1>8. Good(d)
  <2>1. Typed(d)
    BY <1>3, <1>5, <1>6, <1>7 DEF Good, Sound, Typed
  <2>2. Sound(d)
    BY <1>3, <1>6, <1>7, <2>1 DEF Good, Sound
  <2>3. Entitled(d)
    BY <1>3, <1>6, <1>7 DEF Good, Entitled, Claimed
  <2> QED BY <2>2, <2>3 DEF Good
<1>9. /\ d.position = c.position /\ d.ready = c.ready /\ d.renewed = TRUE
      /\ d.goal \in {None, c.position} /\ d.mode = "hold" /\ d.transitioning = TRUE
      /\ d.startup = "complete"
  BY <1>3, <1>6, <1>7, <1>2, DrivenFacts DEF Entered, Ends, Fixed
<1>10. Told(c, d)
  <2>1. d.last = [id |-> c.job.id, result |-> "succeeded"]
    BY <1>5 DEF l
  <2> QED BY <2>1 DEF Told
<1>11. OwnerOf(d) = "none"
  BY <1>9 DEF OwnerOf, Clients, Streams
<1>12. OwnerStep(c, d)
  BY <1>9, <1>11 DEF OwnerStep
<1>13. Moves(c, d) /\ d.ready = c.ready
  BY <1>2, <1>8, <1>9, <1>10, <1>12 DEF Moves, Steps
<1> QED BY <1>13 DEF d

LEMMA RunEEMoves ==
  ASSUME NEW c, Good(c), c.mode = "tool_auto", c.job # None, c.job.kind = "ee",
         NEW o \in {"turn", "wait", "abort", "done"}
  PROVE  Moves(c, RunEE(c, o)) /\ RunEE(c, o).ready = c.ready
<1> DEFINE q == [c EXCEPT !.ee = FALSE]
           t == [c EXCEPT !.ee = TRUE]
<1>1. Shape(q) /\ Shape(t) /\ \A f \in Fields \ {"ee"} : q[f] = c[f] /\ t[f] = c[f]
  BY Standing DEF Shape, Fields
<1> HIDE DEF q, t
<1>2. q.target = c.target /\ q.settled = c.settled /\ t.target = c.target /\ t.settled = c.settled
  BY <1>1 DEF Fields
<1>3. Driven(c, q) /\ Driven(c, t)
  BY <1>1, <1>2, Standing DEF Driven
<1>4. Good(q) /\ q.mode = "tool_auto"
  BY <1>3, DrivenGood, DrivenFacts DEF Good
<1>5. After(c, c)
  BY DEF After, Good
<1>6. CASE o = "turn"
  BY <1>3, <1>6, DrivenSteps, SelfMoves DEF RunEE, t
<1>7. CASE o = "wait"
  BY <1>3, <1>7, DrivenSteps, SelfMoves DEF RunEE, q
<1>8. CASE o = "abort"
  <2>1. RunEE(c, o) = AbortToHold(q)
    BY <1>8 DEF RunEE, q
  <2>2. Halted(q, AbortToHold(q))
    BY <1>4, AbortGood
  <2> QED BY <1>3, <1>5, <2>1, <2>2, AfterHalted
<1>9. CASE o = "done"
  <2>1. RunEE(c, o) = Finish(c) /\ Driven(c, c) /\ c.job.kind # "path"
    BY <1>9, Standing DEF RunEE, Driven
  <2> QED BY <2>1, FinishMoves
<1> QED BY <1>6, <1>7, <1>8, <1>9

LEMMA RunStartupMoves ==
  ASSUME NEW c, Good(c), c.startup = "recovering", c.target # None, NEW dt
  PROVE  Moves(c, RunStartup(c, dt)) /\ RunStartup(c, dt).ready = c.ready
<1> DEFINE quiet == [c EXCEPT !.ee = FALSE]
           error == Distance(c.position, c.goal)
           begun == IF c.recovery = None
                    THEN [total |-> 0, stall |-> 0, best |-> error] ELSE c.recovery
           timed == IF error < begun.best
                    THEN [begun EXCEPT !.best = error, !.stall = 0] ELSE begun
           next == Towards(c.target, c.goal)
           near == Distance(next, c.position) <= CommandLead
           target == IF near THEN next ELSE c.target
           moved == [quiet EXCEPT !.recovery = timed, !.target = IF near THEN next ELSE @]
           done == [moved EXCEPT !.startup = "complete", !.transitioning = FALSE]
           d == RunStartup(c, dt)
<1>1. Shape(quiet) /\ \A f \in Fields \ {"ee"} : quiet[f] = c[f]
  BY Standing DEF Shape, Fields
<1>2. quiet.target = c.target
  BY <1>1 DEF Fields
<1>3. target \in Positions
  <2>1. c.target \in Positions /\ c.goal \in Positions
    BY Standing, Places DEF Good, Sound
  <2>2. next \in Positions
    BY <2>1, TowardsPlace
  <2> HIDE DEF next
  <2> QED BY <2>1, <2>2
<1>4. d = IF ~Fresh(c) \/ dt > MaxStartupDt
           THEN IF c.recovery # None /\ c.recovery.stall > RecoverStall
                THEN Fault(quiet) ELSE quiet
           ELSE IF \/ Distance(c.target, c.position) > CommandLead
                   \/ timed.total > RecoverLimit \/ timed.stall > RecoverStall
           THEN Fault(quiet)
           ELSE IF Recovered(moved) THEN done ELSE moved
  BY Zenon DEF RunStartup
<1> HIDE DEF quiet, error, begun, timed, next, near, d, target, done
<1>5. moved = [quiet EXCEPT !.recovery = timed, !.target = target]
  BY <1>1, <1>2 DEF target, Shape, Fields
<1> HIDE DEF moved
<1>12. \/ d = quiet \/ d = Fault(quiet) \/ d = moved
       \/ d = done /\ Recovered(moved)
  BY <1>4
<1>13. Shape(moved) /\ moved.target = target /\ \A f \in Fields \ {"recovery", "target"} : moved[f] = quiet[f]
  BY <1>1, <1>5 DEF Shape, Fields
<1>6. Driven(c, quiet)
  <2>1. quiet.target = c.target /\ quiet.settled = c.settled
    BY <1>1 DEF Fields
  <2> QED BY <1>1, <2>1, Standing DEF Driven
<1>7. Driven(c, moved)
  <2>1. moved.settled = c.settled /\ moved.target \in Spots
    BY <1>1, <1>3, <1>13, Places DEF Fields
  <2> QED BY <1>1, <1>13, <2>1, Standing DEF Driven
<1>8. CASE d = quiet
  BY <1>6, <1>8, DrivenSteps, SelfMoves DEF d
<1>9. CASE d = moved
  BY <1>7, <1>9, DrivenSteps, SelfMoves DEF d
<1>10. CASE d = Fault(quiet)
  <2>1. Halted(quiet, Fault(quiet)) /\ After(c, c)
    BY <1>6, DrivenGood, FaultGood DEF Good, After
  <2> QED BY <1>6, <1>10, <2>1, AfterHalted DEF d
<1>11. CASE d = done /\ Recovered(moved)
  <2>1. /\ Shape(done) /\ done.startup = "complete" /\ done.transitioning = FALSE
        /\ \A f \in Fields \ {"startup", "transitioning"} : done[f] = moved[f]
    BY <1>13 DEF Shape, Fields, done
  <2> HIDE DEF done
  <2>2. /\ done.mode = moved.mode /\ done.requested = moved.requested
        /\ done.renewed = moved.renewed
        /\ done.aligning = moved.aligning /\ done.aligned = moved.aligned
        /\ done.ready = moved.ready /\ done.queue = moved.queue /\ done.job = moved.job
    BY <2>1 DEF Fields
  <2>3. /\ done.target = moved.target /\ done.settled = moved.settled
        /\ done.goal = moved.goal /\ done.position = moved.position
    BY <2>1 DEF Fields
  <2>4. /\ c.mode = "hold" /\ c.requested = "hold" /\ c.aligning = None /\ c.goal \in Positions
        /\ c.job = None /\ Sound(c) /\ Typed(c)
    BY DEF Good, Sound
  <2>5. /\ done.mode = "hold" /\ done.requested = "hold" /\ done.aligning = None
        /\ done.job = None /\ done.renewed = c.renewed /\ done.aligned = c.aligned
        /\ done.ready = c.ready /\ done.queue = c.queue /\ done.goal = c.goal
        /\ done.position = c.position /\ done.target \in Spots /\ done.settled \in Nat
    BY <1>7, <2>2, <2>3, <2>4, DrivenFacts
  <2>6. Typed(done)
    BY <2>1, <2>4, <2>5 DEF Typed, Modes
  <2>7. Good(done)
    BY <2>1, <2>4, <2>5, <2>6 DEF Good, Sound, Entitled, Claimed, Clients, Streams
  <2>8. done.goal = done.position
    BY <1>11, <2>3 DEF Recovered
  <2>9. OwnerOf(done) = "none"
    BY <2>1, <2>5 DEF OwnerOf, Clients, Streams
  <2>10. OwnerStep(c, done)
    BY <2>5, <2>8, <2>9 DEF OwnerStep
  <2>11. ~Holds(done, "manual") /\ ~Holds(done, "tcp_ik") /\ ~Holds(done, "tool_auto")
    BY <2>1, <2>5 DEF Holds
  <2>12. Moves(c, done)
    BY <2>1, <2>4, <2>5, <2>7, <2>10, <2>11 DEF Moves, Steps, Told, Clients, Streams
  <2> QED BY <1>11, <2>5, <2>12 DEF d
<1> QED BY <1>12, <1>8, <1>9, <1>10, <1>11

LEMMA AlignmentMoves ==
  ASSUME NEW c, Good(c), c.startup = "complete", ~c.aligned, c.mode = "hold", ~c.transitioning,
         c.target # None, NEW dt
  PROVE  Moves(c, RunEntryAlignment(c, dt)) /\ RunEntryAlignment(c, dt).ready = c.ready
<1> DEFINE quiet == [c EXCEPT !.ee = FALSE]
           begun == IF c.aligning = None
                    THEN [quiet EXCEPT !.target = c.position, !.aligning = 0] ELSE quiet
           next == Towards(begun.target, Zero)
           target == IF Distance(next, c.position) <= CommandLead THEN next ELSE begun.target
           moved == [begun EXCEPT !.target = target, !.goal = target,
                                  !.alignSteady = IF ~Stopped(c) THEN None
                                                  ELSE IF @ = None THEN 0 ELSE @]
           done == [moved EXCEPT !.aligned = TRUE, !.aligning = None, !.alignSteady = None]
           d == RunEntryAlignment(c, dt)
<1>7. d = IF ~Fresh(c) \/ ~Valid(c) \/ dt > MaxDt THEN Fault(quiet)
          ELSE IF \/ begun.aligning > AlignLimit
                  \/ Distance(begun.target, c.position) > CommandLead
          THEN Fault(begun)
          ELSE IF Aligned(moved) THEN done ELSE moved
  BY Zenon DEF RunEntryAlignment
<1> HIDE DEF d, begun, moved, done
<1>1. /\ \/ d = Fault(quiet) \/ d = Fault(begun) \/ d = moved
         \/ d = done /\ Aligned(moved)
      /\ d # Fault(quiet) => c.position # None
  BY <1>7 DEF Fresh
<1>2. Shape(quiet) /\ \A f \in Fields \ {"ee"} : quiet[f] = c[f]
  BY Standing DEF Shape, Fields
<1>3. quiet.target = c.target /\ quiet.settled = c.settled /\ quiet.aligning = c.aligning
  BY <1>2 DEF Fields
<1>4. Driven(c, quiet)
  BY <1>2, <1>3, Standing DEF Driven
<1> HIDE DEF quiet
<1>5. CASE d = Fault(quiet)
  <2>1. Halted(quiet, Fault(quiet)) /\ After(c, c)
    BY <1>4, DrivenGood, FaultGood DEF Good, After
  <2> QED BY <1>4, <1>5, <2>1, AfterHalted DEF d
<1>6. ASSUME d # Fault(quiet)
      PROVE  Moves(c, d) /\ d.ready = c.ready
  <2>1. c.position \in Positions /\ c.target \in Positions /\ Zero \in Positions
    BY <1>1, <1>6, Standing, Places, Constants DEF Positions
  <2>2. /\ Shape(begun) /\ begun.target \in Positions
        /\ begun.aligning \in Nat /\ begun.aligning # None
        /\ \A f \in Fields \ {"target", "aligning"} : begun[f] = quiet[f]
    <3>1. CASE c.aligning = None
      <4>1. begun = [quiet EXCEPT !.target = c.position, !.aligning = 0]
        BY <3>1 DEF begun
      <4>2. /\ Shape(begun) /\ begun.target = c.position /\ begun.aligning = 0
            /\ \A f \in Fields \ {"target", "aligning"} : begun[f] = quiet[f]
        BY <1>2, <4>1, ZenonT(60) DEF Shape, Fields
      <4> QED BY <2>1, <4>2, Constants
    <3>2. CASE c.aligning # None
      <4>1. begun = quiet
        BY <3>2 DEF begun
      <4> QED BY <1>2, <1>3, <2>1, <3>2, <4>1 DEF Good, Sound, Typed
    <3> QED BY <3>1, <3>2
  <2>3. target \in Positions
    BY <2>1, <2>2, TowardsPlace
  <2> HIDE DEF target, next
  <2>4. /\ Shape(moved) /\ moved.target = target /\ moved.goal = target
        /\ \A f \in Fields \ {"target", "goal", "alignSteady"} : moved[f] = begun[f]
    <3> DEFINE st == IF ~Stopped(c) THEN None
                     ELSE IF begun.alignSteady = None THEN 0 ELSE begun.alignSteady
    <3>1. moved = [begun EXCEPT !.target = target, !.goal = target, !.alignSteady = st]
      BY <2>2 DEF Shape, Fields, moved
    <3> HIDE DEF st
    <3>2. /\ Shape(moved) /\ moved.target = target /\ moved.goal = target
          /\ \A f \in Fields \ {"target", "goal", "alignSteady"} : moved[f] = begun[f]
      BY <2>2, <3>1, ZenonT(60) DEF Shape, Fields
    <3> QED BY <3>1, <3>2
  <2>5. /\ Shape(done) /\ done.aligned = TRUE /\ done.aligning = None
        /\ \A f \in Fields \ {"aligned", "aligning", "alignSteady"} : done[f] = moved[f]
    BY <2>4, ZenonT(60) DEF Shape, Fields, done
  <2>6. /\ begun.mode = c.mode /\ begun.requested = c.requested
        /\ begun.transitioning = c.transitioning /\ begun.renewed = c.renewed
        /\ begun.startup = c.startup /\ begun.aligned = c.aligned /\ begun.last = c.last
    BY <1>2, <2>2 DEF Fields
  <2>7. /\ begun.focus = c.focus /\ begun.ready = c.ready /\ begun.queue = c.queue
        /\ begun.job = c.job /\ begun.goal = c.goal /\ begun.position = c.position
        /\ begun.settled = c.settled
    BY <1>2, <2>2 DEF Fields
  <2>8. /\ moved.mode = begun.mode /\ moved.requested = begun.requested
        /\ moved.transitioning = begun.transitioning /\ moved.renewed = begun.renewed
        /\ moved.startup = begun.startup /\ moved.aligned = begun.aligned
        /\ moved.aligning = begun.aligning
    BY <2>4 DEF Fields
  <2>9. /\ moved.focus = begun.focus /\ moved.ready = begun.ready /\ moved.queue = begun.queue
        /\ moved.job = begun.job /\ moved.position = begun.position
        /\ moved.settled = begun.settled
    BY <2>4 DEF Fields
  <2>10. /\ done.mode = moved.mode /\ done.requested = moved.requested
         /\ done.transitioning = moved.transitioning /\ done.renewed = moved.renewed
         /\ done.startup = moved.startup /\ done.focus = moved.focus
         /\ done.target = moved.target
    BY <2>5 DEF Fields
  <2>11. /\ done.ready = moved.ready /\ done.queue = moved.queue
         /\ done.job = moved.job /\ done.position = moved.position
         /\ done.settled = moved.settled /\ done.goal = moved.goal
    BY <2>5 DEF Fields
  <2>12. /\ Sound(c) /\ Typed(c) /\ c.job = None /\ ~Claimed(c)
         /\ ~Holds(c, "manual") /\ ~Holds(c, "tcp_ik") /\ ~Holds(c, "tool_auto")
    BY DEF Good, Sound, Claimed, Clients, Streams, Holds
  <2>13. /\ begun.target \in Spots /\ target \in Spots /\ target # None
    BY <2>2, <2>3, Places
  <2>14. OwnerOf(c) \in {"none", "self"} /\ c.mode # "fault"
    BY DEF OwnerOf, Clients, Streams
  <2>15. CASE d = Fault(begun)
    <3>1. Typed(begun)
      BY <2>2, <2>6, <2>7, <2>12, <2>13 DEF Typed
    <3>2. Sound(begun)
      BY <2>2, <2>6, <2>7, <2>12, <3>1 DEF Sound
    <3>3. Good(d) /\ Rests(begun, d)
      BY <2>15, <3>2, FaultGood, HaltedMoves
    <3>4. Rests(c, d)
      BY <2>6, <2>7, <3>3 DEF Rests
    <3> QED BY <3>3, <3>4, RestMoves
  <2>16. CASE d = moved
    <3>1. Typed(moved)
      BY <2>2, <2>4, <2>6, <2>7, <2>8, <2>9, <2>12, <2>13 DEF Typed
    <3>2. Sound(moved)
      BY <2>2, <2>6, <2>7, <2>8, <2>9, <2>12, <3>1 DEF Sound
    <3>3. /\ ~Claimed(moved)
          /\ ~Holds(moved, "manual") /\ ~Holds(moved, "tcp_ik") /\ ~Holds(moved, "tool_auto")
      BY <2>6, <2>8, <2>12 DEF Claimed, Holds
    <3>4. OwnerOf(moved) = "self"
      BY <2>2, <2>6, <2>8 DEF OwnerOf, Clients, Streams
    <3>5. moved.goal \in Positions /\ moved.position = c.position
      BY <2>3, <2>4, <2>7, <2>9
    <3>6. OwnerStep(c, moved)
      BY <2>14, <3>4, <3>5 DEF OwnerStep
    <3> QED BY <2>6, <2>7, <2>8, <2>9, <2>12, <2>16, <3>2, <3>3, <3>6
            DEF Moves, Steps, Told, Good, Entitled, Clients, Streams
  <2>17. CASE d = done /\ Aligned(moved)
    <3>1. Typed(done)
      BY <2>4, <2>5, <2>6, <2>7, <2>8, <2>9, <2>10, <2>11, <2>12, <2>13, ZenonT(60) DEF Typed
    <3>2. Sound(done)
      BY <2>5, <2>6, <2>7, <2>8, <2>9, <2>10, <2>11, <2>12, <3>1 DEF Sound
    <3>3. /\ ~Claimed(done)
          /\ ~Holds(done, "manual") /\ ~Holds(done, "tcp_ik") /\ ~Holds(done, "tool_auto")
      BY <2>6, <2>8, <2>10, <2>12 DEF Claimed, Holds
    <3>4. OwnerOf(done) = "none"
      BY <2>5, <2>6, <2>8, <2>10 DEF OwnerOf, Clients, Streams
    <3>5. done.goal = c.position /\ done.position = c.position
      BY <2>4, <2>7, <2>9, <2>11, <2>17 DEF Aligned
    <3>6. OwnerStep(c, done)
      BY <3>4, <3>5 DEF OwnerStep
    <3> QED BY <2>6, <2>7, <2>8, <2>9, <2>10, <2>11, <2>12, <2>17, <3>2, <3>3, <3>6
            DEF Moves, Steps, Told, Good, Entitled, Clients, Streams
  <2> QED BY <1>1, <1>6, <2>15, <2>16, <2>17
<1> QED BY <1>1, <1>5, <1>6 DEF d

LEMMA AfterThen ==
  ASSUME NEW c, NEW f, NEW e, After(c, f), Halted(f, e)
  PROVE  After(c, e) /\ e.position = f.position /\ e.target \in {f.target, f.position}
<1>1. Good(e) /\ e.position = f.position /\ e.target \in {f.target, f.position}
  <2>1. Good(e) /\ e.position = f.position
    BY HaltedMoves DEF After, Good, Rests
  <2>2. e.target \in {f.target, f.position}
    BY DEF Halted, Ends
  <2> QED BY <2>1, <2>2
<1>2. Halted(c, e)
  BY HaltedTwice DEF After
<1> QED BY <1>1, <1>2 DEF After

\* An arm at fault is told where it is.
Pinned(c, g) ==
  /\ Shape(g) /\ c.mode = "fault" /\ g.goal = c.position /\ \A f \in Fields \ {"goal"} : g[f] = c[f]

LEMMA PinnedFacts ==
  ASSUME NEW c, NEW g, Pinned(c, g)
  PROVE  /\ g.mode = c.mode /\ g.requested = c.requested
         /\ g.transitioning = c.transitioning /\ g.renewed = c.renewed /\ g.startup = c.startup
         /\ g.aligning = c.aligning /\ g.aligned = c.aligned /\ g.focus = c.focus
         /\ g.ready = c.ready /\ g.queue = c.queue /\ g.job = c.job /\ g.last = c.last
         /\ g.position = c.position /\ g.target = c.target /\ g.settled = c.settled
<1>1. /\ g.mode = c.mode /\ g.requested = c.requested
      /\ g.transitioning = c.transitioning /\ g.renewed = c.renewed /\ g.startup = c.startup
      /\ g.aligning = c.aligning /\ g.aligned = c.aligned /\ g.focus = c.focus
  BY DEF Pinned, Fields
<1>2. /\ g.ready = c.ready /\ g.queue = c.queue /\ g.job = c.job /\ g.last = c.last
      /\ g.position = c.position /\ g.target = c.target /\ g.settled = c.settled
  BY DEF Pinned, Fields
<1> QED BY <1>1, <1>2

LEMMA PinnedMoves ==
  ASSUME NEW c, NEW g, Good(c), Pinned(c, g)
  PROVE  Moves(c, g) /\ g.ready = c.ready /\ g.mode = "fault"
<1>1. /\ Typed(c) /\ Sound(c) /\ c.job = None /\ c.startup # "recovering" /\ c.mode = "fault"
      /\ ~c.transitioning
  BY DEF Good, Sound, Pinned
<1>2. Typed(g)
  BY <1>1, PinnedFacts DEF Pinned, Typed
<1>3. Sound(g)
  BY <1>1, <1>2, PinnedFacts DEF Sound
<1>4. ~Claimed(g) /\ \A s \in Clients : ~Holds(g, s)
  BY <1>1, PinnedFacts DEF Claimed, Holds, Clients, Streams
<1>5. OwnerOf(g) = "fault"
  BY <1>1, PinnedFacts DEF OwnerOf
<1>6. OwnerStep(c, g)
  BY <1>5, PinnedFacts DEF OwnerStep, Pinned
<1>7. g.mode = "fault" /\ g.ready = c.ready /\ g.job = None /\ g.startup = c.startup
  BY <1>1, PinnedFacts
<1> QED BY <1>1, <1>3, <1>4, <1>6, <1>7 DEF Moves, Steps, Told, Good, Entitled

LEMMA CheckedMoves ==
  ASSUME NEW c, NEW f, After(c, f), f.position # None, f.target # None, NEW dt
  PROVE  LET g == Checked(f, dt)
         IN  /\ Moves(c, g) /\ g.ready = c.ready /\ g.position = f.position /\ g.target # None
             /\ After(c, g) \/ g.mode = "fault"
             /\ f.mode = "fault" => g.mode = "fault"
<1> DEFINE timed == IF dt > MaxDt THEN Fault(f) ELSE f
           heard == IF Silent(timed) THEN Request(timed, "hold") ELSE timed
           followed == IF Distance(heard.target, heard.position) <= FollowLimit
                       THEN heard
                       ELSE IF heard.mode = "tool_auto" /\ heard.job # None
                       THEN AbortToHold(heard) ELSE Fault(heard)
           g == Checked(f, dt)
<1>1. g = IF followed.mode = "fault" /\ followed.goal = None
          THEN [followed EXCEPT !.goal = followed.position] ELSE followed
  BY Zenon DEF Checked
<1> HIDE DEF g
<1>2. After(c, timed) /\ timed.position = f.position /\ (f.mode = "fault" => timed.mode = "fault")
      /\ timed.target # None
  BY FaultGood, AfterThen DEF After, Good
<1> HIDE DEF timed
<1>3. After(c, heard) /\ heard.position = f.position /\ (f.mode = "fault" => heard.mode = "fault")
      /\ heard.target # None
  <2>1. Good(timed)
    BY <1>2 DEF After
  <2>2. \/ Request(timed, "hold") = timed
        \/ Halted(timed, Request(timed, "hold"))
    BY <2>1, RequestFacts
  <2>3. Silent(timed) => timed.mode # "fault"
    BY DEF Silent, Streams
  <2> QED BY <1>2, <2>2, <2>3, AfterThen
<1> HIDE DEF heard
<1>4. After(c, followed) /\ followed.position = f.position
      /\ (f.mode = "fault" => followed.mode = "fault") /\ followed.target # None
  <2>1. Good(heard) /\ Sound(heard)
    BY <1>3 DEF After, Good
  <2>2. CASE followed = heard
    BY <1>3, <2>2
  <2>3. CASE followed = Fault(heard)
    BY <1>3, <2>1, <2>3, FaultGood, AfterThen
  <2>4. CASE followed = AbortToHold(heard) /\ heard.mode = "tool_auto"
    BY <1>3, <2>1, <2>4, AbortGood, AfterThen
  <2> QED BY <2>2, <2>3, <2>4
<1> HIDE DEF followed
<1>5. CASE g = followed
  BY <1>4, <1>5, AfterMoves DEF g
<1>6. CASE g # followed
  <2>1. /\ g = [followed EXCEPT !.goal = followed.position] /\ followed.mode = "fault"
    BY <1>1, <1>6
  <2>2. Shape(followed) /\ Good(followed)
    BY <1>4 DEF After, Good, Sound, Typed
  <2>3. Pinned(followed, g)
    BY <2>1, <2>2 DEF Pinned, Shape, Fields
  <2>4. Moves(followed, g) /\ g.ready = followed.ready /\ g.mode = "fault"
    BY <2>2, <2>3, PinnedMoves
  <2>5. g.position = f.position /\ g.target # None
    BY <1>4, <2>3, PinnedFacts
  <2>6. CASE followed = c
    BY <2>4, <2>5, <2>6 DEF g
  <2>7. CASE Halted(c, followed)
    <3>1. Rests(c, followed) /\ Good(g) /\ followed.ready = c.ready
      BY <1>4, <2>4, <2>7, HaltedMoves DEF After, Moves, Steps
    <3>2. g.goal = c.position
      BY <2>3, <3>1 DEF Pinned, Rests
    <3>3. Rests(c, g)
      BY <2>3, <3>1, <3>2, PinnedFacts DEF Rests
    <3> QED BY <2>4, <2>5, <3>1, <3>3, RestMoves DEF g
  <2> QED BY <1>4, <2>6, <2>7 DEF After
<1> QED BY <1>5, <1>6

LEMMA TargetsPlaces ==
  ASSUME NEW g, g.target \in Positions, g.position \in Positions, g.goal \in Spots,
         NEW t \in Targets(g)
  PROVE  t \in Positions
<1> DEFINE goal == IF g.goal = None THEN g.target ELSE g.goal
           next == Towards(g.target, goal)
<1>1. goal \in Positions
  BY Places
<1>2. next \in Positions
  BY <1>1, TowardsPlace
<1>3. \/ t = goal \/ t = next \/ t = g.target
      \/ \E x \in {g.target, next} : t = Clamp(x, g.position - Lead, g.position + Lead)
  BY DEF Targets
<1> HIDE DEF goal, next
<1>4. ASSUME NEW x \in Positions
      PROVE  Clamp(x, g.position - Lead, g.position + Lead) \in Positions
  BY <1>4, Constants DEF Clamp, Positions
<1> QED BY <1>1, <1>2, <1>3, <1>4

\* What a drive makes of the record before the end of a motion is looked at
Moved(g, target) ==
  LET goal == IF g.goal = None THEN g.target ELSE g.goal
      stopped == Stopped(g) /\ g.position = goal /\ target = goal
  IN [g EXCEPT !.target = target,
               !.settled = IF ~stopped THEN 0 ELSE IF @ < Settle THEN @ + 1 ELSE @]

LEMMA MovedFacts ==
  ASSUME NEW g, Good(g), NEW t \in Positions
  PROVE  LET m == Moved(g, t)
         IN  /\ Driven(g, m) /\ m.queue = g.queue /\ m.stop = g.stop
             /\ \A f \in Fields \ {"target", "settled"} : m[f] = g[f]
             /\ m.settled > 0 => Stopped(m) /\ m.goal \in {None, m.position}
             /\ m.settled <= g.settled + 1
             /\ Drive(g, t) = IF m.transitioning THEN EndTransition(m)
                              ELSE IF m.mode = "tool_auto" /\ m.job # None
                              THEN FollowPath(m) ELSE m
<1> DEFINE goal == IF g.goal = None THEN g.target ELSE g.goal
           stopped == Stopped(g) /\ g.position = goal /\ t = goal
           n == IF ~stopped THEN 0 ELSE IF g.settled < Settle THEN g.settled + 1 ELSE g.settled
           m == Moved(g, t)
<1>1. Drive(g, t) = IF m.transitioning THEN EndTransition(m)
                    ELSE IF m.mode = "tool_auto" /\ m.job # None THEN FollowPath(m) ELSE m
  BY Zenon DEF Drive, Moved
<1>2. Shape(g) /\ g.settled \in Nat
  BY Standing
<1>3. m = [g EXCEPT !.target = t, !.settled = n]
  BY <1>2 DEF Moved, Shape, Fields
<1>4. n \in Nat /\ n <= g.settled + 1 /\ (n > 0 => stopped)
  BY <1>2, Constants
<1> HIDE DEF n, m, stopped, goal
<1>5. /\ Shape(m) /\ m.target = t /\ m.settled = n
      /\ \A f \in Fields \ {"target", "settled"} : m[f] = g[f]
  BY <1>2, <1>3 DEF Shape, Fields
<1>6. /\ m.queue = g.queue /\ m.stop = g.stop /\ m.goal = g.goal /\ m.position = g.position
      /\ m.velocity = g.velocity
  BY <1>5 DEF Fields
<1>7. Driven(g, m)
  BY <1>4, <1>5, Places DEF Driven
<1>8. stopped => Stopped(m) /\ m.goal \in {None, m.position}
  BY <1>6 DEF stopped, goal, Stopped
<1>9. m.settled > 0 => Stopped(m) /\ m.goal \in {None, m.position}
  BY <1>4, <1>5, <1>8
<1>10. m.settled <= g.settled + 1
  BY <1>4, <1>5
<1> QED BY <1>1, <1>5, <1>6, <1>7, <1>9, <1>10 DEF m

LEMMA EndTransitionMoves ==
  ASSUME NEW c, NEW g, NEW m, After(c, g), Driven(g, m), m.transitioning, m.startup = "complete",
         m.settled > 0 => Stopped(m) /\ m.goal \in {None, m.position},
         m.settled <= g.settled + 1
  PROVE  Moves(c, EndTransition(m)) /\ EndTransition(m).ready = c.ready
<1> DEFINE d == EndTransition(m)
           grant == [m EXCEPT !.mode = m.requested, !.transitioning = FALSE,
                              !.command = 0, !.settled = 0]
<1>1. \/ d = Fault(m) \/ d = m
      \/ CanGrant(m) /\ d = Enter(m, "hold")
      \/ CanGrant(m) /\ d = grant /\ (m.requested = "tcp_ik" => EntryClear(m))
  BY Zenon DEF EndTransition
<1>2. Sound(m) /\ Good(m)
  BY DrivenGood DEF After, Good
<1>3. CASE d = Fault(m)
  BY <1>2, <1>3, FaultGood, AfterHalted
<1>4. CASE d = m
  BY <1>4, AfterMoves, DrivenSteps
<1>5. CASE d = Enter(m, "hold")
  BY <1>2, <1>5, EnterGood, AfterHalted
<1>6. CASE CanGrant(m) /\ d = grant /\ (m.requested = "tcp_ik" => EntryClear(m))
  <2>1. m.settled \in Nat /\ m.settled > 1
    BY <1>2, <1>6, Standing, Constants DEF CanGrant
  <2>2. g = c
    <3>1. Halted(c, g) => g.settled = 0
      BY DEF Halted, Ends
    <3>2. g.settled # 0
      BY <2>1
    <3> QED BY <3>1, <3>2 DEF After
  <2>3. m.goal \in {None, m.position}
    <3>1. m.settled > 0
      BY <2>1
    <3> QED BY <3>1
  <2> HIDE DEF d
  <2>4. /\ Shape(d) /\ d.mode = m.requested /\ d.transitioning = FALSE /\ d.settled = 0
        /\ \A f \in Fields \ {"mode", "transitioning", "command", "settled"} : d[f] = m[f]
    BY <1>2, <1>6, Standing DEF Shape, Fields
  <2>5. /\ d.requested = m.requested /\ d.renewed = m.renewed /\ d.startup = m.startup
        /\ d.aligning = m.aligning /\ d.aligned = m.aligned /\ d.focus = m.focus
        /\ d.ready = m.ready /\ d.queue = m.queue /\ d.job = m.job
    BY <2>4 DEF Fields
  <2>6. /\ d.goal = m.goal /\ d.position = m.position /\ d.velocity = m.velocity
        /\ d.age = m.age /\ d.proof = m.proof /\ d.steady = m.steady /\ d.target = m.target
    BY <2>4 DEF Fields
  <2>7. m.mode = "hold" /\ m.job = None /\ Typed(m) /\ m.startup = "complete"
    BY <1>2 DEF Good, Sound
  <2>8. d.settled \in Nat
    BY <2>4
  <2>9. Typed(d)
    BY <2>4, <2>5, <2>6, <2>7, <2>8 DEF Typed
  <2>10. Sound(d)
    BY <1>2, <2>4, <2>5, <2>7, <2>9 DEF Sound
  <2>11. Claimed(d) => Claimed(m)
    BY <2>4, <2>5 DEF Claimed
  <2>12. Good(d)
    BY <1>2, <2>5, <2>7, <2>10, <2>11 DEF Good, Entitled
  <2>13. /\ c.mode = "hold" /\ c.transitioning /\ c.requested = m.requested /\ c.job = None
         /\ c.startup = "complete" /\ c.goal = m.goal /\ c.position = m.position
         /\ c.ready = m.ready
    BY <2>2, <2>7, DrivenFacts
  <2>14. OwnerOf(c) = "none"
    BY <2>13 DEF OwnerOf, Clients, Streams
  <2>15. OwnerOf(d) \in Clients \cup {"none", "self", "fault"}
    BY <2>4, <2>9 DEF OwnerOf, Typed, Modes
  <2>16. /\ d.goal = c.goal /\ d.position = c.position /\ c.goal \in {None, c.position}
    BY <2>3, <2>6, <2>13
  <2>17. OwnerStep(c, d)
    BY <2>14, <2>15, <2>16 DEF OwnerStep
  <2>18. \A s \in Clients : Holds(d, s) => Turn(c, d, s)
    BY <2>4, <2>5, <2>13 DEF Holds, Turn
  <2>19. d.mode = "tcp_ik" => EntryClear(d)
    BY <1>6, <2>4, <2>6 DEF EntryClear, Fresh, Stopped
  <2>20. Moves(c, d) /\ d.ready = c.ready
    BY <2>5, <2>12, <2>13, <2>17, <2>18, <2>19 DEF Moves, Steps, Told
  <2> QED BY <2>20 DEF d
<1> QED BY <1>1, <1>3, <1>4, <1>5, <1>6

LEMMA FollowPathMoves ==
  ASSUME NEW c, NEW g, NEW m, After(c, g), Driven(g, m), m.mode = "tool_auto", m.job # None,
         \A f \in Fields \ {"target", "settled"} : m[f] = g[f],
         m.settled > 0 => Stopped(m) /\ m.goal \in {None, m.position}
  PROVE  Moves(c, FollowPath(m)) /\ FollowPath(m).ready = c.ready
<1> DEFINE d == FollowPath(m)
           w == Watched(m)
           n == NextWaypoint(m)
           next == [n EXCEPT !.started = 0, !.settled = 0]
<1>1. \/ d = AbortToHold(w) \/ d = w
      \/ WaypointReached(m) /\ d = next
      \/ PathReached(m) /\ d = Finish(w)
  BY Zenon DEF FollowPath
<1>2. g = c /\ Good(c) /\ c.mode = "tool_auto" /\ c.job # None
  BY DrivenFacts DEF After, Halted, Ends
<1>3. Good(m)
  BY DrivenGood DEF After, Good
<1>4. Driven(c, w)
  <2> DEFINE st == IF m.position = m.goal \/ m.target = m.position THEN None
                   ELSE IF \/ m.stall = None
                           \/ Distance(m.goal, m.position) < Distance(m.goal, m.stall.at)
                   THEN [age |-> 0, at |-> m.position]
                   ELSE m.stall
  <2>1. w = [m EXCEPT !.stall = st]
    BY Zenon DEF Watched
  <2> HIDE DEF st, w
  <2>2. Shape(w) /\ \A f \in Fields \ {"stall"} : w[f] = m[f]
    BY <1>3, <2>1, Standing DEF Shape, Fields
  <2>3. w.target = m.target /\ w.settled = m.settled
    BY <2>2 DEF Fields
  <2>4. \A f \in Fields \ {"target", "settled", "stall", "ee", "recovery"} : w[f] = c[f]
    BY <1>2, <2>2 DEF Driven
  <2> QED BY <2>2, <2>3, <2>4 DEF Driven
<1> HIDE DEF w
<1>5. CASE d = AbortToHold(w)
  <2>1. Good(w) /\ w.mode = "tool_auto"
    BY <1>2, <1>4, DrivenGood, DrivenFacts DEF Good
  <2> QED BY <1>2, <1>4, <1>5, <2>1, AbortGood, AfterHalted
<1>6. CASE d = w
  BY <1>2, <1>4, <1>6, DrivenSteps, SelfMoves
<1>7. CASE WaypointReached(m) /\ d = next
  <2>1. /\ Shape(n) /\ n.goal \in Within /\ n.queue \in Ways
        /\ \A f \in Fields \ {"goal", "stop", "queue", "stall"} : n[f] = m[f]
    BY <1>3, <1>7, Standing, NextWaypointFacts DEF WaypointReached
  <2> HIDE DEF n, d
  <2>2. Shape(d) /\ d.settled = 0 /\ \A f \in Fields \ {"started", "settled"} : d[f] = n[f]
    BY <1>7, <2>1 DEF Shape, Fields
  <2>3. d.goal = n.goal /\ d.queue = n.queue /\ d.target = m.target /\ d.job = c.job
    BY <1>2, <2>1, <2>2 DEF Fields
  <2>4. \A f \in Fields \ Work : d[f] = c[f]
    BY <1>2, <2>1, <2>2 DEF Work
  <2>5. d.goal \in Positions /\ d.goal # None /\ d.settled \in Nat /\ c.mode \in Clients
    BY <1>2, <2>1, <2>2, <2>3, Places DEF Clients
  <2>6. d.queue \in Ways /\ d.target \in Spots
    BY <2>1, <2>3 DEF Driven
  <2>7. Moves(c, d) /\ d.ready = c.ready
    BY <1>2, <2>2, <2>3, <2>4, <2>5, <2>6, Working
  <2> QED BY <2>7 DEF d
<1>8. CASE PathReached(m) /\ d = Finish(w)
  <2>1. m.queue = <<>> /\ m.settled > 0
    BY <1>3, <1>8, Standing, Constants DEF PathReached
  <2>2. c.job.kind = "path" => c.goal # None
    BY <1>2, Standing
  <2>3. /\ m.queue = c.queue /\ m.goal = c.goal /\ m.position = c.position
        /\ m.velocity = c.velocity
    BY <1>2, DrivenFacts
  <2>4. c.job.kind = "path" => c.queue = <<>> /\ c.position = c.goal /\ Stopped(c)
    BY <2>1, <2>2, <2>3 DEF Stopped
  <2> QED BY <1>2, <1>4, <1>8, <2>4, FinishMoves
<1> QED BY <1>1, <1>5, <1>6, <1>7, <1>8

LEMMA DriveMoves ==
  ASSUME NEW c, NEW g, Moves(c, g), g.ready = c.ready, After(c, g) \/ g.mode = "fault",
         g.target # None, g.position # None, g.startup = "complete" \/ ~g.transitioning,
         NEW t \in Targets(g)
  PROVE  Moves(c, Drive(g, t)) /\ Drive(g, t).ready = c.ready
<1> DEFINE m == Moved(g, t)
           d == Drive(g, t)
<1>1. Good(g)
  BY DEF Moves, Steps
<1>2. t \in Positions
  BY <1>1, Standing, Places, TargetsPlaces
<1>3. /\ Driven(g, m) /\ m.queue = g.queue /\ m.stop = g.stop
      /\ \A f \in Fields \ {"target", "settled"} : m[f] = g[f]
      /\ m.settled > 0 => Stopped(m) /\ m.goal \in {None, m.position}
      /\ m.settled <= g.settled + 1
      /\ d = IF m.transitioning THEN EndTransition(m)
             ELSE IF m.mode = "tool_auto" /\ m.job # None THEN FollowPath(m) ELSE m
  BY <1>1, <1>2, MovedFacts
<1> HIDE DEF m, d
<1>4. m.transitioning = g.transitioning /\ m.startup = g.startup /\ m.mode = g.mode
  BY <1>3, DrivenFacts
<1>5. CASE m.transitioning
  <2>1. After(c, g) /\ m.startup = "complete"
    BY <1>1, <1>4, <1>5 DEF Good, Sound
  <2>2. d = EndTransition(m)
    BY <1>3, <1>5
  <2> QED BY <1>3, <1>5, <2>1, <2>2, EndTransitionMoves DEF d
<1>6. CASE ~m.transitioning /\ m.mode = "tool_auto" /\ m.job # None
  <2>1. After(c, g) /\ d = FollowPath(m)
    BY <1>3, <1>4, <1>6
  <2> QED BY <1>3, <1>6, <2>1, FollowPathMoves DEF d
<1>7. CASE ~m.transitioning /\ ~(m.mode = "tool_auto" /\ m.job # None)
  <2>1. d = m
    BY <1>3, <1>7
  <2>2. Moves(c, m) /\ m.ready = g.ready
    BY <1>3, DrivenSteps
  <2> QED BY <2>1, <2>2 DEF d
<1> QED BY <1>5, <1>6, <1>7

LEMMA TickedMoves ==
  ASSUME NEW c, NEW f, NEW dt, NEW d, After(c, f), d \in Ticked(f, dt)
  PROVE  Moves(c, d) /\ d.ready = c.ready /\ (f.mode = "fault" => d.mode = "fault")
<1> DEFINE p == Phase(f)
           g == Checked(f, dt)
<1>1. p \in {"unseen", "waiting", "startup", "alignment", "stale", "control"}
  BY DEF Phase
<1>2. Good(f) /\ Sound(f)
  BY DEF After, Good
<1>3. CASE p \in {"unseen", "waiting"}
  <2>1. d = f
    BY <1>3 DEF Ticked
  <2> QED BY <2>1, AfterMoves
<1>4. CASE p = "startup"
  <2>1. d = RunStartup(f, dt) /\ f.startup = "recovering" /\ f.target # None /\ f.mode # "fault"
    BY <1>4 DEF Ticked, Phase
  <2>2. f = c
    BY <2>1 DEF After, Halted, Left
  <2> QED BY <1>2, <2>1, <2>2, RunStartupMoves
<1>5. CASE p = "alignment"
  <2>1. /\ d = RunEntryAlignment(f, dt) /\ f.startup = "complete" /\ f.target # None
        /\ f.mode = "hold" /\ ~f.transitioning /\ ~f.aligned
    BY <1>5 DEF Ticked, Phase
  <2>2. f = c
    BY <2>1 DEF After, Halted, Left, Ends, Fixed
  <2> QED BY <1>2, <2>1, <2>2, AlignmentMoves
<1>6. CASE p = "stale"
  <2>1. d = Fault(f)
    BY <1>6 DEF Ticked
  <2> QED BY <1>2, <2>1, FaultGood, AfterThen, AfterMoves
<1>7. CASE p = "control"
  <2>1. /\ f.target # None /\ f.position # None /\ f.startup = "complete"
    BY <1>7 DEF Phase, Fresh
  <2>2. /\ Moves(c, g) /\ g.ready = c.ready /\ g.position = f.position /\ g.target # None
        /\ After(c, g) \/ g.mode = "fault"
        /\ f.mode = "fault" => g.mode = "fault"
    BY <2>1, CheckedMoves
  <2>3. IF g.mode = "tool_auto" /\ g.job # None /\ g.job.kind = "ee"
        THEN \E o \in {"turn", "wait", "abort", "done"} : d = RunEE(g, o)
        ELSE \E t \in Targets(g) : d = Drive(g, t)
    BY <1>7 DEF Ticked
  <2> HIDE DEF g
  <2>4. Good(g)
    BY <2>2 DEF Moves, Steps
  <2>5. CASE g.mode = "tool_auto" /\ g.job # None /\ g.job.kind = "ee"
    <3>1. g = c /\ f.mode # "fault"
      BY <2>2, <2>5 DEF After, Halted, Ends
    <3> QED BY <2>3, <2>4, <2>5, <3>1, RunEEMoves
  <2>6. CASE ~(g.mode = "tool_auto" /\ g.job # None /\ g.job.kind = "ee")
    <3>1. PICK t \in Targets(g) : d = Drive(g, t)
      BY <2>3, <2>6
    <3>2. g.startup = "complete" \/ ~g.transitioning
      <4>1. g.transitioning => g.mode = "hold"
        BY <2>4 DEF Good, Sound
      <4>2. CASE g.mode # "hold"
        BY <4>1, <4>2
      <4>3. CASE g = c
        <5>1. f = c \/ Halted(c, f)
          BY DEF After
        <5> QED BY <2>1, <4>3, <5>1 DEF Halted, Left
      <4>4. CASE Halted(c, g) /\ g.mode = "hold"
        BY <4>4 DEF Halted, Left
      <4> QED BY <2>2, <4>2, <4>3, <4>4 DEF After
    <3>3. Moves(c, d) /\ d.ready = c.ready
      BY <2>1, <2>2, <3>1, <3>2, DriveMoves
    <3>4. g.mode = "fault" => d.mode = "fault"
      <4>1. SUFFICES ASSUME g.mode = "fault" PROVE d.mode = "fault"
        OBVIOUS
      <4>2. t \in Positions
        BY <2>1, <2>2, <2>4, <3>1, Standing, Places, TargetsPlaces
      <4>3. ~g.transitioning
        BY <2>4, <4>1 DEF Good, Sound
      <4>4. Moved(g, t).mode = "fault" /\ ~Moved(g, t).transitioning
        BY <2>4, <4>1, <4>2, <4>3, MovedFacts, DrivenFacts
      <4>5. d = Moved(g, t)
        BY <2>4, <3>1, <4>2, <4>4, MovedFacts
      <4> QED BY <4>4, <4>5
    <3> QED BY <2>2, <3>3, <3>4
  <2> QED BY <2>5, <2>6
<1> QED BY <1>1, <1>3, <1>4, <1>5, <1>6, <1>7

-----------------------------------------------------------------------------
(* poll, and the start of the arm *)

LEMMA BeginFacts ==
  ASSUME NEW c, Good(c), c.startup = "pending", c.mode # "fault", c.position # None
  PROVE  LET d == [BeginStartup(c) EXCEPT !.ready = FALSE]
         IN  /\ Steps(c, d) /\ d.ready = FALSE /\ d.mode = "hold"
             /\ d.startup \in {"recovering", "complete"}
             /\ d.position = c.position /\ d.age = c.age /\ d.target = c.position
<1> DEFINE i == Invalidate(c)
           goal == Inset(c.position)
           recover == goal # c.position
           su == IF recover THEN "recovering" ELSE "complete"
           b == BeginStartup(c)
           d == [b EXCEPT !.ready = FALSE]
<1>1. /\ Shape(i) /\ Fixed(c, i) /\ i.renewed = TRUE /\ i.job = None
      /\ i.queue = <<>> /\ i.settled = 0
      /\ i.last = IF c.job # None THEN [id |-> c.job.id, result |-> "aborted"] ELSE c.last
      /\ i.aligning = c.aligning
  BY Standing, InvalidateFacts
<1>2. b = [i EXCEPT !.target = c.position, !.goal = goal,
                    !.mode = "hold", !.requested = "hold", !.transitioning = recover,
                    !.startup = su, !.recovery = None]
  BY DEF BeginStartup
<1>3. c.position \in Positions /\ goal \in Positions
  <2>1. c.position \in Positions
    BY Standing, Places
  <2> QED BY <2>1, Constants DEF Inset, Clamp, Positions
<1>4. recover \in BOOLEAN /\ su \in {"recovering", "complete"} /\ (su = "recovering" <=> recover)
  OBVIOUS
<1> HIDE DEF i, b
<1>5. /\ Shape(b) /\ b.target = c.position /\ b.goal = goal /\ b.mode = "hold"
      /\ b.requested = "hold"
  BY <1>1, <1>2, ZenonT(60) DEF Shape, Fields
<1>6. /\ b.transitioning = recover /\ b.startup = su /\ b.renewed = i.renewed /\ b.job = i.job
      /\ b.queue = i.queue /\ b.settled = i.settled /\ b.last = i.last
  BY <1>1, <1>2 DEF Shape, Fields
<1>7. /\ b.position = i.position /\ b.age = i.age /\ b.aligning = i.aligning
      /\ b.aligned = i.aligned
  BY <1>1, <1>2 DEF Shape, Fields
<1> HIDE DEF d, su, recover
<1>8. Shape(d) /\ d.ready = FALSE /\ \A f \in Fields \ {"ready"} : d[f] = b[f]
  BY <1>5 DEF d, Shape, Fields
<1>9. /\ d.target = c.position /\ d.goal = goal /\ d.mode = "hold" /\ d.requested = "hold"
      /\ d.transitioning = recover /\ d.startup = su /\ d.renewed = TRUE /\ d.job = None
  BY <1>1, <1>5, <1>6, <1>8 DEF Fields
<1>10. /\ d.queue = <<>> /\ d.settled = 0 /\ d.position = c.position /\ d.age = c.age
       /\ d.aligning = c.aligning /\ d.aligned = c.aligned /\ d.last = i.last
  BY <1>1, <1>6, <1>7, <1>8 DEF Fields, Fixed
<1>11. /\ Typed(c) /\ Sound(c) /\ c.aligning = None /\ c.mode = "hold" /\ ~Claimed(c)
       /\ OwnerOf(c) = "none"
  <2>1. /\ Typed(c) /\ Sound(c) /\ c.aligning = None /\ ~Claimed(c)
    BY DEF Good, Sound, Entitled
  <2>2. c.mode = "hold"
    BY <2>1 DEF Typed, Modes, Claimed
  <2> QED BY <2>1, <2>2 DEF OwnerOf, Clients, Streams
<1>12. Typed(d)
  <2>1. /\ d.position \in Spots /\ d.target \in Spots /\ d.goal \in Spots /\ d.settled \in Nat
    BY <1>3, <1>9, <1>10, Places
  <2>2. d.queue \in Ways
    BY <1>10 DEF Ways
  <2>3. d.aligning \in Nat \cup {None}
    BY <1>10, <1>11
  <2> QED BY <1>4, <1>8, <1>9, <1>10, <1>11, <2>1, <2>2, <2>3 DEF Typed, Modes
<1>13. Good(d)
  <2>1. Sound(d)
    BY <1>3, <1>4, <1>9, <1>10, <1>11, <1>12, Constants DEF Sound, Clients, Streams
  <2>2. ~Claimed(d)
    BY <1>9 DEF Claimed, Clients, Streams
  <2> QED BY <2>1, <2>2 DEF Good, Entitled
<1>14. OwnerStep(c, d)
  <2>1. CASE recover
    <3>1. OwnerOf(d) = "self"
      BY <1>4, <1>9, <2>1 DEF OwnerOf, Clients, Streams
    <3> QED BY <1>3, <1>9, <1>10, <1>11, <3>1 DEF OwnerStep
  <2>2. CASE ~recover
    <3>1. OwnerOf(d) = "none"
      BY <1>4, <1>9, <1>10, <1>11, <2>2 DEF OwnerOf, Clients, Streams
    <3>2. d.goal = c.position
      BY <1>9, <2>2 DEF recover
    <3> QED BY <1>10, <3>1, <3>2 DEF OwnerStep
  <2> QED BY <2>1, <2>2
<1>15. Told(c, d)
  <2>1. c.job # None => d.last = [id |-> c.job.id, result |-> "aborted"]
    BY <1>1, <1>10
  <2> QED BY <2>1 DEF Told
<1>16. Steps(c, d)
  BY <1>9, <1>13, <1>14, <1>15 DEF Steps
<1>17. /\ Steps(c, d) /\ d.ready = FALSE /\ d.mode = "hold"
       /\ d.startup \in {"recovering", "complete"}
       /\ d.position = c.position /\ d.age = c.age /\ d.target = c.position
  BY <1>4, <1>8, <1>9, <1>10, <1>16
<1> QED BY <1>17 DEF d, b

\* The controllers' state, as far as the core does not know it
Up ==
  /\ activation \in Nat \cup {None} /\ activated \in BOOLEAN
  /\ activated => activation # None
  /\ core.ready => activated
  /\ activation = None => core.startup = "pending"

\* The readiness of the controllers is no part of who has the arm.
Readied(c, d) ==
  Shape(d) /\ d.ready \in BOOLEAN /\ \A f \in Fields \ {"ready"} : d[f] = c[f]

LEMMA ReadiedFields ==
  ASSUME NEW c, NEW d, Readied(c, d)
  PROVE  /\ d.mode = c.mode /\ d.requested = c.requested
         /\ d.transitioning = c.transitioning /\ d.renewed = c.renewed /\ d.startup = c.startup
         /\ d.aligning = c.aligning /\ d.aligned = c.aligned /\ d.focus = c.focus
         /\ d.queue = c.queue /\ d.job = c.job /\ d.last = c.last
         /\ d.position = c.position /\ d.target = c.target /\ d.settled = c.settled
         /\ d.goal = c.goal /\ d.velocity = c.velocity /\ d.age = c.age
<1>1. /\ d.mode = c.mode /\ d.requested = c.requested
      /\ d.transitioning = c.transitioning /\ d.renewed = c.renewed /\ d.startup = c.startup
      /\ d.aligning = c.aligning /\ d.aligned = c.aligned /\ d.focus = c.focus
  BY DEF Readied, Fields
<1>2. /\ d.queue = c.queue /\ d.job = c.job /\ d.last = c.last
      /\ d.position = c.position /\ d.target = c.target /\ d.settled = c.settled
      /\ d.goal = c.goal /\ d.velocity = c.velocity /\ d.age = c.age
  BY DEF Readied, Fields
<1> QED BY <1>1, <1>2

LEMMA ReadiedSound ==
  ASSUME NEW c, NEW d, Sound(c), Readied(c, d)
  PROVE  Sound(d) /\ (Entitled(c) /\ (Claimed(c) => d.ready) => Entitled(d))
<1>1. Typed(d)
  BY ReadiedFields DEF Sound, Typed, Readied
<1>2. Sound(d)
  BY <1>1, ReadiedFields DEF Sound
<1>3. Claimed(d) <=> Claimed(c)
  BY ReadiedFields DEF Claimed
<1>4. Entitled(c) /\ (Claimed(c) => d.ready) => Entitled(d)
  BY <1>3, ReadiedFields DEF Entitled
<1> QED BY <1>2, <1>4

LEMMA ReadiedHalted ==
  ASSUME NEW c, NEW d, Halted(c, d), d.mode = "fault",
         NEW b, NEW n, Readied(c, b), Readied(d, n), n.ready = b.ready
  PROVE  Halted(b, n) /\ n.mode = "fault"
<1>1. /\ n.position = b.position /\ n.velocity = b.velocity /\ n.age = b.age
      /\ n.focus = b.focus /\ n.aligned = b.aligned /\ n.renewed = TRUE
  BY ReadiedFields DEF Halted, Ends, Fixed
<1>2. /\ n.job = None /\ n.queue = <<>> /\ n.settled = 0
      /\ n.goal \in {None, b.position} /\ n.target \in {b.target, b.position}
  BY ReadiedFields DEF Halted, Ends
<1>3. n.last = IF b.job # None THEN [id |-> b.job.id, result |-> "aborted"] ELSE b.last
  <2>1. d.last = IF c.job # None THEN [id |-> c.job.id, result |-> "aborted"] ELSE c.last
    BY DEF Halted, Ends
  <2>2. n.last = d.last /\ b.job = c.job /\ b.last = c.last
    BY ReadiedFields
  <2> QED BY <2>1, <2>2
<1>4. Ends(b, n)
  BY <1>1, <1>2, <1>3 DEF Ends, Fixed, Readied
<1>5. /\ n.mode = "fault" /\ n.requested = "fault" /\ n.transitioning = FALSE
      /\ n.aligning \in {b.aligning, None}
      /\ n.startup = IF b.startup = "recovering" THEN "pending" ELSE b.startup
  <2>1. /\ d.mode = "fault" /\ d.requested = "fault" /\ d.transitioning = FALSE
        /\ d.aligning \in {c.aligning, None}
        /\ d.startup = IF c.startup = "recovering" THEN "pending" ELSE c.startup
    BY DEF Halted, Left
  <2> QED BY <2>1, ReadiedFields
<1> QED BY <1>4, <1>5 DEF Halted, Left

\* Who has the arm is judged without the readiness.
LEMMA ReadiedMoves ==
  ASSUME NEW c, NEW d, Readied(c, d), NEW e, Moves(d, e) PROVE Moves(c, e)
<1>1. OwnerOf(d) = OwnerOf(c)
  <2>1. /\ d.mode = c.mode /\ d.startup = c.startup /\ d.aligning = c.aligning
        /\ d.transitioning = c.transitioning
    BY ReadiedFields
  <2> QED BY <2>1 DEF OwnerOf
<1>2. OwnerStep(c, e)
  BY <1>1, ReadiedFields DEF OwnerStep, Moves, Steps
<1>3. Told(c, e)
  BY ReadiedFields DEF Told, Stopped, Moves, Steps
<1>4. e.renewed \/ \A s \in Clients : Holds(e, s) => Turn(c, e, s)
  BY ReadiedFields DEF Turn, Moves, Steps
<1> QED BY <1>2, <1>3, <1>4, ReadiedFields DEF Moves, Steps

\* What poll leaves: the arm's start has begun, or it is as it was, or at fault.
Polled(k) ==
  /\ k.activation \in Nat \cup {None} /\ k.activated \in BOOLEAN
  /\ k.activated => k.activation # None
  /\ k.core.ready => k.activated
  /\ \/ /\ k.activation # None
        /\ Steps(core, k.core) /\ k.core.ready = FALSE /\ k.core.mode = "hold"
        /\ k.core.startup \in {"recovering", "complete"}
        /\ Fresh(k.core) /\ k.core.target # None /\ core.mode # "fault"
     \/ /\ k.activation = activation
        /\ \E c : Readied(core, c) /\ c.ready = k.core.ready /\ After(c, k.core)
        /\ core.mode = "fault" => k.core.mode = "fault"

LEMMA PollFacts ==
  ASSUME Good(core), Up, NEW r, NEW w, NEW clear PROVE Polled(Poll(r, w, clear))
<1> DEFINE heard == IF r \in {"none", "failed"} THEN seen
                    ELSE [state |-> IF r = "wrong" THEN "active" ELSE r, age |-> 0]
           recent == heard.age < SeenFor
           active == recent /\ heard.state = "active"
           listed == IF r \in {"wrong", "failed"} THEN Fault(core) ELSE core
           switched == IF /\ switching
                          /\ \/ w = "refused"
                             \/ w = "none" /\ ~active /\ activation > ActivateLimit
                       THEN Fault(listed) ELSE listed
           found == IF ~activated /\ active /\ activation = None
                    THEN Fault(switched) ELSE switched
           up == activated \/ (active /\ activation # None)
           begin == /\ activation = None /\ found.mode # "fault"
                    /\ recent /\ heard.state = "inactive"
                    /\ Fresh(found) /\ Stopped(found) /\ clear
           ready == up /\ active
           begun == [(IF begin THEN BeginStartup(found) ELSE found) EXCEPT !.ready = ready]
           since == IF begin THEN 0 ELSE activation
           failed == \/ since # None /\ ~up /\ since > ActivateLimit
                     \/ up /\ ~active
           k == Poll(r, w, clear)
           e == k.core
<1>1. k = [core |-> IF failed THEN Fault(begun) ELSE begun,
           seen |-> heard, activation |-> since, activated |-> up,
           switching |-> begin \/ (switching /\ w = "none")]
  BY Zenon DEF Poll
<1>2. /\ e = IF failed THEN Fault(begun) ELSE begun
      /\ k.activation = since /\ k.activated = up
  <2> HIDE DEF failed, begun, since, up, begin, heard, k
  <2> QED BY <1>1
<1> HIDE DEF k
<1>3. up \in BOOLEAN /\ ready \in BOOLEAN /\ begin \in BOOLEAN
  OBVIOUS
<1>4. since \in Nat \cup {None} /\ (up => since # None) /\ (begin => since = 0)
  BY Constants DEF Up
<1>5. begin => ~up /\ ~failed
  BY Constants DEF Up
<1>6. failed \/ ~up \/ ready
  OBVIOUS
<1> HIDE DEF e, active, recent, heard
<1> DEFINE Faulty(a, b) == b = a \/ (Halted(a, b) /\ b.mode = "fault")
<1>7. Sound(core)
  BY DEF Good
<1>8. ASSUME NEW a, NEW b, Sound(a), Faulty(a, b) PROVE Sound(b) /\ Faulty(a, Fault(b))
  <2>1. Sound(b)
    BY <1>8, HaltedGood DEF Good
  <2> QED BY <1>8, <2>1, FaultGood, HaltedTwice
<1>9. Faulty(core, found)
  <2>1. Faulty(core, listed)
    BY <1>7, <1>8
  <2>2. Faulty(core, switched)
    BY <1>7, <1>8, <2>1
  <2> QED BY <1>7, <1>8, <2>2
<1>10. found = core \/ found.mode = "fault"
  BY <1>9
<1>11. Sound(found)
  BY <1>7, <1>8, <1>9
<1>12. /\ begin => found = core /\ activation = None /\ Fresh(core) /\ ready = FALSE
       /\ ~begin => since = activation
  BY <1>3, <1>5, <1>10
<1> HIDE DEF found, up, ready, since, failed, begin
<1>13. CASE begin
  <2>1. e = [BeginStartup(core) EXCEPT !.ready = FALSE]
    BY <1>2, <1>5, <1>12, <1>13
  <2>2. /\ core.startup = "pending" /\ core.mode # "fault" /\ core.position # None
    <3>1. core.mode # "fault"
      BY <1>10, <1>12, <1>13 DEF begin, found
    <3> QED BY <1>12, <1>13, <3>1 DEF Up, Fresh
  <2>3. /\ Steps(core, e) /\ e.ready = FALSE /\ e.mode = "hold"
        /\ e.startup \in {"recovering", "complete"}
        /\ e.position = core.position /\ e.age = core.age /\ e.target = core.position
    BY <2>1, <2>2, BeginFacts
  <2>4. Fresh(e)
    BY <1>12, <1>13, <2>3 DEF Fresh
  <2>5. since = 0 /\ 0 # None /\ 0 \in Nat
    BY <1>4, <1>13, Constants
  <2>6. k.core = e /\ k.activation = 0 /\ k.activated = up
    BY <1>2, <2>5 DEF e
  <2>7. e.target # None
    BY <2>2, <2>3
  <2>8. Polled(k)
    BY <1>3, <1>4, <1>13, <2>2, <2>3, <2>4, <2>5, <2>6, <2>7 DEF Polled
  <2> QED BY <2>8 DEF k
<1>14. CASE ~begin
  <2> DEFINE b == [core EXCEPT !.ready = ready]
             n == [found EXCEPT !.ready = ready]
  <2>1. e = IF failed THEN Fault(n) ELSE n
    BY <1>2, <1>14
  <2>2. /\ Shape(core) /\ Shape(found)
    BY <1>7, <1>11 DEF Sound, Typed
  <2>3. Readied(core, b) /\ b.ready = ready
    <3>1. Shape(b) /\ b.ready = ready /\ \A f \in Fields \ {"ready"} : b[f] = core[f]
      BY <2>2 DEF Shape, Fields
    <3> QED BY <1>3, <3>1 DEF Readied
  <2>4. Readied(found, n) /\ n.ready = ready
    <3>1. Shape(n) /\ n.ready = ready /\ \A f \in Fields \ {"ready"} : n[f] = found[f]
      BY <2>2 DEF Shape, Fields
    <3> QED BY <1>3, <3>1 DEF Readied
  <2>5. found = core => n = b
    OBVIOUS
  <2> HIDE DEF b, n
  <2>6. Sound(b)
    BY <1>7, <2>3, ReadiedSound
  <2>7. Sound(n)
    BY <1>11, <2>4, ReadiedSound
  <2>8. Faulty(b, n)
    BY <1>9, <2>3, <2>4, <2>5, ReadiedHalted
  <2>9. Faulty(b, e)
    BY <1>8, <2>1, <2>6, <2>8
  <2>10. e.ready = ready
    BY <2>1, <2>4, <2>7, FaultFacts DEF Faulted, Ends, Fixed, Sound, Typed
  <2>11. Good(e)
    <3>1. CASE Halted(b, e)
      BY <2>6, <3>1, HaltedMoves
    <3>2. CASE e = b
      <4>1. Claimed(core) => ready \/ failed
        BY <1>6 DEF Good, Entitled, Up, up
      <4>2. CASE failed
        <5>1. e = Fault(n)
          BY <2>1, <4>2
        <5> QED BY <2>7, <5>1, FaultGood
      <4>3. CASE ~failed
        <5>1. Claimed(core) => b.ready
          BY <2>3, <4>1, <4>3
        <5>2. Entitled(b)
          BY <1>7, <2>3, <5>1, ReadiedSound DEF Good
        <5> QED BY <2>6, <3>2, <5>2 DEF Good
      <4> QED BY <4>2, <4>3
    <3> QED BY <2>9, <3>1, <3>2
  <2>12. After(b, e)
    BY <2>6, <2>9, <2>11 DEF After
  <2>13. core.mode = "fault" => e.mode = "fault"
    BY <2>3, <2>9, ReadiedFields
  <2>14. ready => up
    BY DEF ready
  <2>15. k.core = e /\ k.activation = activation /\ k.activated = up
    BY <1>2, <1>12, <1>14 DEF e
  <2>16. \E c : Readied(core, c) /\ c.ready = e.ready /\ After(c, e)
    BY <2>3, <2>10, <2>12
  <2>17. /\ k.activation \in Nat \cup {None} /\ k.activated \in BOOLEAN
         /\ k.activated => k.activation # None
    BY <1>3, <1>4, <1>12, <1>14, <2>15
  <2>18. Polled(k)
    BY <2>10, <2>13, <2>14, <2>15, <2>16, <2>17 DEF Polled
  <2> QED BY <2>18 DEF k
<1> QED BY <1>13, <1>14

\* A pending focus has a mode to ask for.
FocusNamed == pending => env.focusMode # ""

\* activate_pending_focus has asked for the mode, if it was due.
FocusFollowed(c, f) == f = IF FocusDue(c) THEN Request(c, env.focusMode) ELSE c

LEMMA FollowedTicks ==
  ASSUME NEW b, NEW c, Readied(b, c), NEW k, After(c, k), b.mode = "fault" => k.mode = "fault",
         NEW f, After(c, f), k.mode = "fault" => f = k,
         NEW dt, NEW d \in Ticked(f, dt)
  PROVE  /\ Moves(b, d) /\ d.ready = c.ready
         /\ b.mode = "fault" => d.mode = "fault"
<1>1. Moves(c, d) /\ d.ready = c.ready /\ (f.mode = "fault" => d.mode = "fault")
  BY TickedMoves
<1>2. Moves(b, d)
  BY <1>1, ReadiedMoves
<1>3. b.mode = "fault" => f.mode = "fault"
  OBVIOUS
<1> QED BY <1>1, <1>2, <1>3

LEMMA TickSteps ==
  ASSUME Good(core), Up, env \in Surroundings, FocusNamed,
         NEW k, Polled(k),
         NEW f, FocusFollowed(k.core, f),
         NEW d \in Ticked(f, late)
  PROVE  /\ Steps(core, d)
         /\ k.activation \in Nat \cup {None} /\ k.activated \in BOOLEAN
         /\ k.activated => k.activation # None
         /\ d.ready => k.activated
         /\ k.activation = None => d.startup = "pending"
         /\ core.mode = "fault" => d.mode = "fault"
<1>1. /\ k.activation \in Nat \cup {None} /\ k.activated \in BOOLEAN
      /\ k.activated => k.activation # None
      /\ k.core.ready => k.activated
  BY DEF Polled
<1>2. CASE /\ k.activation # None
           /\ Steps(core, k.core) /\ k.core.ready = FALSE /\ k.core.mode = "hold"
           /\ k.core.startup \in {"recovering", "complete"}
           /\ Fresh(k.core) /\ k.core.target # None /\ core.mode # "fault"
  <2>1. f = k.core
    BY <1>2 DEF FocusDue, FocusFollowed
  <2>2. Phase(f) = "waiting"
    BY <1>2, <2>1 DEF Phase
  <2>3. d = f
    BY <2>2 DEF Ticked
  <2> QED BY <1>1, <1>2, <2>1, <2>3
<1>3. ASSUME NEW c, Readied(core, c), c.ready = k.core.ready, After(c, k.core),
             k.activation = activation, core.mode = "fault" => k.core.mode = "fault"
      PROVE  /\ Steps(core, d) /\ d.ready = k.core.ready
             /\ k.activation = None => d.startup = "pending"
             /\ core.mode = "fault" => d.mode = "fault"
  <2>1. After(c, f) /\ (k.core.mode = "fault" => f = k.core)
    <3>1. CASE FocusDue(k.core)
      <4>1. pending /\ k.core.mode = "hold"
        BY <3>1 DEF FocusDue
      <4>2. env.focusMode \in Clients
        BY <4>1, ManagerAssumption DEF FocusNamed, Surrounding, Clients
      <4>3. Good(k.core)
        BY <1>3 DEF After
      <4>4. f = k.core \/ Halted(k.core, f)
        BY <3>1, <4>2, <4>3, RequestFacts DEF FocusFollowed
      <4> QED BY <1>3, <4>1, <4>4, AfterThen
    <3>2. CASE ~FocusDue(k.core)
      BY <1>3, <3>2 DEF FocusFollowed
    <3> QED BY <3>1, <3>2
  <2>2. /\ Moves(core, d) /\ d.ready = c.ready
        /\ core.mode = "fault" => d.mode = "fault"
    BY <1>3, <2>1, FollowedTicks
  <2>3. Steps(core, d) /\ (core.startup = "pending" => d.startup = "pending")
    BY <2>2 DEF Moves
  <2>4. k.activation = None => core.startup = "pending"
    BY <1>3 DEF Up
  <2> QED BY <1>3, <2>2, <2>3, <2>4
<1>4. CASE /\ k.activation = activation
           /\ \E c : Readied(core, c) /\ c.ready = k.core.ready /\ After(c, k.core)
           /\ core.mode = "fault" => k.core.mode = "fault"
  BY <1>1, <1>3, <1>4
<1> QED BY <1>2, <1>4 DEF Polled

-----------------------------------------------------------------------------
(* The manager *)

Queued(s) == [cur : BOOLEAN, turn : BOOLEAN, body : env.messages[s]] \cup {None}

\* A message with the current epoch, of one who has the arm or is to get it, was
\* written in its present turn.
MailOK ==
  /\ inbox = [s \in Clients |-> inbox[s]]
  /\ \A s \in Clients : inbox[s] \in Queued(s)
  /\ \A s \in Clients : inbox[s] # None /\ inbox[s].cur /\ Holds(core, s) => inbox[s].turn

ManagerOK ==
  /\ env \in Surroundings
  /\ Good(core) /\ ~core.renewed
  /\ Up
  /\ faults # {} => core.mode = "fault"
  /\ FocusNamed
  /\ MailOK

\* What the rest of the proof needs to know of a step
Kept ==
  /\ Good(core') /\ ~core'.renewed
  /\ core'.mode = "tcp_ik" /\ core.mode # "tcp_ik" => EntryClear(core')
  /\ Told(core, core')
  /\ OwnerStep(core, core')

LEMMA NoneIsNoMessage ==
  ASSUME env \in Surroundings, NEW s \in Clients
  PROVE  None \notin [cur : BOOLEAN, turn : BOOLEAN, body : env.messages[s]]
  BY ManagerAssumption

LEMMA CommitKeeps ==
  ASSUME ManagerOK, NEW c, Steps(core, c), UNCHANGED env,
         NEW box, box = [s \in Clients |-> box[s]], \A s \in Clients : box[s] \in {inbox[s], None},
         Commit(c, box)
  PROVE  /\ Kept /\ MailOK'
         /\ core'.mode = c.mode /\ core'.ready = c.ready /\ core'.startup = c.startup
         /\ \A s \in Clients : inbox'[s] = None <=> box[s] = None
<1> DEFINE d == [c EXCEPT !.renewed = FALSE]
<1>1. core' = d
  BY DEF Commit
<1>2. Good(c) /\ Shape(c) /\ Typed(c)
  BY DEF Steps, Good, Sound, Typed
<1>3. Shape(d) /\ d.renewed = FALSE /\ \A f \in Fields \ {"renewed"} : d[f] = c[f]
  BY <1>2 DEF Shape, Fields
<1> HIDE DEF d
<1>4. /\ d.mode = c.mode /\ d.requested = c.requested
      /\ d.transitioning = c.transitioning /\ d.startup = c.startup
      /\ d.aligning = c.aligning /\ d.aligned = c.aligned /\ d.focus = c.focus /\ d.ready = c.ready
  BY <1>3 DEF Fields
<1>5. /\ d.queue = c.queue /\ d.job = c.job /\ d.last = c.last
      /\ d.position = c.position /\ d.target = c.target /\ d.settled = c.settled
      /\ d.goal = c.goal /\ d.velocity = c.velocity /\ d.age = c.age
      /\ d.proof = c.proof /\ d.steady = c.steady
  BY <1>3 DEF Fields
<1>6. Good(d)
  <2>1. Typed(d)
    BY <1>2, <1>3, <1>4, <1>5 DEF Typed
  <2>2. Sound(d)
    BY <1>2, <1>4, <1>5, <2>1 DEF Good, Sound
  <2>3. Entitled(d)
    BY <1>2, <1>4 DEF Good, Entitled, Claimed
  <2> QED BY <2>2, <2>3 DEF Good
<1>7. OwnerStep(core, d)
  <2>1. OwnerOf(d) = OwnerOf(c)
    BY <1>4 DEF OwnerOf
  <2>2. OwnerStep(core, c) /\ d.goal = c.goal /\ d.position = c.position
    BY <1>5 DEF Steps
  <2> QED BY <2>1, <2>2 DEF OwnerStep
<1>8. Told(core, d)
  BY <1>5 DEF Told, Steps
<1>9. d.mode = "tcp_ik" /\ core.mode # "tcp_ik" => EntryClear(d)
  BY <1>4, <1>5 DEF Steps, EntryClear, Fresh, Stopped
<1>10. Kept
  BY <1>1, <1>3, <1>6, <1>7, <1>8, <1>9 DEF Kept
<1>11. ASSUME NEW s \in Clients
       PROVE  /\ inbox'[s] \in Queued(s)' /\ (inbox'[s] = None <=> box[s] = None)
              /\ inbox'[s] # None /\ inbox'[s].cur /\ Holds(d, s) => inbox'[s].turn
  <2>1. inbox'[s] = IF box[s] = None THEN None
                    ELSE [box[s] EXCEPT !.cur = @ /\ ~c.renewed, !.turn = @ /\ SameTurn(s, c)]
    BY DEF Commit
  <2>2. Queued(s)' = Queued(s)
    BY DEF Queued
  <2>3. CASE box[s] = None
    BY <2>1, <2>2, <2>3 DEF Queued
  <2>4. CASE box[s] # None
    <3>1. box[s] \in [cur : BOOLEAN, turn : BOOLEAN, body : env.messages[s]] /\ box[s] = inbox[s]
      BY <2>4 DEF ManagerOK, MailOK, Queued
    <3> DEFINE r == box[s]
               n == [r EXCEPT !.cur = @ /\ ~c.renewed, !.turn = @ /\ SameTurn(s, c)]
    <3>2. inbox'[s] = n
      BY <2>1, <2>4
    <3>3. (r.cur /\ ~c.renewed) \in BOOLEAN /\ (r.turn /\ SameTurn(s, c)) \in BOOLEAN
      OBVIOUS
    <3>4. /\ n.cur = (r.cur /\ ~c.renewed) /\ n.turn = (r.turn /\ SameTurn(s, c))
          /\ n \in [cur : BOOLEAN, turn : BOOLEAN, body : env.messages[s]]
      BY <3>1, <3>3
    <3> HIDE DEF n, r
    <3>5. n # None
      BY <3>4, NoneIsNoMessage DEF ManagerOK
    <3>6. SameTurn(s, c) <=> Turn(core, c, s)
      BY DEF SameTurn, Turn
    <3>7. Turn(core, c, s) => Holds(core, s)
      BY DEF Turn, Holds
    <3>8. Holds(d, s) <=> Holds(c, s)
      BY <1>4 DEF Holds
    <3>9. r = inbox[s] /\ r # None /\ (r.cur /\ Holds(core, s) => r.turn)
      BY <2>4, <3>1 DEF ManagerOK, MailOK, r
    <3>10. ~c.renewed /\ Holds(c, s) => Turn(core, c, s)
      BY DEF Steps
    <3>11. n.cur /\ Holds(d, s) => n.turn
      BY <3>4, <3>6, <3>7, <3>8, <3>9, <3>10
    <3> QED BY <2>2, <2>4, <3>2, <3>4, <3>5, <3>11 DEF Queued
  <2> QED BY <2>3, <2>4
<1>12. inbox' = [s \in Clients |-> inbox'[s]]
  BY DEF Commit
<1>13. MailOK'
  BY <1>1, <1>11, <1>12 DEF MailOK
<1> QED BY <1>1, <1>4, <1>10, <1>11, <1>13

LEMMA OlderFacts ==
  ASSUME NEW a \in Nat \cup {None}, NEW b
  PROVE  Older(a, b) \in Nat \cup {None} /\ (Older(a, b) = None <=> a = None)
  BY Constants DEF Older

\* A callback or a tick that leaves the controllers as poll found them.
LEMMA CallKeeps ==
  ASSUME ManagerOK, NEW c, Moves(core, c), c.ready = core.ready,
         faults' # {} => c.mode = "fault", FocusNamed',
         UNCHANGED <<env, activation, activated>>,
         NEW box, box = [s \in Clients |-> box[s]], \A s \in Clients : box[s] \in {inbox[s], None},
         Commit(c, box)
  PROVE  /\ ManagerOK' /\ Kept
         /\ \A s \in Clients : inbox'[s] = None <=> box[s] = None
<1>1. Steps(core, c) /\ (core.startup = "pending" => c.startup = "pending")
  BY DEF Moves
<1>2. /\ Kept /\ MailOK'
      /\ core'.mode = c.mode /\ core'.ready = c.ready /\ core'.startup = c.startup
      /\ \A s \in Clients : inbox'[s] = None <=> box[s] = None
  BY <1>1, CommitKeeps
<1>3. Up'
  BY <1>1, <1>2 DEF ManagerOK, Up
<1>4. faults' # {} => core'.mode = "fault"
  BY <1>2
<1>5. (env \in Surroundings)' /\ Good(core') /\ ~core'.renewed
  BY <1>2 DEF ManagerOK, Kept
<1> QED BY <1>2, <1>3, <1>4, <1>5 DEF ManagerOK

\* Only a producer's message that is taken is gone afterwards.
Heard ==
  \A s \in Clients : inbox[s] # None /\ inbox'[s] = None /\ ~inbox[s].turn => core' = core

LEMMA CallbackKeeps ==
  ASSUME ManagerOK, NEW c, Moves(core, c), c.ready = core.ready,
         faults' # {} => c.mode = "fault", FocusNamed',
         UNCHANGED <<env, controllers>>, Commit(c, inbox)
  PROVE  ManagerOK' /\ Kept /\ Heard
<1>1. inbox = [s \in Clients |-> inbox[s]] /\ \A s \in Clients : inbox[s] \in {inbox[s], None}
  BY DEF ManagerOK, MailOK
<1>2. UNCHANGED <<env, activation, activated>>
  BY DEF controllers
<1>3. /\ ManagerOK' /\ Kept
      /\ \A s \in Clients : inbox'[s] = None <=> inbox[s] = None
  BY <1>1, <1>2, CallKeeps
<1> QED BY <1>3 DEF Heard

LEMMA FaultMoves ==
  ASSUME NEW c, Good(c)
  PROVE  Moves(c, Fault(c)) /\ Fault(c).ready = c.ready /\ Fault(c).mode = "fault"
  BY FaultGood, HaltedMoves DEF Good

LEMMA OnStateKeeps ==
  ASSUME ManagerOK, OnState, UNCHANGED env PROVE ManagerOK' /\ Kept /\ Heard
<1>1. PICK p \in env.readings, v \in env.speeds : Commit(Feedback(core, p, v), inbox)
  BY DEF OnState
<1>2. p \in Int
  BY <1>1, ManagerAssumption DEF ManagerOK, Surrounding
<1>3. /\ Moves(core, Feedback(core, p, v)) /\ Feedback(core, p, v).ready = core.ready
      /\ (core.mode = "fault" => Feedback(core, p, v).mode = "fault")
  BY <1>2, FeedbackMoves DEF ManagerOK
<1>4. FocusNamed' /\ (faults' # {} => Feedback(core, p, v).mode = "fault")
  BY <1>3 DEF OnState, FocusNamed, ManagerOK
<1> QED BY <1>1, <1>3, <1>4, CallbackKeeps DEF OnState

LEMMA OnBadStateKeeps ==
  ASSUME ManagerOK, OnBadState, UNCHANGED env PROVE ManagerOK' /\ Kept /\ Heard
<1>1. Moves(core, Fault(core)) /\ Fault(core).ready = core.ready /\ Fault(core).mode = "fault"
  BY FaultMoves DEF ManagerOK
<1>2. FocusNamed'
  BY DEF OnBadState, FocusNamed, ManagerOK
<1> QED BY <1>1, <1>2, CallbackKeeps DEF OnBadState

LEMMA OnFocusKeeps ==
  ASSUME ManagerOK, NEW f, OnFocus(f), UNCHANGED env PROVE ManagerOK' /\ Kept /\ Heard
<1>1. /\ Moves(core, Focused(core, f)) /\ Focused(core, f).ready = core.ready
      /\ (core.mode = "fault" => Focused(core, f).mode = "fault")
  BY FocusedMoves DEF ManagerOK
<1>2. FocusNamed'
  BY DEF OnFocus, FocusNamed, ManagerOK
<1>3. faults' # {} => Focused(core, f).mode = "fault"
  BY <1>1 DEF OnFocus, ManagerOK
<1> QED BY <1>1, <1>2, <1>3, CallbackKeeps DEF OnFocus

LEMMA OnTcpEntryKeeps ==
  ASSUME ManagerOK, OnTcpEntry, UNCHANGED env PROVE ManagerOK' /\ Kept /\ Heard
<1>1. PICK a \in env.assessments :
        Commit([core EXCEPT !.proof = IF a = None THEN None
                  ELSE [cur |-> TRUE, age |-> 0, safe |-> a.safe, at |-> a.at]], inbox)
  BY DEF OnTcpEntry
<1> DEFINE p == IF a = None THEN None
                ELSE [cur |-> TRUE, age |-> 0, safe |-> a.safe, at |-> a.at]
           d == [core EXCEPT !.proof = p]
<1>2. Commit(d, inbox)
  BY <1>1
<1>3. Moves(core, d) /\ d.ready = core.ready /\ d.mode = core.mode
  BY ProofMoves DEF ManagerOK
<1> HIDE DEF d
<1>4. FocusNamed' /\ (faults' # {} => d.mode = "fault")
  BY <1>3 DEF OnTcpEntry, FocusNamed, ManagerOK
<1> QED BY <1>2, <1>3, <1>4, CallbackKeeps DEF OnTcpEntry

LEMMA OnFaultKeeps ==
  ASSUME ManagerOK, NEW joint, OnFault(joint), UNCHANGED env PROVE ManagerOK' /\ Kept /\ Heard
<1>1. PICK again \in {core, Fault(core)} :
        Commit(IF joint \in faults THEN again ELSE Fault(core), inbox)
  BY DEF OnFault
<1> DEFINE d == IF joint \in faults THEN again ELSE Fault(core)
<1>2. d = Fault(core) \/ (d = core /\ joint \in faults)
  BY <1>1
<1>3. Commit(d, inbox)
  BY <1>1
<1> HIDE DEF d
<1>4. Moves(core, d) /\ d.ready = core.ready /\ d.mode = "fault"
  BY <1>2, FaultMoves, SelfMoves DEF ManagerOK
<1>5. FocusNamed'
  BY DEF OnFault, FocusNamed, ManagerOK
<1> QED BY <1>3, <1>4, <1>5, CallbackKeeps DEF OnFault

LEMMA OnFaultOverKeeps ==
  ASSUME ManagerOK, NEW joint, OnFaultOver(joint), UNCHANGED env
  PROVE  ManagerOK' /\ Kept /\ Heard
<1> DEFINE d == IF faults' # {} THEN Fault(core) ELSE core
<1>1. Commit(d, inbox)
  BY DEF OnFaultOver
<1>2. (d = Fault(core) /\ faults' # {}) \/ (d = core /\ faults' = {})
  OBVIOUS
<1> HIDE DEF d
<1>3. Moves(core, d) /\ d.ready = core.ready /\ (faults' # {} => d.mode = "fault")
  BY <1>2, FaultMoves, SelfMoves DEF ManagerOK
<1>4. FocusNamed'
  BY DEF OnFaultOver, FocusNamed, ManagerOK
<1> QED BY <1>1, <1>3, <1>4, CallbackKeeps DEF OnFaultOver

LEMMA OnCurrentProtectionKeeps ==
  ASSUME ManagerOK, OnCurrentProtection, UNCHANGED env PROVE ManagerOK' /\ Kept /\ Heard
<1>1. core.mode = "tool_auto" /\ Commit(AbortToHold(core), inbox)
  BY DEF OnCurrentProtection
<1>2. Moves(core, AbortToHold(core)) /\ AbortToHold(core).ready = core.ready
  BY <1>1, AbortGood, HaltedMoves DEF ManagerOK, Good
<1>3. faults' = {} /\ FocusNamed'
  BY <1>1 DEF OnCurrentProtection, FocusNamed, ManagerOK
<1> QED BY <1>1, <1>2, <1>3, CallbackKeeps DEF OnCurrentProtection

LEMMA SetModeKeeps ==
  ASSUME ManagerOK, NEW m \in env.requests, SetMode(m), UNCHANGED env
  PROVE  ManagerOK' /\ Kept /\ Heard
<1>1. m \in Clients \cup {"hold"}
  BY ManagerAssumption DEF ManagerOK, Surrounding
<1>2. /\ Moves(core, Request(core, m)) /\ Request(core, m).ready = core.ready
      /\ core.mode = "fault" => Request(core, m) = core
  BY <1>1, RequestMoves DEF ManagerOK
<1>3. FocusNamed'
  BY DEF SetMode, FocusNamed
<1>4. faults' # {} => Request(core, m).mode = "fault"
  BY <1>2 DEF SetMode, ManagerOK
<1> QED BY <1>2, <1>3, <1>4, CallbackKeeps DEF SetMode

LEMMA ResetFaultKeeps ==
  ASSUME ManagerOK, ResetFault, UNCHANGED env PROVE ManagerOK' /\ Kept /\ Heard
<1> DEFINE d == ResetAllowed(core)
<1>1. (faults = {} /\ d = Reset(core)) \/ (faults # {} /\ d = core)
  BY DEF ResetAllowed
<1>2. Commit(d, inbox)
  BY DEF ResetFault
<1> HIDE DEF d
<1>3. Moves(core, d) /\ d.ready = core.ready /\ (faults' # {} => d.mode = "fault")
  BY <1>1, ResetMoves, SelfMoves DEF ManagerOK, ResetFault
<1>4. FocusNamed'
  BY DEF ResetFault, FocusNamed, ManagerOK
<1> QED BY <1>2, <1>3, <1>4, CallbackKeeps DEF ResetFault

LEMMA StillKept ==
  ASSUME ManagerOK, UNCHANGED core PROVE Kept
<1>1. Moves(core, core)
  BY SelfMoves DEF ManagerOK
<1> QED BY <1>1 DEF Kept, ManagerOK, Moves, Steps

LEMMA SendKeeps ==
  ASSUME ManagerOK, NEW s \in Clients, Send(s), UNCHANGED env
  PROVE  ManagerOK' /\ Kept /\ Heard
<1>1. PICK m \in env.messages[s], cur \in BOOLEAN :
        inbox' = [inbox EXCEPT ![s] =
          [cur |-> cur, turn |-> s \in {core.mode, core.requested}, body |-> m]]
  BY DEF Send
<1> DEFINE t == s \in {core.mode, core.requested}
           n == [cur |-> cur, turn |-> t, body |-> m]
<1>2. t \in BOOLEAN
  OBVIOUS
<1>3. n \in [cur : BOOLEAN, turn : BOOLEAN, body : env.messages[s]]
  BY <1>1, <1>2
<1>4. n.turn = t
  OBVIOUS
<1>5. inbox' = [inbox EXCEPT ![s] = n]
  BY <1>1
<1> HIDE DEF n, t
<1>6. inbox = [r \in Clients |-> inbox[r]]
  BY DEF ManagerOK, MailOK
<1>7. inbox' = [r \in Clients |-> IF r = s THEN n ELSE inbox[r]]
  BY <1>5, <1>6
<1>8. inbox' = [r \in Clients |-> inbox'[r]]
  BY <1>7
<1>9. ASSUME NEW r \in Clients
      PROVE  /\ inbox'[r] \in Queued(r)'
             /\ inbox'[r] # None /\ inbox'[r].cur /\ Holds(core', r) => inbox'[r].turn
  <2>1. core' = core /\ env' = env
    BY DEF Send
  <2>2. CASE r = s
    <3>1. Holds(core, s) => t
      BY DEF Holds, t, ManagerOK, Good, Sound
    <3> QED BY <1>3, <1>4, <1>7, <2>1, <2>2, <3>1 DEF Queued
  <2>3. CASE r # s
    <3>1. inbox'[r] = inbox[r]
      BY <1>7, <2>3
    <3> QED BY <2>1, <3>1 DEF Queued, ManagerOK, MailOK
  <2> QED BY <2>2, <2>3
<1>10. MailOK'
  BY <1>8, <1>9 DEF MailOK
<1>11. UNCHANGED <<core, faults, pending, activation, activated, env>>
  BY DEF Send, controllers
<1>12. Kept
  BY <1>11, StillKept
<1>13. ManagerOK'
  BY <1>10, <1>11 DEF ManagerOK, Up, FocusNamed
<1> QED BY <1>11, <1>12, <1>13 DEF Heard

LEMMA OnCommandKeeps ==
  ASSUME ManagerOK, NEW s \in Clients, OnCommand(s), UNCHANGED env
  PROVE  ManagerOK' /\ Kept /\ Heard
<1> DEFINE m == inbox[s]
<1>1. PICK c \in Handled(core, s, m) : Commit(c, [inbox EXCEPT ![s] = None])
  BY DEF OnCommand
<1>2. m \in [cur : BOOLEAN, turn : BOOLEAN, body : env.messages[s]]
  BY DEF OnCommand, ManagerOK, MailOK, Queued
<1>3. m.body \in env.messages[s] /\ m.cur \in BOOLEAN
  BY <1>2
<1> DEFINE box == [inbox EXCEPT ![s] = None]
<1>4. inbox = [r \in Clients |-> inbox[r]]
  BY DEF ManagerOK, MailOK
<1>5. box = [r \in Clients |-> IF r = s THEN None ELSE inbox[r]]
  BY <1>4
<1>6. Commit(c, box)
  BY <1>1
<1>7. m.cur /\ Holds(core, s) => m.turn
  BY DEF OnCommand, ManagerOK, MailOK
<1> HIDE DEF box, m
<1>8. Moves(core, c) /\ c.ready = core.ready /\ (core.mode = "fault" => c.mode = "fault")
  BY <1>1, <1>3, HandledMoves DEF ManagerOK
<1>9. /\ box = [r \in Clients |-> box[r]] /\ \A r \in Clients : box[r] \in {inbox[r], None}
      /\ \A r \in Clients : box[r] = None => r = s \/ inbox[r] = None
  BY <1>5
<1>10. /\ UNCHANGED <<env, activation, activated>> /\ FocusNamed'
       /\ faults' # {} => c.mode = "fault"
  BY <1>8 DEF OnCommand, controllers, FocusNamed, ManagerOK
<1>11. /\ ManagerOK' /\ Kept
       /\ \A r \in Clients : inbox'[r] = None <=> box[r] = None
  BY <1>6, <1>8, <1>9, <1>10, CallKeeps
<1>12. ASSUME ~m.turn PROVE core' = core
  <2>1. c = core
    BY <1>1, <1>3, <1>7, <1>12, HandledOld DEF Holds, ManagerOK
  <2>2. core' = [core EXCEPT !.renewed = FALSE]
    BY <1>6, <2>1 DEF Commit
  <2>3. Shape(core) /\ core.renewed = FALSE
    BY DEF ManagerOK, Good, Sound, Typed
  <2> QED BY <2>2, <2>3 DEF Shape, Fields
<1>13. Heard
  BY <1>9, <1>11, <1>12 DEF Heard, m
<1> QED BY <1>11, <1>13

LEMMA TickKeeps ==
  ASSUME ManagerOK, Tick, UNCHANGED env PROVE ManagerOK' /\ Kept /\ Heard
<1>1. PICK r, w, clear :
        LET polled == Poll(r, w, clear)
            focused == IF FocusDue(polled.core)
                       THEN Request(polled.core, env.focusMode) ELSE polled.core
        IN /\ activation' = polled.activation /\ activated' = polled.activated
           /\ pending' = (pending /\ polled.core.mode # "fault" /\ ~FocusDue(polled.core))
           /\ \E c \in Ticked(focused, late) : Commit(c, inbox)
  BY DEF Tick
<1> DEFINE k == Poll(r, w, clear)
           f == IF FocusDue(k.core) THEN Request(k.core, env.focusMode) ELSE k.core
<1>2. PICK d \in Ticked(f, late) : Commit(d, inbox)
  BY <1>1
<1>3. activation' = k.activation /\ activated' = k.activated /\ (pending' => pending)
  BY <1>1
<1>4. FocusFollowed(k.core, f)
  BY DEF FocusFollowed
<1>5. Polled(k)
  BY PollFacts DEF ManagerOK
<1> HIDE DEF k, f
<1>6. /\ Steps(core, d)
      /\ k.activation \in Nat \cup {None} /\ k.activated \in BOOLEAN
      /\ k.activated => k.activation # None
      /\ d.ready => k.activated
      /\ k.activation = None => d.startup = "pending"
      /\ core.mode = "fault" => d.mode = "fault"
  BY <1>2, <1>4, <1>5, TickSteps DEF ManagerOK
<1>7. inbox = [s \in Clients |-> inbox[s]] /\ \A s \in Clients : inbox[s] \in {inbox[s], None}
  BY DEF ManagerOK, MailOK
<1>8. /\ Kept /\ MailOK'
      /\ core'.mode = d.mode /\ core'.ready = d.ready /\ core'.startup = d.startup
      /\ \A s \in Clients : inbox'[s] = None <=> inbox[s] = None
  BY <1>2, <1>6, <1>7, CommitKeeps
<1>9. Up'
  BY <1>3, <1>6, <1>8 DEF Up
<1>10. FocusNamed' /\ (faults' # {} => core'.mode = "fault")
  BY <1>3, <1>6, <1>8 DEF Tick, FocusNamed, ManagerOK
<1>11. ManagerOK'
  BY <1>8, <1>9, <1>10 DEF ManagerOK, Kept
<1> QED BY <1>8, <1>11 DEF Heard

-----------------------------------------------------------------------------
(* Time *)

Clocks == {"age", "command", "started", "outward", "steady", "proof", "recovery",
           "aligning", "alignSteady", "stall"}

LEMMA AgedFacts ==
  ASSUME NEW c, Shape(c)
  PROVE  /\ Shape(Aged(c)) /\ \A f \in Fields \ Clocks : Aged(c)[f] = c[f]
         /\ Aged(c).aligning = Older(c.aligning, AlignLimit)
<1> DEFINE a1 == IF c.age < FreshFor THEN c.age + 1 ELSE c.age
           a2 == IF c.mode \in Streams THEN Older(c.command, CommandLimit) ELSE c.command
           a3 == IF c.transitioning THEN Older(c.started, TransitionLimit)
                 ELSE IF c.job # None THEN Older(c.started, PathLimit) ELSE c.started
           a4 == Older(c.outward, OutwardFor)
           a5 == Older(c.steady, SteadyFor)
           a6 == IF c.proof = None THEN None
                 ELSE [c.proof EXCEPT !.age = Older(c.proof.age, ProofFor)]
           a7 == IF c.recovery = None \/ c.startup # "recovering" THEN c.recovery
                 ELSE [c.recovery EXCEPT !.total = Older(c.recovery.total, RecoverLimit),
                                         !.stall = Older(c.recovery.stall, RecoverStall)]
           a8 == Older(c.aligning, AlignLimit)
           a9 == Older(c.alignSteady, SteadyFor)
           a10 == IF c.stall = None THEN None
                  ELSE [c.stall EXCEPT !.age = Older(c.stall.age, StallLimit)]
           d == Aged(c)
<1>1. d = [c EXCEPT !.age = a1, !.command = a2, !.started = a3, !.outward = a4,
                    !.steady = a5, !.proof = a6, !.recovery = a7, !.aligning = a8,
                    !.alignSteady = a9, !.stall = a10]
  BY Zenon DEF Aged
<1> HIDE DEF a1, a2, a3, a4, a5, a6, a7, a8, a9, a10, d
<1>2. Shape(d)
  BY <1>1 DEF Shape
<1>3. \A f \in Fields \ Clocks : d[f] = c[f]
  BY <1>1 DEF Shape, Clocks
<1>4. d.aligning = a8
  BY <1>1 DEF Shape, Fields
<1> QED BY <1>2, <1>3, <1>4 DEF d, a8

LEMMA ElapseKeeps ==
  ASSUME ManagerOK, Elapse, UNCHANGED env PROVE ManagerOK' /\ Kept /\ Heard
<1> DEFINE d == Aged(core)
<1>1. Good(core) /\ Sound(core) /\ Typed(core) /\ Shape(core)
  BY DEF ManagerOK, Good, Sound, Typed
<1>2. /\ Shape(d) /\ \A f \in Fields \ Clocks : d[f] = core[f]
      /\ d.aligning = Older(core.aligning, AlignLimit)
  BY <1>1, AgedFacts
<1>3. core' = d
  BY DEF Elapse
<1> HIDE DEF d
<1>4. /\ d.mode = core.mode /\ d.requested = core.requested
      /\ d.transitioning = core.transitioning /\ d.startup = core.startup
      /\ d.aligned = core.aligned /\ d.focus = core.focus /\ d.ready = core.ready
      /\ d.renewed = core.renewed
  BY <1>2 DEF Fields, Clocks
<1>5. /\ d.queue = core.queue /\ d.job = core.job /\ d.last = core.last
      /\ d.position = core.position /\ d.target = core.target /\ d.settled = core.settled
      /\ d.goal = core.goal /\ d.velocity = core.velocity
  BY <1>2 DEF Fields, Clocks
<1>6. d.aligning \in Nat \cup {None} /\ (d.aligning = None <=> core.aligning = None)
  BY <1>1, <1>2, OlderFacts DEF Typed
<1>7. Typed(d)
  BY <1>1, <1>2, <1>4, <1>5, <1>6 DEF Typed
<1>8. Sound(d)
  BY <1>1, <1>4, <1>5, <1>6, <1>7 DEF Sound
<1>9. Entitled(d)
  BY <1>1, <1>4 DEF Good, Entitled, Claimed
<1>10. OwnerOf(d) = OwnerOf(core)
  BY <1>4, <1>6 DEF OwnerOf
<1>11. OwnerStep(core, d)
  BY <1>5, <1>10 DEF OwnerStep
<1>12. Told(core, d)
  BY <1>5 DEF Told
<1>13. Kept
  BY <1>3, <1>4, <1>8, <1>9, <1>11, <1>12 DEF Kept, Good, ManagerOK
<1>14. Up'
  <2>1. activation' \in Nat \cup {None} /\ (activation' = None <=> activation = None)
    BY OlderFacts DEF Elapse, ManagerOK, Up
  <2> QED BY <1>3, <1>4, <2>1 DEF Elapse, ManagerOK, Up
<1>15. UNCHANGED <<inbox, faults, pending, env>>
  BY DEF Elapse
<1>16. MailOK'
  BY <1>3, <1>4, <1>15 DEF ManagerOK, MailOK, Queued, Holds
<1>17. ManagerOK'
  BY <1>3, <1>4, <1>13, <1>14, <1>15, <1>16 DEF ManagerOK, Kept, FocusNamed
<1> QED BY <1>13, <1>15, <1>17 DEF Heard

-----------------------------------------------------------------------------
(* Every behaviour *)

LEMMA StartGood == Good(Start) /\ ~Start.renewed
<1>1. Shape(Start)
  BY DEF Start, Shape, Fields
<1>2. /\ Start.mode = "hold" /\ Start.requested = "hold" /\ Start.transitioning = FALSE
      /\ Start.renewed = FALSE /\ Start.ready = FALSE /\ Start.position = None
      /\ Start.target = None /\ Start.goal = None
  BY DEF Start
<1>3. /\ Start.settled = 0 /\ Start.queue = <<>> /\ Start.job = None
      /\ Start.aligning = None /\ Start.startup = "pending"
      /\ Start.aligned = ~AlignmentEnabled
  BY DEF Start
<1> HIDE DEF Start
<1>4. Typed(Start)
  <2>1. <<>> \in Ways
    BY DEF Ways
  <2>2. Start.aligned \in BOOLEAN
    BY <1>3, Constants
  <2> HIDE DEF Ways
  <2>3. /\ Start.mode \in Modes /\ Start.requested \in Modes
        /\ Start.transitioning \in BOOLEAN /\ Start.renewed \in BOOLEAN
        /\ Start.ready \in BOOLEAN
    BY <1>2 DEF Modes
  <2>4. Start.position \in Spots /\ Start.target \in Spots /\ Start.goal \in Spots
    BY <1>2 DEF Spots
  <2>5. Start.settled \in Nat /\ Start.queue \in Ways /\ Start.aligning \in Nat \cup {None}
    BY <1>3, <2>1
  <2>6. Start.startup \in {"pending", "recovering", "complete"}
    BY <1>3
  <2> QED BY <1>1, <2>2, <2>3, <2>4, <2>5, <2>6 DEF Typed
<1>5. Sound(Start)
  BY <1>2, <1>3, <1>4 DEF Sound, Clients, Streams
<1>6. Entitled(Start)
  BY <1>2 DEF Entitled, Claimed, Clients, Streams
<1> QED BY <1>2, <1>5, <1>6 DEF Good

LEMMA InitOK == Init => ManagerOK
<1> SUFFICES ASSUME Init PROVE ManagerOK
  OBVIOUS
<1>1. Good(core) /\ ~core.renewed
  BY StartGood DEF Init
<1>2. Up
  <2>1. core.ready = FALSE /\ core.startup = "pending"
    BY DEF Init, Start
  <2> QED BY <2>1 DEF Init, Up
<1>3. MailOK
  BY DEF Init, MailOK, Queued
<1> QED BY <1>1, <1>2, <1>3 DEF Init, ManagerOK, FocusNamed

LEMMA StepKeeps ==
  ASSUME ManagerOK, [Next]_vars PROVE ManagerOK' /\ Kept /\ Heard
<1>1. CASE UNCHANGED vars
  <2>1. UNCHANGED <<env, core, inbox, faults, pending, activation, activated>>
    BY <1>1 DEF vars, controllers
  <2>2. Kept
    BY <2>1, StillKept
  <2>3. Heard
    BY <2>1 DEF Heard
  <2>4. MailOK'
    BY <2>1 DEF ManagerOK, MailOK, Queued
  <2>5. ManagerOK'
    BY <2>1, <2>4 DEF ManagerOK, Up, FocusNamed
  <2> QED BY <2>2, <2>3, <2>5
<1>2. CASE OnState /\ UNCHANGED env
  BY <1>2, OnStateKeeps
<1>3. CASE OnBadState /\ UNCHANGED env
  BY <1>3, OnBadStateKeeps
<1>4. CASE OnTcpEntry /\ UNCHANGED env
  BY <1>4, OnTcpEntryKeeps
<1>5. CASE OnCurrentProtection /\ UNCHANGED env
  BY <1>5, OnCurrentProtectionKeeps
<1>6. CASE ResetFault /\ UNCHANGED env
  BY <1>6, ResetFaultKeeps
<1>7. CASE Tick /\ UNCHANGED env
  BY <1>7, TickKeeps
<1>8. CASE Elapse /\ UNCHANGED env
  BY <1>8, ElapseKeeps
<1>9. ASSUME NEW f \in env.focuses, OnFocus(f), UNCHANGED env
      PROVE  ManagerOK' /\ Kept /\ Heard
  BY <1>9, OnFocusKeeps
<1>10. ASSUME NEW joint \in env.components, OnFault(joint) \/ OnFaultOver(joint), UNCHANGED env
       PROVE  ManagerOK' /\ Kept /\ Heard
  BY <1>10, OnFaultKeeps, OnFaultOverKeeps
<1>11. ASSUME NEW m \in env.requests, SetMode(m), UNCHANGED env
       PROVE  ManagerOK' /\ Kept /\ Heard
  BY <1>11, SetModeKeeps
<1>12. ASSUME NEW s \in Clients, Send(s) \/ OnCommand(s), UNCHANGED env
       PROVE  ManagerOK' /\ Kept /\ Heard
  BY <1>12, SendKeeps, OnCommandKeeps
<1> QED BY <1>1, <1>2, <1>3, <1>4, <1>5, <1>6, <1>7, <1>8, <1>9, <1>10, <1>11, <1>12
       DEF Next, Step

\* The invariant that carries the properties of the manager
THEOREM ManagerIsOK == Spec => []ManagerOK
<1>1. ManagerOK /\ [Next]_vars => ManagerOK'
  BY StepKeeps
<1> QED BY <1>1, InitOK, PTL DEF Spec

\* The producer that has the arm, or is to get it, is entitled to it: OwnerIsEntitled
\* for every surroundings and every limit.
THEOREM OwnerEntitled == Spec => []OwnerIsEntitled
<1>1. ManagerOK => OwnerIsEntitled
  <2> SUFFICES ASSUME ManagerOK, NEW s \in Clients,
                      core.mode = s \/ (core.transitioning /\ core.requested = s)
               PROVE  /\ core.focus = "arm" /\ core.ready /\ activated
                      /\ core.startup = "complete" /\ core.aligned
                      /\ faults = {}
    BY DEF OwnerIsEntitled
  <2>1. Claimed(core)
    BY DEF Claimed
  <2>2. core.focus = "arm" /\ core.ready /\ core.startup = "complete" /\ core.aligned
    BY <2>1 DEF ManagerOK, Good, Entitled
  <2>3. activated
    BY <2>2 DEF ManagerOK, Up
  <2>4. core.mode # "fault"
    BY DEF ManagerOK, Good, Sound, Clients, Streams
  <2> QED BY <2>2, <2>3, <2>4 DEF ManagerOK
<1> QED BY <1>1, ManagerIsOK, PTL

\* A message from before its sender's present turn leaves the core as it was:
\* OldMessagesAreIgnored for every surroundings.
THEOREM OldIgnored == Spec => OldMessagesAreIgnored
<1>1. ManagerOK /\ [Next]_vars =>
        [\A s \in Clients :
           inbox[s] # None /\ inbox'[s] = None /\ ~inbox[s].turn => core' = core]_vars
  BY StepKeeps DEF Heard
<1> QED BY <1>1, ManagerIsOK, PTL DEF Spec, OldMessagesAreIgnored

\* What ended is told as what it was, and as succeeded only where it was to end:
\* OutcomeIsTold for every path and every limit.
THEOREM OutcomeTold == Spec => OutcomeIsTold
<1>1. ManagerOK /\ [Next]_vars =>
        [core.job # None /\ core'.job = None =>
           \E r \in {"aborted", "succeeded"} :
             /\ core'.last = [id |-> core.job.id, result |-> r]
             /\ r = "succeeded" /\ core.job.kind = "path" =>
                  /\ core.queue = <<>> /\ core.position = core.goal /\ Stopped(core)]_vars
  BY StepKeeps DEF Kept, Told
<1> QED BY <1>1, ManagerIsOK, PTL DEF Spec, OutcomeIsTold

\* With the entry guard the TCP producer gets the arm only where an assessment of
\* this epoch called it safe: TcpEntryIsSafe for every surroundings and every age of
\* the assessment.
THEOREM TcpEntrySafe == ASSUME EntryRequired PROVE Spec => TcpEntryIsSafe
<1>1. ManagerOK /\ [Next]_vars =>
        [core.mode # "tcp_ik" /\ core'.mode = "tcp_ik" =>
           /\ core'.proof # None /\ core'.proof.safe /\ core'.proof.cur
           /\ core'.position = core'.proof.at
           /\ 0 < core'.position /\ core'.position < Top
           /\ core'.velocity = 0]_vars
  <2> SUFFICES ASSUME ManagerOK, [Next]_vars,
                      core.mode # "tcp_ik", core'.mode = "tcp_ik"
               PROVE  /\ core'.proof # None /\ core'.proof.safe /\ core'.proof.cur
                      /\ core'.position = core'.proof.at
                      /\ 0 < core'.position /\ core'.position < Top
                      /\ core'.velocity = 0
    OBVIOUS
  <2>1. EntryClear(core')
    BY StepKeeps DEF Kept
  <2> QED BY <2>1 DEF EntryClear, Stopped
<1> QED BY <1>1, ManagerIsOK, PTL DEF Spec, TcpEntryIsSafe

\* The manager implements ArmOwner, step by step: OneOwner for every surroundings.
THEOREM OwnerRefined == Spec => OneOwner
<1>1. owner = OwnerOf(core)
  BY DEF owner, OwnerOf
<1>2. Init => Promise!Init
  <2> SUFFICES ASSUME Init PROVE Promise!Init
    OBVIOUS
  <2>1. /\ core.mode = "hold" /\ core.startup = "pending" /\ core.aligning = None
        /\ core.position = None /\ core.goal = None
    BY DEF Init, Start
  <2>2. owner = "none"
    BY <2>1 DEF owner, Clients, Streams
  <2> QED BY <2>1, <2>2 DEF Promise!Init
<1>3. ManagerOK /\ [Next]_vars => [Promise!Next]_(Promise!vars)
  <2> SUFFICES ASSUME ManagerOK, [Next]_vars PROVE [Promise!Next]_(Promise!vars)
    OBVIOUS
  <2>1. OwnerStep(core, core')
    BY StepKeeps DEF Kept
  <2>2. owner' = OwnerOf(core')
    BY DEF owner, OwnerOf
  <2>3. CASE /\ owner' = owner /\ core'.goal = core.goal
             /\ core'.position = core.position \/ core'.position \in Positions
    BY <2>3 DEF Promise!Next, Promise!See, Promise!vars
  <2>4. CASE /\ owner' = owner /\ owner \in Clients \cup {"self"}
             /\ core'.goal \in Positions /\ core'.position = core.position
    BY <2>4 DEF Promise!Next, Promise!Aim
  <2>5. CASE /\ owner = "none" /\ owner' \in Clients /\ core.goal \in {None, core.position}
             /\ core'.goal = core.goal /\ core'.position = core.position
    BY <2>5 DEF Promise!Next, Promise!Hand
  <2>6. CASE /\ owner = "none" /\ owner' = "self"
             /\ core'.goal \in Positions \cup {core.goal} /\ core'.position = core.position
    BY <2>6 DEF Promise!Next, Promise!Begin
  <2>7. CASE /\ owner' \in {"none", "fault"}
             /\ core'.goal \in {None, core.position} /\ core'.position = core.position
    BY <2>7 DEF Promise!Next, Promise!Release, Promise!Fail, Promise!Clear, Promise!AtRest
  <2> QED BY <1>1, <2>1, <2>2, <2>3, <2>4, <2>5, <2>6, <2>7 DEF OwnerStep
<1> QED BY <1>2, <1>3, ManagerIsOK, PTL DEF Spec, OneOwner, Promise!Spec

-----------------------------------------------------------------------------
(* The gripper's jog *)

\* A jog that no tick has sent came after the last tick.
JogOK ==
  /\ late \in Nat /\ jog \in Nat \cup {None}
  /\ gripper # "jog" /\ jog # None => jog <= late

\* What a tick did not send it forgets: JogIsNotResumed for every JogFor and Stall.
THEOREM JogNotResumed == Spec => []JogIsNotResumed
<1>1. Init => JogOK
  BY DEF Init, JogOK
<1>2. JogOK /\ [Next]_vars => JogOK'
  <2> SUFFICES ASSUME JogOK, [Next]_vars PROVE JogOK'
    OBVIOUS
  <2>1. CASE UNCHANGED <<late, jog, gripper>>
    BY <2>1 DEF JogOK
  <2>2. ASSUME NEW s \in Clients, OnCommand(s) PROVE JogOK'
    <3>1. jog' \in {jog, 0, None}
      BY <2>2 DEF OnCommand, JogOf
    <3>2. UNCHANGED <<late, gripper>>
      BY <2>2 DEF OnCommand
    <3> QED BY <3>1, <3>2 DEF JogOK
  <2>3. CASE Tick
    <3>1. PICK r \in env.replies, w \in {"none"} \cup (IF switching THEN env.switches ELSE {}),
               clear \in {TRUE, activation # None} :
            LET polled == Poll(r, w, clear)
                focused == IF FocusDue(polled.core)
                           THEN Request(polled.core, env.focusMode) ELSE polled.core
            IN /\ seen' = polled.seen /\ activation' = polled.activation
               /\ activated' = polled.activated /\ switching' = polled.switching
               /\ pending' = (pending /\ polled.core.mode # "fault"
                                /\ ~FocusDue(polled.core))
               /\ \E c \in Ticked(focused, late) :
                    \E jogging \in {FALSE, JogTurn(c, polled.seen)} :
                      /\ Commit(c, inbox)
                      /\ jog' = JogAfter(jogging)
                      /\ gripper' = IF jogging THEN "jog"
                                    ELSE IF OwnTurn(c) THEN "own" ELSE "zero"
      BY <2>3, Zenon DEF Tick
    <3>2. PICK c, list :
            \E jogging \in {FALSE, JogTurn(c, list)} :
              /\ jog' = JogAfter(jogging)
              /\ gripper' = IF jogging THEN "jog" ELSE IF OwnTurn(c) THEN "own" ELSE "zero"
      BY <3>1
    <3>3. jog' = None \/ (jog' = jog /\ gripper' = "jog")
      BY <3>2 DEF JogAfter
    <3>4. late' = 0
      BY <2>3 DEF Tick
    <3> QED BY <3>3, <3>4 DEF JogOK
  <2>4. CASE Elapse
    <3>1. late' = late + 1 /\ jog' = Older(jog, JogFor) /\ gripper' = gripper
      BY <2>4 DEF Elapse
    <3>2. JogFor \in Nat
      BY ManagerAssumption
    <3> QED BY <3>1, <3>2, Constants DEF JogOK, Older
  <2>5. [OnState \/ OnBadState \/ OnTcpEntry \/ OnCurrentProtection \/ ResetFault]_vars =>
          UNCHANGED <<late, jog, gripper>>
    BY DEF OnState, OnBadState, OnTcpEntry, OnCurrentProtection, ResetFault, vars
  <2>6. /\ \A f : OnFocus(f) => UNCHANGED <<late, jog, gripper>>
        /\ \A joint : OnFault(joint) \/ OnFaultOver(joint) => UNCHANGED <<late, jog, gripper>>
        /\ \A m : SetMode(m) => UNCHANGED <<late, jog, gripper>>
        /\ \A s : Send(s) => UNCHANGED <<late, jog, gripper>>
    BY DEF OnFocus, OnFault, OnFaultOver, SetMode, Send
  <2> QED BY <2>1, <2>2, <2>3, <2>4, <2>5, <2>6 DEF Next, Step
<1>3. JogOK => JogIsNotResumed
  BY DEF JogOK, JogIsNotResumed
<1> QED BY <1>1, <1>2, <1>3, PTL DEF Spec
=============================================================================
