------------------------- MODULE GameSession_proofs --------------------------
(***************************************************************************)
(* A session that ends well has its game's saves on the card, for any      *)
(* number of games and faults and whoever is on the device over SSH.       *)
(*                                                                         *)
(* The argument: an emulator runs only while the runner waits for its      *)
(* launcher, so it cannot be confused with an earlier one (GameInv); what  *)
(* a session has recorded fits its state (SessionInv); and a stop that     *)
(* waits without the lock still owns the session for as long as its        *)
(* emulator runs, because only the other guest or the runner could take    *)
(* the session away, and neither can before the emulator is gone (StopInv).*)
(***************************************************************************)
EXTENDS GameSession, TLAPS

Playing  == {"poll", "attach", "play", "drain"}   \* the runner has a launcher
Stopping == {"quit", "stopCommit", "stopFail"}    \* a stop that was requested

GuestInv == pc["probe"] = "idle" \/ pc["operator"] = "idle"

GameInv ==
  /\ tracked <= launches /\ emu <= launches
  /\ \A a \in Actors : target[a] <= launches
  /\ \A e \in saves \cup states \cup killed : e <= launches
  /\ emu # 0 => launcher = "playing" /\ emu \notin killed
  /\ launcher \in {"starting", "playing", "closing"} => pc["runtime"] \in Playing
  /\ launcher = "starting" =>
       /\ launches # 0 /\ launches \notin saves \cup states \cup killed
       /\ tracked # launches /\ \A a \in Actors : target[a] # launches

SessionInv ==
  /\ sess \in {"PREPARING", "STARTING", "RUNNING", "STOP_REQUESTED"} => ~result
  /\ sess \in {"RUNNING", "STOP_REQUESTED", "FLUSHING", "STOPPED"} => tracked # 0
  /\ sess \in {"RUNNING", "FLUSHING", "STOPPED"} => tracked \notin killed
  /\ sess \in {"FLUSHING", "STOPPED"} =>
       emu # tracked /\ (result => tracked \notin saves \cup states)
  /\ sess = "STOPPED" => result

StopInv ==
  \A a \in Actors :
    /\ pc[a] \in Stopping \cup {"attach"} => target[a] # 0
    /\ pc[a] \in Stopping /\ sess = "STOP_REQUESTED" => target[a] = tracked
    /\ pc[a] \in {"quit", "stopCommit"} => target[a] \notin killed
    /\ pc[a] = "quit" /\ emu = target[a] => sess = "STOP_REQUESTED"
    /\ pc[a] = "stopCommit" => emu # target[a]

IInv == TypeOK /\ GuestInv /\ GameInv /\ SessionInv /\ StopInv

-----------------------------------------------------------------------------
(* Where the actors go.                                                    *)

\* The commands each actor gives are those its tables know.
LEMMA OwnCommands ==
  /\ Places["runtime"] \cap Commands =
       {"start", "transition", "unstage", "attach", "observe", "flush", "complete", "fail"}
  /\ Places["probe"] \cap Commands =
       {"start", "transition", "attach", "stop", "stopCommit", "stopFail", "flush",
        "complete", "fail"}
  /\ Places["operator"] \cap Commands = {"stop", "stopCommit", "stopFail", "status"}
<1>1. DOMAIN OnFailure["probe"] = {"start", "transition", "attach", "stop", "stopCommit",
                                   "stopFail", "flush", "complete", "fail"}
  BY DEF OnFailure
<1>2. DOMAIN OnFailure["runtime"] = {"start", "transition", "unstage", "attach", "observe",
                                     "flush", "complete", "fail"}
  BY DEF OnFailure
<1>3. DOMAIN OnFailure["operator"] = {"stop", "stopCommit", "stopFail", "status"}
  BY DEF OnFailure
<1>4. Commands = {"start", "transition", "attach", "fail", "unstage", "stop", "stopCommit",
                  "stopFail", "observe", "flush", "complete", "status"}
  BY DEF Commands, Expected
<1>5. QED
  BY <1>1, <1>2, <1>3, <1>4 DEF Places

\* A command leads to a place of its actor; only a requested stop to a wait, and
\* only attaching to a game that is waited for.
LEMMA Table ==
  ASSUME NEW a \in Actors, NEW c \in Places[a] \cap Commands
  PROVE  /\ OnSuccess[a][c] \in Places[a] \ {"attach", "stopCommit", "stopFail"}
         /\ OnFailure[a][c] \in Places[a] \ {"attach", "quit", "stopCommit", "stopFail"}
         /\ OnSuccess[a][c] = "quit" => c = "stop"
         /\ a = "runtime" /\ c = "attach" => {OnSuccess[a][c], OnFailure[a][c]} \subseteq Playing
<1>1. CASE a = "runtime"
  BY <1>1, OwnCommands DEF OnSuccess, OnFailure, Places, Playing
<1>2. CASE a = "probe"
  <2>1. \A d \in {"start", "transition", "attach", "stop", "stopCommit", "stopFail", "flush",
                  "complete"} : OnFailure["probe"][d] = "fail"
    BY DEF OnFailure
  <2>2. OnFailure["probe"]["fail"] = "idle"
    BY DEF OnFailure
  <2>3. {"idle", "write", "poll", "soak", "quit", "return", "complete", "flush", "fail"}
          \subseteq Places["probe"]
    BY OwnCommands DEF Places
  <2>4. OnFailure[a][c] \in {"fail", "idle"}
    BY <1>2, <2>1, <2>2, OwnCommands
  <2>5. QED
    BY <1>2, <2>3, <2>4, OwnCommands DEF OnSuccess
<1>3. CASE a = "operator"
  BY <1>3, OwnCommands DEF OnSuccess, OnFailure, Places
<1>4. QED
  BY <1>1, <1>2, <1>3 DEF Actors

\* A step of one actor leaves the others where they are.
LEMMA Moves ==
  ASSUME TypeOK, NEW a \in Actors, NEW c \in Places[a], Go(a, c)
  PROVE  /\ DOMAIN pc' = Actors /\ \A b \in Actors : pc'[b] \in Places[b]
         /\ pc'[a] = c /\ \A b \in Actors \ {a} : pc'[b] = pc[b]
BY DEF Go, TypeOK

LEMMA CommandMoves ==
  ASSUME TypeOK, NEW a \in Actors, pc[a] \in Commands,
         Go(a, OnFailure[a][pc[a]]) \/ Go(a, OnSuccess[a][pc[a]])
  PROVE  /\ DOMAIN pc' = Actors /\ \A b \in Actors : pc'[b] \in Places[b]
         /\ \A b \in Actors \ {a} : pc'[b] = pc[b]
         /\ pc'[a] \notin {"attach", "stopCommit", "stopFail"}
         /\ pc'[a] = "quit" => pc[a] = "stop" /\ Go(a, OnSuccess[a][pc[a]])
         /\ a = "runtime" /\ pc[a] = "attach" => pc'[a] \in Playing
<1>1. pc[a] \in Places[a] \cap Commands
  BY DEF TypeOK
<1>2. CASE Go(a, OnFailure[a][pc[a]])
  BY <1>1, <1>2, Table, Moves
<1>3. CASE Go(a, OnSuccess[a][pc[a]])
  BY <1>1, <1>3, Table, Moves
<1>4. QED
  BY <1>2, <1>3

-----------------------------------------------------------------------------
(* The steps.                                                              *)

GameActive == launcher \in {"starting", "playing", "closing"}

\* An actor that goes on and changes neither the session nor the game.
LEMMA PassingStep ==
  ASSUME IInv, NEW a \in Actors,
         DOMAIN pc' = Actors, \A b \in Actors : pc'[b] \in Places[b],
         \A b \in Actors \ {a} : pc'[b] = pc[b],
         pc'[a] \notin Stopping \cup {"attach"},
         a = "runtime" /\ GameActive => pc'[a] \in Playing,
         GuestInv', UNCHANGED <<sessionVars, gameVars, target>>,
         lock' \in {"free", "orphan"} \cup Actors, cmd' \in BOOLEAN, mainui' \in BOOLEAN,
         faults' \in 0..MaxFaults
  PROVE  IInv'
<1>1. TypeOK'
  BY DEF IInv, TypeOK, sessionVars, gameVars
<1>2. GameInv'
  <2>1. GameActive => pc'["runtime"] \in Playing
    BY DEF IInv, GameInv, GameActive, Actors
  <2>2. QED
    BY <2>1 DEF IInv, GameInv, GameActive, sessionVars, gameVars
<1>3. SessionInv'
  BY DEF IInv, SessionInv, sessionVars, gameVars
<1>4. StopInv'
  BY DEF IInv, StopInv, Stopping, sessionVars, gameVars
<1>5. QED
  BY <1>1, <1>2, <1>3, <1>4 DEF IInv

\* The runner waits for a launcher only where it may take as long as it likes.
LEMMA NotPlaying ==
  ASSUME IInv, pc["runtime"] \notin Playing
  PROVE  ~GameActive /\ emu = 0
BY DEF IInv, GameInv, GameActive

LEMMA LockStep ==
  ASSUME IInv, NEW a \in Actors, Lock(a)
  PROVE  IInv'
<1>1. TypeOK'
  BY DEF Lock, IInv, TypeOK, sessionVars, gameVars, guestVars
<1>2. (GuestInv /\ GameInv /\ SessionInv /\ StopInv)'
  BY DEF Lock, IInv, GuestInv, GameInv, SessionInv, StopInv, sessionVars, gameVars, guestVars
<1>3. QED
  BY <1>1, <1>2 DEF IInv

\* A guest that is at a command is not idle, so the other one is.
LEMMA OneGuest ==
  ASSUME IInv, NEW a \in Actors, pc[a] # "idle", \A b \in Actors \ {a} : pc'[b] = pc[b]
  PROVE  GuestInv'
BY DEF IInv, GuestInv, Actors

\* A command that fails, or finds the lock taken.
LEMMA RefusedStep ==
  ASSUME IInv, NEW a \in Actors, Busy(a) \/ Refused(a)
  PROVE  IInv'
<1>1. /\ pc[a] \in Commands /\ Go(a, OnFailure[a][pc[a]])
      /\ Unstaged(OnFailure[a][pc[a]]) /\ lock' \in {lock, "free"}
      /\ UNCHANGED <<sessionVars, mainui, gameVars, target, faults>>
  BY DEF Busy, Refused, Holds, guestVars
<1>2. /\ DOMAIN pc' = Actors /\ \A b \in Actors : pc'[b] \in Places[b]
      /\ \A b \in Actors \ {a} : pc'[b] = pc[b]
      /\ a = "runtime" /\ pc[a] = "attach" => pc'[a] \in Playing
  BY <1>1, CommandMoves DEF IInv
<1>3. pc'[a] \notin Stopping \cup {"attach"}
  <2>1. pc[a] \in Places[a] \cap Commands
    BY <1>1 DEF IInv, TypeOK
  <2>2. pc'[a] = OnFailure[a][pc[a]]
    BY <1>1 DEF Go, IInv, TypeOK
  <2>3. QED
    BY <2>1, <2>2, Table DEF Stopping
<1>4. a = "runtime" /\ GameActive => pc'[a] \in Playing
  <2>1. a = "runtime" /\ GameActive => pc[a] \in Playing
    BY NotPlaying
  <2>2. pc[a] \in Playing => pc[a] = "attach"
    BY <1>1, OwnCommands DEF Playing, Commands, Expected
  <2>3. QED
    BY <1>2, <2>1, <2>2
<1>5. GuestInv'
  <2>1. pc[a] # "idle"
    BY <1>1 DEF Commands, Expected
  <2>2. QED
    BY <1>2, <2>1, OneGuest
<1>6. cmd' \in BOOLEAN
  BY <1>1 DEF Unstaged, IInv, TypeOK
<1>7. QED
  BY <1>1, <1>2, <1>3, <1>4, <1>5, <1>6, PassingStep DEF IInv, TypeOK

\* What a command that succeeds does besides its own work: the others stay.
LEMMA SucceedMoves ==
  ASSUME IInv, NEW a \in Actors, Succeed(a)
  PROVE  /\ DOMAIN pc' = Actors /\ \A b \in Actors : pc'[b] \in Places[b]
         /\ \A b \in Actors \ {a} : pc'[b] = pc[b]
         /\ pc'[a] \notin {"attach", "stopCommit", "stopFail"}
         /\ pc'[a] = "quit" => pc[a] = "stop"
         /\ GameActive => pc'["runtime"] \in Playing
         /\ GameActive /\ a = "runtime" => pc[a] = "attach"
         /\ GuestInv'
         /\ lock' = "free" /\ UNCHANGED <<cmd, mainui, faults>>
         /\ pc[a] \in Commands \cap Places[a] /\ sess \in Expected[pc[a]]
<1>1. /\ pc[a] \in Commands /\ Go(a, OnSuccess[a][pc[a]])
      /\ lock' = "free" /\ UNCHANGED <<cmd, mainui, faults>> /\ sess \in Expected[pc[a]]
  BY DEF Succeed, Holds
<1>2. /\ DOMAIN pc' = Actors /\ \A b \in Actors : pc'[b] \in Places[b]
      /\ \A b \in Actors \ {a} : pc'[b] = pc[b]
      /\ pc'[a] \notin {"attach", "stopCommit", "stopFail"}
      /\ pc'[a] = "quit" => pc[a] = "stop"
      /\ a = "runtime" /\ pc[a] = "attach" => pc'[a] \in Playing
  BY <1>1, CommandMoves DEF IInv
<1>3. pc[a] \in Playing => pc[a] = "attach"
  BY <1>1, OwnCommands DEF Playing, Commands, Expected
<1>4. GameActive => pc["runtime"] \in Playing
  BY NotPlaying
<1>5. GuestInv'
  <2>1. pc[a] # "idle"
    BY <1>1 DEF Commands, Expected
  <2>2. QED
    BY <1>2, <2>1, OneGuest
<1>6. GameActive => pc'["runtime"] \in Playing
  <2>1. CASE a = "runtime"
    BY <1>2, <1>3, <1>4, <2>1
  <2>2. CASE a # "runtime"
    BY <1>2, <1>4, <2>2 DEF Actors
  <2>3. QED
    BY <2>1, <2>2
<1>7. pc[a] \in Places[a]
  BY DEF IInv, TypeOK
<1>8. QED
  BY <1>1, <1>2, <1>3, <1>4, <1>5, <1>6, <1>7

\* While a stop waits for its emulator nobody else can move the session on: the
\* other guest is idle, and the runner could only attach.
LEMMA OthersWait ==
  ASSUME IInv, NEW a \in Actors, NEW b \in Actors, Succeed(a),
         pc[b] = "quit", emu = target[b]
  PROVE  FALSE
<1>1. sess = "STOP_REQUESTED" /\ target[b] # 0
  BY DEF IInv, StopInv, Stopping
<1>2. b # "runtime" /\ a # b
  <2>1. pc[b] \in Places[b]
    BY DEF IInv, TypeOK
  <2>2. "quit" \notin Commands /\ "quit" \notin Places["runtime"]
    BY DEF Commands, Expected, Places, OnFailure
  <2>3. QED
    BY <2>1, <2>2, SucceedMoves
<1>3. GameActive
  BY <1>1 DEF IInv, GameInv, GameActive
<1>4. a = "runtime"
  <2>1. pc[a] # "idle"
    BY SucceedMoves DEF Commands, Expected
  <2>2. QED
    BY <1>2, <2>1 DEF IInv, GuestInv, Actors
<1>5. pc[a] = "attach" /\ sess \in Expected[pc[a]]
  BY <1>3, <1>4, SucceedMoves
<1>6. Expected["attach"] = {"STARTING"}
  BY DEF Expected
<1>7. QED
  BY <1>1, <1>5, <1>6

LEMMA ExpectedStates ==
  /\ Expected["start"] = {"IDLE", "STOPPED", "FAILED"}
  /\ Expected["transition"] = {"PREPARING"} /\ Expected["attach"] = {"STARTING"}
  /\ Expected["stop"] = {"RUNNING"} /\ Expected["observe"] = {"RUNNING"}
  /\ Expected["stopCommit"] = {"STOP_REQUESTED"} /\ Expected["stopFail"] = {"STOP_REQUESTED"}
  /\ Expected["flush"] = {"FLUSHING"} /\ Expected["complete"] = {"FLUSHING"}
  /\ Expected["fail"] = Active /\ Expected["unstage"] = Active
BY DEF Expected, Idle, Terminal

LEMMA StartStep ==
  ASSUME IInv, NEW a \in Actors, Start(a)
  PROVE  IInv'
<1>0. launches \in Nat
  BY GameSessionAssumption DEF IInv, TypeOK
<1> USE SucceedMoves
<1>1. Succeed(a) /\ sess' = "PREPARING" /\ tracked' = 0 /\ result' = FALSE
      /\ pc[a] = "start" /\ UNCHANGED <<gameVars, target>>
  BY DEF Start
<1>2. TypeOK'
  <2>1. tracked' \in 0..MaxLaunches
    BY <1>1, GameSessionAssumption
  <2>2. QED
    BY <1>1, <2>1 DEF IInv, TypeOK, Active, gameVars
<1>3. GameInv'
  BY <1>0, <1>1 DEF IInv, GameInv, GameActive, gameVars
<1>4. SessionInv'
  BY <1>1 DEF SessionInv
<1>5. StopInv'
  BY <1>1, OthersWait DEF IInv, StopInv, Stopping, gameVars
<1>6. QED
  BY <1>1, <1>2, <1>3, <1>4, <1>5 DEF IInv

LEMMA ToStartingStep ==
  ASSUME IInv, NEW a \in Actors, ToStarting(a)
  PROVE  IInv'
<1> USE SucceedMoves
<1>1. Succeed(a) /\ sess = "PREPARING" /\ sess' = "STARTING" /\ pc[a] = "transition"
      /\ UNCHANGED <<tracked, result, gameVars, target>>
  BY ExpectedStates DEF ToStarting, guestVars
<1>2. TypeOK'
  BY <1>1 DEF IInv, TypeOK, Active, gameVars
<1>3. GameInv'
  BY <1>1 DEF IInv, GameInv, GameActive, gameVars
<1>4. SessionInv'
  BY <1>1 DEF IInv, SessionInv
<1>5. StopInv'
  BY <1>1, OthersWait DEF IInv, StopInv, Stopping, gameVars
<1>6. QED
  BY <1>1, <1>2, <1>3, <1>4, <1>5 DEF IInv

LEMMA AttachStep ==
  ASSUME IInv, NEW a \in Actors, Attach(a)
  PROVE  IInv'
<1>1. Succeed(a) /\ sess = "STARTING" /\ sess' = "RUNNING" /\ pc[a] = "attach"
      /\ emu = target[a] /\ tracked' = target[a]
      /\ UNCHANGED <<result, gameVars, target>>
  <2>1. Succeed(a) /\ sess \in Expected["attach"]
    BY SucceedMoves DEF Attach
  <2>2. QED
    BY <2>1, ExpectedStates DEF Attach, guestVars
<1>2. /\ target[a] # 0 /\ target[a] \notin killed
      /\ launcher = "playing" /\ target[a] <= launches
  BY <1>1 DEF IInv, StopInv, GameInv
<1>3. tracked' \in 0..MaxLaunches
  BY <1>1 DEF IInv, TypeOK
<1> USE SucceedMoves
<1>4. TypeOK'
  BY <1>1, <1>3 DEF IInv, TypeOK, Active, gameVars
<1>5. GameInv'
  BY <1>1, <1>2 DEF IInv, GameInv, GameActive, gameVars
<1>6. SessionInv'
  BY <1>1, <1>2 DEF IInv, SessionInv, gameVars
<1>7. StopInv'
  BY <1>1, OthersWait DEF IInv, StopInv, Stopping, gameVars
<1>8. QED
  BY <1>1, <1>4, <1>5, <1>6, <1>7 DEF IInv

LEMMA FailStep ==
  ASSUME IInv, NEW a \in Actors, Fail(a)
  PROVE  IInv'
<1> USE SucceedMoves
<1>1. Succeed(a) /\ sess' = "FAILED" /\ pc[a] \in {"fail", "unstage", "stopFail"}
      /\ UNCHANGED <<tracked, result, gameVars, target>>
  BY DEF Fail, guestVars
<1>2. TypeOK'
  BY <1>1 DEF IInv, TypeOK, Terminal, gameVars
<1>3. GameInv'
  BY <1>1 DEF IInv, GameInv, GameActive, gameVars
<1>4. SessionInv'
  BY <1>1 DEF IInv, SessionInv
<1>5. StopInv'
  BY <1>1, OthersWait DEF IInv, StopInv, Stopping, gameVars
<1>6. QED
  BY <1>1, <1>2, <1>3, <1>4, <1>5 DEF IInv

\* The lock is released; from here the stop waits for what the session tracks.
LEMMA RequestStopStep ==
  ASSUME IInv, NEW a \in Actors, RequestStop(a)
  PROVE  IInv'
<1>1. Succeed(a) /\ sess = "RUNNING" /\ sess' = "STOP_REQUESTED" /\ pc[a] = "stop"
      /\ emu = tracked /\ target' = [target EXCEPT ![a] = tracked]
      /\ UNCHANGED <<tracked, result, gameVars>>
  <2>1. Succeed(a) /\ sess \in Expected["stop"]
    BY SucceedMoves DEF RequestStop
  <2>2. QED
    BY <2>1, ExpectedStates DEF RequestStop
<1>2. /\ target'[a] = tracked /\ \A b \in Actors \ {a} : target'[b] = target[b]
      /\ target' \in [Actors -> 0..MaxLaunches]
  BY <1>1 DEF IInv, TypeOK
<1>3. tracked # 0 /\ tracked \notin killed /\ launcher = "playing"
  BY <1>1 DEF IInv, SessionInv, GameInv
<1>4. \A b \in Actors \ {a} : pc[b] \notin Stopping
  <2>1. a # "runtime"
    BY <1>1 DEF IInv, TypeOK, Places, OnFailure
  <2>2. pc["runtime"] \notin Stopping
    BY DEF IInv, TypeOK, Places, OnFailure, Actors, Stopping
  <2>3. QED
    BY <1>1, <2>1, <2>2 DEF IInv, GuestInv, Actors, Stopping
<1> USE SucceedMoves
<1>5. TypeOK'
  BY <1>1, <1>2 DEF IInv, TypeOK, Active, gameVars
<1>6. GameInv'
  BY <1>1, <1>2, <1>3 DEF IInv, GameInv, GameActive, gameVars
<1>7. SessionInv'
  BY <1>1 DEF IInv, SessionInv, gameVars
<1>8. StopInv'
  <2>1. ASSUME NEW b \in Actors \ {a} PROVE pc'[b] = pc[b] /\ target'[b] = target[b]
    BY <1>1, <1>2
  <2>2. QED
    BY <1>1, <1>2, <1>3, <1>4, <2>1 DEF IInv, StopInv, Stopping, gameVars
<1>9. QED
  BY <1>1, <1>5, <1>6, <1>7, <1>8 DEF IInv

\* The emulator that was waited for is gone, and was not killed.
LEMMA CommitStopStep ==
  ASSUME IInv, NEW a \in Actors, CommitStop(a)
  PROVE  IInv'
<1>1. Succeed(a) /\ sess = "STOP_REQUESTED" /\ sess' = "FLUSHING" /\ pc[a] = "stopCommit"
      /\ UNCHANGED <<tracked, result, gameVars, target>>
  <2>1. Succeed(a) /\ sess \in Expected["stopCommit"]
    BY SucceedMoves DEF CommitStop
  <2>2. QED
    BY <2>1, ExpectedStates DEF CommitStop, guestVars
<1>2. tracked # 0 /\ tracked \notin killed /\ emu # tracked /\ ~result
  BY <1>1 DEF IInv, StopInv, SessionInv, Stopping
<1> USE SucceedMoves
<1>3. TypeOK'
  BY <1>1 DEF IInv, TypeOK, Active, gameVars
<1>4. GameInv'
  BY <1>1 DEF IInv, GameInv, GameActive, gameVars
<1>5. SessionInv'
  BY <1>1, <1>2 DEF IInv, SessionInv, gameVars
<1>6. StopInv'
  BY <1>1, OthersWait DEF IInv, StopInv, Stopping, gameVars
<1>7. QED
  BY <1>1, <1>3, <1>4, <1>5, <1>6 DEF IInv

LEMMA ObserveExitStep ==
  ASSUME IInv, NEW a \in Actors, ObserveExit(a)
  PROVE  IInv'
<1>1. Succeed(a) /\ sess = "RUNNING" /\ sess' = "FLUSHING" /\ pc[a] = "observe"
      /\ emu # tracked /\ UNCHANGED <<tracked, result, gameVars, target>>
  <2>1. Succeed(a) /\ sess \in Expected["observe"]
    BY SucceedMoves DEF ObserveExit
  <2>2. QED
    BY <2>1, ExpectedStates DEF ObserveExit, guestVars
<1> USE SucceedMoves
<1>2. TypeOK'
  BY <1>1 DEF IInv, TypeOK, Active, gameVars
<1>3. GameInv'
  BY <1>1 DEF IInv, GameInv, GameActive, gameVars
<1>4. SessionInv'
  BY <1>1 DEF IInv, SessionInv, gameVars
<1>5. StopInv'
  BY <1>1, OthersWait DEF IInv, StopInv, Stopping, gameVars
<1>6. QED
  BY <1>1, <1>2, <1>3, <1>4, <1>5 DEF IInv

\* A tree on the card takes nothing from what is known of the session.
LEMMA FlushTreeStep ==
  ASSUME IInv, NEW a \in Actors, FlushSaveTree(a) \/ FlushStateTree(a)
  PROVE  IInv'
<1>1. /\ saves' \subseteq saves /\ states' \subseteq states
      /\ UNCHANGED <<sess, tracked, result, lock, cmd, mainui, emu, launches, launcher,
                     killed, pc, target, faults>>
  BY DEF FlushSaveTree, FlushStateTree, sessionVars, guestVars
<1>2. TypeOK' /\ GuestInv'
  BY <1>1 DEF IInv, TypeOK, GuestInv
<1>3. GameInv'
  BY <1>1 DEF IInv, GameInv
<1>4. SessionInv'
  BY <1>1 DEF IInv, SessionInv
<1>5. StopInv'
  BY <1>1 DEF IInv, StopInv
<1>6. QED
  BY <1>2, <1>3, <1>4, <1>5 DEF IInv

LEMMA FlushSavesStep ==
  ASSUME IInv, NEW a \in Actors, FlushSaves(a)
  PROVE  IInv'
<1>1. Succeed(a) /\ sess = "FLUSHING" /\ pc[a] = "flush"
      /\ result' = TRUE /\ tracked \notin saves \cup states
      /\ UNCHANGED <<sess, tracked, gameVars, target>>
  <2>1. Succeed(a) /\ sess \in Expected["flush"]
    BY SucceedMoves DEF FlushSaves
  <2>2. QED
    BY <2>1, ExpectedStates DEF FlushSaves, guestVars
<1> USE SucceedMoves
<1>2. TypeOK'
  BY <1>1 DEF IInv, TypeOK, gameVars
<1>3. GameInv'
  BY <1>1 DEF IInv, GameInv, GameActive, gameVars
<1>4. SessionInv'
  BY <1>1 DEF IInv, SessionInv, gameVars
<1>5. StopInv'
  BY <1>1, OthersWait DEF IInv, StopInv, Stopping, gameVars
<1>6. QED
  BY <1>1, <1>2, <1>3, <1>4, <1>5 DEF IInv

LEMMA CompleteStep ==
  ASSUME IInv, NEW a \in Actors, Complete(a) \/ Status(a)
  PROVE  IInv'
<1>1. /\ Succeed(a) /\ UNCHANGED <<tracked, result, gameVars, target>>
      /\ sess' = sess \/ (sess = "FLUSHING" /\ result /\ sess' = "STOPPED")
      /\ pc[a] # "stop"
  <2>1. CASE Complete(a)
    <3>1. Succeed(a) /\ sess \in Expected["complete"]
      BY <2>1, SucceedMoves DEF Complete
    <3>2. QED
      BY <2>1, <3>1, ExpectedStates DEF Complete, guestVars
  <2>2. CASE Status(a)
    BY <2>2 DEF Status, sessionVars, guestVars
  <2>3. QED
    BY <2>1, <2>2
<1> USE SucceedMoves
<1>2. TypeOK'
  BY <1>1 DEF IInv, TypeOK, Terminal, gameVars
<1>3. GameInv'
  BY <1>1 DEF IInv, GameInv, GameActive, gameVars
<1>4. SessionInv'
  BY <1>1 DEF IInv, SessionInv, gameVars
<1>5. StopInv'
  BY <1>1, OthersWait DEF IInv, StopInv, Stopping, gameVars
<1>6. QED
  BY <1>1, <1>2, <1>3, <1>4, <1>5 DEF IInv

\* The flush that failed gives the lock up with the session.
LEMMA FlushFailsStep ==
  ASSUME IInv, NEW a \in Actors, FlushFails(a)
  PROVE  IInv'
<1>1. /\ pc[a] = "flush" /\ sess = "FLUSHING" /\ sess' = "FAILED" /\ lock' = "free"
      /\ pc[a] \in Commands /\ Go(a, OnFailure[a][pc[a]])
      /\ UNCHANGED <<tracked, result, cmd, mainui, gameVars, target, faults>>
  BY DEF FlushFails, Flushing, Commands, Expected, guestVars
<1>2. /\ DOMAIN pc' = Actors /\ \A b \in Actors : pc'[b] \in Places[b]
      /\ \A b \in Actors \ {a} : pc'[b] = pc[b]
  BY <1>1, CommandMoves DEF IInv
<1>3. pc'[a] \notin Stopping \cup {"attach"}
  <2>1. pc[a] \in Places[a] \cap Commands
    BY <1>1 DEF IInv, TypeOK
  <2>2. pc'[a] = OnFailure[a][pc[a]]
    BY <1>1 DEF Go, IInv, TypeOK
  <2>3. QED
    BY <2>1, <2>2, Table DEF Stopping
<1>4. GuestInv'
  BY <1>1, <1>2, OneGuest
<1>5. TypeOK'
  BY <1>1, <1>2 DEF IInv, TypeOK, Terminal, gameVars
<1>6. GameActive => pc'["runtime"] \in Playing
  BY <1>1, <1>2, NotPlaying DEF Playing, Actors
<1>7. GameInv'
  BY <1>1, <1>6 DEF IInv, GameInv, GameActive, gameVars
<1>8. SessionInv'
  BY <1>1 DEF IInv, SessionInv
<1>9. StopInv'
  BY <1>1, <1>2, <1>3 DEF IInv, StopInv, Stopping, gameVars
<1>10. QED
  BY <1>4, <1>5, <1>7, <1>8, <1>9 DEF IInv

-----------------------------------------------------------------------------
(* The steps between commands.                                             *)

\* A step of one actor to a place that is no wait for an emulator.
LEMMA PassingGo ==
  ASSUME IInv, NEW a \in Actors, NEW c \in Places[a] \ (Stopping \cup {"attach"}), Go(a, c),
         a = "runtime" => (GameActive => c \in Playing),
         a # "runtime" => pc[a] # "idle" \/ GuestsIdle,
         UNCHANGED <<sessionVars, gameVars, target>>,
         lock' \in {lock, "free"}, cmd' \in BOOLEAN, mainui' = mainui, faults' = faults
  PROVE  IInv'
<1>1. /\ DOMAIN pc' = Actors /\ \A b \in Actors : pc'[b] \in Places[b]
      /\ pc'[a] = c /\ \A b \in Actors \ {a} : pc'[b] = pc[b]
  BY Moves DEF IInv
<1>2. GuestInv'
  BY <1>1 DEF IInv, GuestInv, GuestsIdle, Actors
<1>3. QED
  BY <1>1, <1>2, PassingStep DEF IInv, TypeOK

LEMMA PlaceNames ==
  /\ {"menu", "write", "check", "poll", "play", "drain", "switch", "start", "transition",
      "unstage", "attach", "observe", "flush", "complete", "fail"} = Places["runtime"]
  /\ {"idle", "write", "poll", "soak", "quit", "return", "start", "transition", "attach",
      "stop", "stopCommit", "stopFail", "flush", "complete", "fail"} = Places["probe"]
  /\ {"idle", "quit", "stop", "stopCommit", "stopFail", "status"} = Places["operator"]
BY DEF Places, OnFailure

LEMMA StagingStep ==
  ASSUME IInv, StageGame \/ MenuReturns \/ RunnerRefuses \/ LauncherDrained \/ LauncherDone
  PROVE  IInv'
<1> DEFINE a == "runtime"
<1>1. /\ a \in Actors /\ lock' = lock /\ cmd' \in BOOLEAN /\ mainui' = mainui
      /\ UNCHANGED <<sessionVars, gameVars, target, faults>>
  BY DEF StageGame, MenuReturns, RunnerRefuses, LauncherDrained, LauncherDone, guestVars,
         Actors, IInv, TypeOK
<1>2. PICK c \in {"start", "check", "switch", "fail", "observe"} : Go(a, c)
  BY DEF StageGame, MenuReturns, RunnerRefuses, LauncherDrained, LauncherDone, AfterLauncher
<1>3. ~GameActive
  <2>1. CASE StageGame \/ MenuReturns \/ RunnerRefuses
    BY <2>1, NotPlaying DEF StageGame, MenuReturns, RunnerRefuses, Playing
  <2>2. CASE LauncherDrained \/ LauncherDone
    BY <2>2 DEF LauncherDrained, LauncherDone, GameActive
  <2>3. QED
    BY <2>1, <2>2
<1>4. c \in Places[a] \ (Stopping \cup {"attach"})
  BY <1>2, PlaceNames DEF Stopping
<1>5. QED
  BY <1>1, <1>2, <1>3, <1>4, PassingGo

LEMMA WriteStep ==
  ASSUME IInv, NEW a \in {"runtime", "probe"}, WriteCommand(a)
  PROVE  IInv'
<1>1. /\ a \in Actors /\ lock' = lock /\ mainui' = mainui /\ pc[a] = "write"
      /\ UNCHANGED <<sessionVars, gameVars, target, faults>>
  BY DEF WriteCommand, guestVars, Actors
<1>2. cmd' \in BOOLEAN
  BY DEF WriteCommand, IInv, TypeOK
<1>3. PICK c \in {"transition", OnFailure[a]["transition"]} : Go(a, c)
  BY DEF WriteCommand
<1>4. c \in Places[a] \ (Stopping \cup {"attach"})
  BY <1>3, PlaceNames DEF Stopping, OnFailure
<1>5. a = "runtime" => ~GameActive
  BY <1>1, NotPlaying DEF Playing
<1>6. QED
  BY <1>1, <1>2, <1>3, <1>4, <1>5, PassingGo

LEMMA NoEmulatorStep ==
  ASSUME IInv, NEW a \in {"runtime", "probe"}, NoEmulator(a)
  PROVE  IInv'
<1>1. /\ a \in Actors /\ lock' = lock /\ cmd' = cmd /\ mainui' = mainui /\ pc[a] = "poll"
      /\ UNCHANGED <<sessionVars, gameVars, target, faults>>
      /\ Go(a, IF a = "runtime" THEN "drain" ELSE "fail")
  BY DEF NoEmulator, guestVars, Actors
<1>2. (IF a = "runtime" THEN "drain" ELSE "fail") \in Places[a] \ (Stopping \cup {"attach"})
  BY PlaceNames DEF Stopping
<1>3. QED
  BY <1>1, <1>2, PassingGo DEF IInv, TypeOK, Playing

LEMMA GuestStep ==
  ASSUME IInv, ProbeRefused \/ ProbeBegins \/ ProbeSoaked \/ ProbeReturned \/ OperatorCommand
  PROVE  IInv'
<1>1. /\ lock' = lock /\ cmd' \in BOOLEAN /\ mainui' = mainui
      /\ UNCHANGED <<sessionVars, gameVars, target, faults>>
  BY DEF ProbeRefused, ProbeBegins, ProbeSoaked, ProbeReturned, OperatorCommand, guestVars,
         IInv, TypeOK
<1>2. PICK a \in {"probe", "operator"}, c \in {"start", "fail", "stop", "complete", "status"} :
         Go(a, c) /\ c \in Places[a] /\ (pc[a] # "idle" \/ GuestsIdle)
  <2>1. CASE OperatorCommand
    BY <2>1, PlaceNames DEF OperatorCommand
  <2>2. CASE ProbeRefused \/ ProbeBegins \/ ProbeSoaked \/ ProbeReturned
    BY <2>2, PlaceNames DEF ProbeRefused, ProbeBegins, ProbeSoaked, ProbeReturned
  <2>3. QED
    BY <2>1, <2>2
<1>3. a \in Actors /\ a # "runtime" /\ c \notin Stopping \cup {"attach"}
  BY <1>2 DEF Actors, Stopping
<1>4. QED
  BY <1>1, <1>2, <1>3, PassingGo

\* The emulator that runs is remembered, by whoever waits for one.
LEMMA FindEmulatorStep ==
  ASSUME IInv, NEW a \in {"runtime", "probe"}, FindEmulator(a)
  PROVE  IInv'
<1>1. /\ a \in Actors /\ pc[a] = "poll" /\ emu # 0 /\ target' = [target EXCEPT ![a] = emu]
      /\ Go(a, "attach")
      /\ UNCHANGED <<sessionVars, lock, cmd, mainui, gameVars, faults>>
  BY DEF FindEmulator, Actors
<1>2. /\ target'[a] = emu /\ \A b \in Actors \ {a} : target'[b] = target[b]
      /\ target' \in [Actors -> 0..MaxLaunches]
  BY <1>1 DEF IInv, TypeOK
<1>3. /\ DOMAIN pc' = Actors /\ \A b \in Actors : pc'[b] \in Places[b]
      /\ pc'[a] = "attach" /\ \A b \in Actors \ {a} : pc'[b] = pc[b]
  <2>1. "attach" \in Places[a]
    BY PlaceNames
  <2>2. QED
    BY <1>1, <2>1, Moves DEF IInv
<1>4. TypeOK'
  BY <1>1, <1>2, <1>3 DEF IInv, TypeOK, sessionVars, gameVars
<1>5. GuestInv'
  BY <1>1, <1>3, OneGuest
<1>6. GameInv'
  BY <1>1, <1>2, <1>3 DEF IInv, GameInv, Playing, Actors, sessionVars, gameVars
<1>7. SessionInv'
  BY <1>1 DEF IInv, SessionInv, sessionVars, gameVars
<1>8. StopInv'
  <2>1. ASSUME NEW b \in Actors \ {a} PROVE pc'[b] = pc[b] /\ target'[b] = target[b]
    BY <1>2, <1>3
  <2>2. QED
    BY <1>1, <1>2, <1>3, <2>1 DEF IInv, StopInv, Stopping, sessionVars, gameVars
<1>9. QED
  BY <1>4, <1>5, <1>6, <1>7, <1>8 DEF IInv

\* A stop that waits is a guest's.
LEMMA StopperIsGuest ==
  ASSUME IInv, NEW a \in Actors, pc[a] \in Stopping
  PROVE  a \in {"probe", "operator"} /\ \A b \in Actors \ {a} : pc[b] \notin Stopping
<1>1. a # "runtime" /\ pc["runtime"] \notin Stopping
  BY PlaceNames DEF IInv, TypeOK, Stopping, Actors
<1>2. QED
  BY <1>1 DEF IInv, GuestInv, Actors, Stopping

\* The emulator has gone by itself: it is not killed, and will not come back.
LEMMA StopWaitedStep ==
  ASSUME IInv, NEW a \in Actors, StopWaited(a)
  PROVE  IInv'
<1>1. /\ pc[a] = "quit" /\ emu # target[a]
      /\ UNCHANGED <<sessionVars, lock, cmd, mainui, gameVars, target, faults>>
  BY DEF StopWaited, guestVars
<1>2. a \in {"probe", "operator"}
  BY <1>1, StopperIsGuest DEF Stopping
<1>3. PICK c \in {"stopCommit", "stopFail"} : Go(a, c)
  BY DEF StopWaited
<1>4. /\ DOMAIN pc' = Actors /\ \A b \in Actors : pc'[b] \in Places[b]
      /\ pc'[a] = c /\ \A b \in Actors \ {a} : pc'[b] = pc[b]
  <2>1. c \in Places[a]
    BY <1>2, <1>3, PlaceNames
  <2>2. QED
    BY <1>3, <2>1, Moves DEF IInv
<1>5. TypeOK'
  BY <1>1, <1>4 DEF IInv, TypeOK, sessionVars, gameVars
<1>6. GuestInv'
  BY <1>1, <1>4, OneGuest
<1>7. GameInv'
  BY <1>1, <1>2, <1>4 DEF IInv, GameInv, Actors, sessionVars, gameVars
<1>8. SessionInv'
  BY <1>1 DEF IInv, SessionInv, sessionVars, gameVars
<1>9. StopInv'
  BY <1>1, <1>4 DEF IInv, StopInv, Stopping, sessionVars, gameVars
<1>10. QED
  BY <1>5, <1>6, <1>7, <1>8, <1>9 DEF IInv

\* A forced kill hits the emulator of a session whose stop is still requested.
LEMMA ForceKillStep ==
  ASSUME IInv, NEW a \in Actors, ForceKill(a)
  PROVE  IInv'
<1>1. /\ pc[a] = "quit" /\ emu = target[a] /\ emu' = 0 /\ killed' = killed \cup {target[a]}
      /\ launcher' = "closing" /\ Go(a, "stopFail")
      /\ UNCHANGED <<sessionVars, lock, cmd, mainui, launches, saves, states, target, faults>>
  BY DEF ForceKill, guestVars
<1>2. a \in {"probe", "operator"} /\ \A b \in Actors \ {a} : pc[b] \notin Stopping
  BY <1>1, StopperIsGuest DEF Stopping
<1>3. /\ DOMAIN pc' = Actors /\ \A b \in Actors : pc'[b] \in Places[b]
      /\ pc'[a] = "stopFail" /\ \A b \in Actors \ {a} : pc'[b] = pc[b]
  <2>1. "stopFail" \in Places[a]
    BY <1>2, PlaceNames
  <2>2. QED
    BY <1>1, <2>1, Moves DEF IInv
<1>4. /\ sess = "STOP_REQUESTED" /\ target[a] = tracked /\ target[a] # 0
      /\ target[a] \in 0..MaxLaunches /\ launcher = "playing"
  BY <1>1 DEF IInv, StopInv, GameInv, TypeOK, Stopping
<1>5. TypeOK'
  <2>1. target[a] \in 1..MaxLaunches /\ 0 \in 0..MaxLaunches
    BY <1>4, GameSessionAssumption
  <2>2. QED
    BY <1>1, <1>3, <2>1 DEF IInv, TypeOK, sessionVars
<1>6. GuestInv'
  BY <1>1, <1>3, OneGuest
<1>7. GameInv'
  <2>1. pc'["runtime"] \in Playing
    BY <1>2, <1>3, <1>4 DEF IInv, GameInv, Actors
  <2>2. launches \in Nat
    BY GameSessionAssumption DEF IInv, TypeOK
  <2>3. QED
    BY <1>1, <1>4, <2>1, <2>2 DEF IInv, GameInv, sessionVars
<1>8. SessionInv'
  BY <1>1, <1>4 DEF IInv, SessionInv, sessionVars
<1>9. StopInv'
  BY <1>1, <1>2, <1>3 DEF IInv, StopInv, Stopping, sessionVars
<1>10. QED
  BY <1>5, <1>6, <1>7, <1>8, <1>9 DEF IInv

\* The next emulator has a name nobody knows yet.
LEMMA RunnerLaunchesStep ==
  ASSUME IInv, RunnerLaunches
  PROVE  IInv'
<1>1. /\ pc["runtime"] = "check" /\ emu = 0 /\ launches < MaxLaunches
      /\ launches' = launches + 1 /\ launcher' = "starting" /\ Go("runtime", "poll")
      /\ UNCHANGED <<sessionVars, lock, cmd, mainui, emu, saves, states, killed,
                     target, faults>>
  BY DEF RunnerLaunches, guestVars
<1>2. /\ DOMAIN pc' = Actors /\ \A b \in Actors : pc'[b] \in Places[b]
      /\ pc'["runtime"] = "poll" /\ \A b \in Actors \ {"runtime"} : pc'[b] = pc[b]
  BY <1>1, PlaceNames, Moves DEF IInv, Actors
<1>3. /\ launches \in Nat /\ launches + 1 \in 0..MaxLaunches
      /\ tracked \in Nat /\ \A a \in Actors : target[a] \in Nat
      /\ \A e \in saves \cup states \cup killed : e \in Nat
  BY <1>1, GameSessionAssumption DEF IInv, TypeOK
<1>4. TypeOK'
  BY <1>1, <1>2, <1>3 DEF IInv, TypeOK, sessionVars
<1>5. GuestInv'
  BY <1>2 DEF IInv, GuestInv, Actors
<1>6. GameInv'
  <2>1. tracked < launches + 1 /\ \A a \in Actors : target[a] < launches + 1
    BY <1>3 DEF IInv, GameInv
  <2>2. \A e \in saves \cup states \cup killed : e < launches + 1
    BY <1>3 DEF IInv, GameInv
  <2>3. tracked' = tracked /\ target' = target /\ saves' = saves /\ states' = states /\ killed' = killed
    BY <1>1 DEF sessionVars
  <2>4. QED
    BY <1>1, <1>2, <1>3, <2>1, <2>2, <2>3 DEF GameInv, Playing
<1>7. SessionInv'
  BY <1>1 DEF IInv, SessionInv, sessionVars
<1>8. StopInv'
  <2>1. pc'["runtime"] \notin Stopping \cup {"attach"}
    BY <1>2 DEF Stopping
  <2>2. QED
    BY <1>1, <1>2, <2>1 DEF IInv, StopInv, Stopping, sessionVars
<1>9. QED
  BY <1>4, <1>5, <1>6, <1>7, <1>8 DEF IInv

LEMMA RuntimeReturnsStep ==
  ASSUME IInv, RuntimeReturns
  PROVE  IInv'
<1>1. /\ pc["runtime"] = "switch" /\ cmd' = FALSE /\ launcher' = "none" /\ Go("runtime", "menu")
      /\ UNCHANGED <<sessionVars, lock, mainui, emu, launches, saves, states, killed,
                     target, faults>>
  BY DEF RuntimeReturns, guestVars
<1>2. /\ DOMAIN pc' = Actors /\ \A b \in Actors : pc'[b] \in Places[b]
      /\ pc'["runtime"] = "menu" /\ \A b \in Actors \ {"runtime"} : pc'[b] = pc[b]
  BY <1>1, PlaceNames, Moves DEF IInv, Actors
<1>3. emu = 0
  BY <1>1, NotPlaying DEF Playing
<1>4. TypeOK'
  BY <1>1, <1>2 DEF IInv, TypeOK, sessionVars
<1>5. GuestInv'
  BY <1>2 DEF IInv, GuestInv, Actors
<1>6. GameInv'
  BY <1>1, <1>3 DEF IInv, GameInv, sessionVars
<1>7. SessionInv'
  BY <1>1 DEF IInv, SessionInv, sessionVars
<1>8. StopInv'
  <2>1. pc'["runtime"] \notin Stopping \cup {"attach"}
    BY <1>2 DEF Stopping
  <2>2. QED
    BY <1>1, <1>2, <2>1 DEF IInv, StopInv, Stopping, sessionVars
<1>9. QED
  BY <1>4, <1>5, <1>6, <1>7, <1>8 DEF IInv

\* RetroArch and its launcher.
LEMMA GameStepInv ==
  ASSUME IInv, GameStep
  PROVE  IInv'
<1>1. UNCHANGED <<sessionVars, lock, cmd, mainui, launches, killed, pc, target, faults>>
  BY DEF GameStep, EmulatorStarts, EmulatorExits, LauncherReturns, guestVars
<1>2. launches \in 0..MaxLaunches /\ 0 \in 0..MaxLaunches
  BY GameSessionAssumption DEF IInv, TypeOK
<1>3. CASE EmulatorStarts
  <2>1. /\ launcher = "starting" /\ launcher' = "playing" /\ emu' = launches
        /\ saves' = saves \cup {launches} /\ states' = states \cup {launches}
    BY <1>3 DEF EmulatorStarts
  <2>2. launches \in 1..MaxLaunches
    BY <1>2, <2>1 DEF IInv, GameInv
  <2>3. TypeOK'
    BY <1>1, <1>2, <2>1, <2>2 DEF IInv, TypeOK, sessionVars
  <2>4. (GuestInv /\ GameInv /\ SessionInv /\ StopInv)'
    BY <1>1, <2>1, <2>2 DEF IInv, GuestInv, GameInv, SessionInv, StopInv, Stopping, sessionVars
  <2>5. QED
    BY <2>3, <2>4 DEF IInv
<1>4. CASE EmulatorExits
  <2>1. emu # 0 /\ emu' = 0 /\ launcher' = "closing" /\ saves' = saves /\ states' = states
    BY <1>4 DEF EmulatorExits
  <2>2. TypeOK'
    BY <1>1, <1>2, <2>1 DEF IInv, TypeOK, sessionVars
  <2>3. (GuestInv /\ GameInv /\ SessionInv /\ StopInv)'
    BY <1>1, <1>2, <2>1 DEF IInv, GuestInv, GameInv, SessionInv, StopInv, Stopping, sessionVars
  <2>4. QED
    BY <2>2, <2>3 DEF IInv
<1>5. CASE LauncherReturns
  <2>1. /\ launcher \in {"starting", "closing"} /\ launcher' \in {"ok", "failed"}
        /\ emu' = emu /\ saves' = saves /\ states' = states
    BY <1>5 DEF LauncherReturns
  <2>2. TypeOK'
    BY <1>1, <2>1 DEF IInv, TypeOK, sessionVars
  <2>3. (GuestInv /\ GameInv /\ SessionInv /\ StopInv)'
    BY <1>1, <2>1 DEF IInv, GuestInv, GameInv, SessionInv, StopInv, Stopping, sessionVars
  <2>4. QED
    BY <2>2, <2>3 DEF IInv
<1>6. QED
  BY <1>3, <1>4, <1>5 DEF GameStep

\* Nothing survives that could write to the session.
LEMMA FaultStep ==
  ASSUME IInv, KillAll \/ PowerLoss
  PROVE  IInv'
<1>1. /\ emu' = 0 /\ launcher' = "none" /\ launches' = launches /\ mainui' = mainui
      /\ faults' \in 0..MaxFaults /\ cmd' \in BOOLEAN
      /\ lock' \in {"free", "orphan"} \cup Actors
  <2>1. faults' \in 0..MaxFaults
    <3>1. faults \in 0..MaxFaults /\ faults < MaxFaults /\ faults' = faults + 1
      BY DEF KillAll, PowerLoss, IInv, TypeOK
    <3>2. QED
      BY <3>1, GameSessionAssumption
  <2>2. cmd' \in BOOLEAN
    BY DEF KillAll, PowerLoss, IInv, TypeOK
  <2>3. lock' \in {"free", "orphan"} \cup Actors
    BY DEF KillAll, PowerLoss
  <2>4. emu' = 0 /\ launcher' = "none" /\ launches' = launches /\ mainui' = mainui
    BY DEF KillAll, PowerLoss
  <2>5. QED
    BY <2>1, <2>2, <2>3, <2>4
<1>2. PICK c \in {"menu", "switch", "check"} :
         pc' = [runtime |-> c, probe |-> "idle", operator |-> "idle"]
  BY DEF KillAll, PowerLoss
<1>3. /\ DOMAIN pc' = Actors /\ \A b \in Actors : pc'[b] \in Places[b]
      /\ \A b \in Actors : pc'[b] \notin Stopping \cup {"attach"}
      /\ GuestInv'
  BY <1>2, PlaceNames DEF Actors, Stopping, GuestInv
<1>4. launches \in Nat /\ 0 \in 0..MaxLaunches
  BY GameSessionAssumption DEF IInv, TypeOK
<1>5. CASE KillAll
  <2>1. UNCHANGED <<sessionVars, saves, states, killed, target>>
    BY <1>5 DEF KillAll
  <2>2. TypeOK'
    BY <1>1, <1>3, <1>4, <2>1 DEF IInv, TypeOK, sessionVars
  <2>3. (GameInv /\ SessionInv)'
    BY <1>1, <1>4, <2>1 DEF IInv, GameInv, SessionInv, sessionVars
  <2>4. StopInv'
    BY <1>3 DEF StopInv, Stopping
  <2>5. QED
    BY <1>3, <2>2, <2>3, <2>4 DEF IInv
<1>6. CASE PowerLoss
  <2>1. /\ sess' = "IDLE" /\ tracked' = 0 /\ result' = FALSE
        /\ saves' = {} /\ states' = {} /\ killed' = {}
        /\ target' = [a \in Actors |-> 0]
    BY <1>6 DEF PowerLoss
  <2>2. TypeOK'
    BY <1>1, <1>3, <1>4, <2>1 DEF IInv, TypeOK
  <2>3. (GameInv /\ SessionInv)'
    BY <1>1, <1>4, <2>1 DEF IInv, GameInv, SessionInv
  <2>4. StopInv'
    BY <1>3 DEF StopInv, Stopping
  <2>5. QED
    BY <1>3, <2>2, <2>3, <2>4 DEF IInv
<1>7. QED
  BY <1>5, <1>6

LEMMA InitInv == Init => IInv
<1> SUFFICES ASSUME Init PROVE IInv
  OBVIOUS
<1>1. 0 \in 0..MaxLaunches /\ 0 \in 0..MaxFaults
  BY GameSessionAssumption
<1>2. DOMAIN pc = Actors /\ \A b \in Actors : pc[b] \in {"menu", "idle"} /\ pc[b] \in Places[b]
  BY PlaceNames DEF Init, Actors
<1>3. TypeOK
  BY <1>1, <1>2 DEF Init, TypeOK
<1>4. GuestInv
  BY DEF Init, GuestInv
<1>5. GameInv /\ SessionInv
  BY DEF Init, GameInv, SessionInv
<1>6. StopInv
  BY <1>2 DEF StopInv, Stopping
<1>7. QED
  BY <1>3, <1>4, <1>5, <1>6 DEF IInv

LEMMA StepInv == IInv /\ [Next]_vars => IInv'
<1> SUFFICES ASSUME IInv, [Next]_vars PROVE IInv'
  OBVIOUS
<1>1. CASE UNCHANGED vars
  BY <1>1 DEF vars, sessionVars, gameVars, guestVars, IInv, TypeOK, GuestInv, GameInv,
              SessionInv, StopInv
<1>2. ASSUME NEW a \in Actors, Command(a) PROVE IInv'
  BY <1>2, LockStep, RefusedStep, StartStep, ToStartingStep, AttachStep, FailStep,
     RequestStopStep, CommitStopStep, ObserveExitStep, FlushTreeStep, FlushSavesStep,
     FlushFailsStep, CompleteStep DEF Command
<1>3. ASSUME NEW a \in Actors, StopWaited(a) \/ ForceKill(a) PROVE IInv'
  BY <1>3, StopWaitedStep, ForceKillStep
<1>4. CASE RuntimeStep \/ StageGame
  BY <1>2, <1>4, StagingStep, WriteStep, RunnerLaunchesStep, FindEmulatorStep, NoEmulatorStep,
     RuntimeReturnsStep DEF RuntimeStep, Actors
<1>5. CASE ProbeStep \/ ProbeRefused \/ ProbeBegins
  BY <1>2, <1>3, <1>5, GuestStep, WriteStep, FindEmulatorStep, NoEmulatorStep DEF ProbeStep, Actors
<1>6. CASE OperatorStep \/ OperatorCommand
  BY <1>2, <1>3, <1>6, GuestStep DEF OperatorStep, Actors
<1>7. CASE GameStep
  BY <1>7, GameStepInv
<1>8. CASE KillAll \/ PowerLoss
  BY <1>8, FaultStep
<1>9. QED
  BY <1>1, <1>4, <1>5, <1>6, <1>7, <1>8 DEF Next

-----------------------------------------------------------------------------
(* Theorems.                                                               *)

\* The inductive invariant, at every moment.
THEOREM Invariance == Spec => []IInv
  BY InitInv, StepInv, PTL DEF Spec

\* Session, lock, emulator and actors keep to their values.
THEOREM TypeCorrect == Spec => []TypeOK
<1>1. IInv => TypeOK
  BY DEF IInv
<1>2. QED
  BY <1>1, Invariance, PTL

\* A stopped session's game has exited and its saves are on the card.
THEOREM StoppedIsFlushed == Spec => []StoppedMeansFlushed
<1>1. IInv => StoppedMeansFlushed
  BY DEF IInv, SessionInv, StoppedMeansFlushed
<1>2. QED
  BY <1>1, Invariance, PTL

\* Saves are flushed when the process they belong to can no longer write.
THEOREM FlushFollowsExit == Spec => []FlushOnlyAfterExit
<1>1. IInv => FlushOnlyAfterExit
  BY DEF IInv, SessionInv, FlushOnlyAfterExit
<1>2. QED
  BY <1>1, Invariance, PTL

\* A game that was killed never makes a session that ends well.
THEOREM KilledNeverSucceeds == Spec => []ForcedKillNeverSucceeds
<1>1. IInv => ForcedKillNeverSucceeds
  BY DEF IInv, SessionInv, ForcedKillNeverSucceeds
<1>2. QED
  BY <1>1, Invariance, PTL

\* The outcome of a session stays until a new one starts or the power is lost.
THEOREM OutcomeStays == Spec => OutcomeIsFinal
<1> DEFINE Final == sess' # sess /\ sess \in Terminal => sess' \in {"PREPARING", "IDLE"}
<1>1. IInv /\ [Next]_vars => [Final]_vars
  <2> SUFFICES ASSUME IInv, Next, sess' # sess, sess \in Terminal
               PROVE  sess' \in {"PREPARING", "IDLE"}
    BY DEF vars
  <2>1. \/ \E a \in Actors : Command(a)
        \/ PowerLoss \/ UNCHANGED sess
    BY DEF Next, RuntimeStep, ProbeStep, OperatorStep, GameStep, Actors, StageGame, MenuReturns,
       RunnerRefuses, LauncherDrained, LauncherDone, WriteCommand, FindEmulator, NoEmulator,
       RunnerLaunches, RuntimeReturns, EmulatorStarts, EmulatorExits, LauncherReturns,
       ProbeRefused, ProbeBegins, ProbeSoaked, ProbeReturned, StopWaited, ForceKill,
       OperatorCommand, KillAll, sessionVars
  <2>2. CASE PowerLoss
    BY <2>2 DEF PowerLoss
  <2>3. ASSUME NEW a \in Actors, Command(a) PROVE sess' \in {"PREPARING", "IDLE"}
    <3>1. sess \notin Active \cup {"RUNNING", "STOP_REQUESTED", "FLUSHING", "STARTING"}
      BY DEF Active, Terminal
    <3>2. \/ Start(a)
          \/ ToStarting(a) \/ Attach(a) \/ Fail(a) \/ RequestStop(a) \/ CommitStop(a)
          \/ ObserveExit(a) \/ Complete(a)
      BY <2>3, <3>1 DEF Command, Lock, Busy, Refused, FlushSaveTree, FlushStateTree, FlushSaves,
         FlushFails, Flushing, Status, sessionVars
    <3>3. Start(a)
      <4>1. Succeed(a) => sess \in Expected[pc[a]]
        BY DEF Succeed
      <4>2. QED
        BY <3>1, <3>2, <4>1, ExpectedStates DEF ToStarting, Attach, Fail, RequestStop,
           CommitStop, ObserveExit, Complete, Active
    <3>4. QED
      BY <3>3 DEF Start
  <2>4. QED
    BY <2>1, <2>2, <2>3
<1>2. QED
  BY <1>1, Invariance, PTL DEF Spec, OutcomeIsFinal
=============================================================================
