------------------------------- MODULE SyncCheck -------------------------------
(***************************************************************************)
(* How the server finds out that the clients' simulations have drifted     *)
(* apart.  Every client answers every frame with the checksum of its       *)
(* simulation; CGameServer::CheckSync compares the answers to a frame, from *)
(* the first of them on, until all are there or the frame is too old.      *)
(*                                                                         *)
(* A client's packets arrive in order (UdpConnection).  A client that is   *)
(* over its bandwidth has its SYNCRESPONSE and KEYFRAME packets looked at  *)
(* ahead of time and handled again when they are taken off the queue.      *)
(***************************************************************************)
EXTENDS Integers, FiniteSets, Functions

CONSTANTS
  NumPlayers,
  LocalClient,    \* the host's own client, 0 on a dedicated server
  SyncTimeout,    \* SYNCCHECK_TIMEOUT
  MsgTimeout,     \* SYNCCHECK_MSG_TIMEOUT
  KeyInterval,    \* serverKeyframeInterval
  MaxNewFrames,   \* bound: frames made in one round of the server's loop
  Worlds,         \* the wrong simulations a client may drift into
  MaxFrame,       \* bound: the last frame
  MaxReturns      \* bound: how often clients come back

Players == 1..NumPlayers
Frames == 0..MaxFrame
Right == 0

ASSUME SyncAssumption ==
  /\ NumPlayers \in Nat /\ LocalClient \in 0..NumPlayers
  /\ SyncTimeout \in Nat /\ MsgTimeout \in Nat /\ KeyInterval \in Nat \ {0}
  /\ MaxNewFrames \in Nat /\ MaxFrame \in Nat /\ MaxReturns \in Nat
  /\ Right \notin Worlds

VARIABLES
  serverFrameNum, outstandingSyncFrames,
  syncErrorFrame, syncWarningFrame, desyncHasOccurred,
  linked,             \* a participant that has a link and is not DISCONNECTING
  syncResponse,       \* syncResponse[p]: the checksums of p, by frame
  lastFrameResponse, desynced,
  simulated,          \* the last frame a client has simulated and answered
  taken,              \* the last answer taken off the client's queue
  drift,              \* drift[p]: the frame from which p's simulation is wrong
  world,              \* and which of the wrong ones it is
  recorded,           \* history: what syncResponse[p] held since p is linked
  blamed,             \* history: whom the server reported, and for which frame
  numReturns

server == <<serverFrameNum, outstandingSyncFrames, syncErrorFrame, syncWarningFrame,
            desyncHasOccurred, blamed>>
client == <<linked, simulated, taken, drift, world, numReturns>>
answers == <<syncResponse, lastFrameResponse, recorded>>
vars == <<server, client, answers, desynced>>

NoAnswers == [f \in {} |-> <<0, Right>>]
Never == MaxFrame + 1

Init ==
  /\ serverFrameNum = -1 /\ outstandingSyncFrames = {}
  /\ syncErrorFrame = 0 /\ syncWarningFrame = 0
  /\ desyncHasOccurred = FALSE /\ blamed = {}
  /\ linked = [p \in Players |-> TRUE]
  /\ syncResponse = [p \in Players |-> NoAnswers]
  /\ recorded = [p \in Players |-> NoAnswers]
  /\ lastFrameResponse = [p \in Players |-> 0]
  /\ desynced = [p \in Players |-> FALSE]
  /\ simulated = [p \in Players |-> -1] /\ taken = [p \in Players |-> -1]
  /\ drift = [p \in Players |-> Never] /\ world = [p \in Players |-> Right]
  /\ numReturns = 0
--------------------------------------------------------------------------------
(* CheckSync, one frame after the other. *)

Answered(p, f) == f \in DOMAIN syncResponse[p]
Voters(f) == {p \in Players : linked[p] /\ Answered(p, f)}
Missing(f) == {p \in Players : linked[p] /\ ~Answered(p, f)}

Votes(f, sum) == {p \in Voters(f) : syncResponse[p][f] = sum}
LastOf(S) == CHOOSE p \in S : \A q \in S : q <= p

(* mutant: a single vote is not enough to compare with *)
HaveCorrectTwice(f) ==
  IF LocalClient # 0 THEN Answered(LocalClient, f)
  ELSE \E p \in Voters(f) : Cardinality(Votes(f, syncResponse[p][f])) > 1

HaveCorrect(f) ==
  IF LocalClient # 0 THEN Answered(LocalClient, f) ELSE Voters(f) # {}

(* Dictatorship of the local client, or democracy: the checksum with the   *)
(* most votes so far; of several, the one that had them first as the       *)
(* players are counted.                                                    *)
Leads(f, sum, other) ==
  LET mine == Votes(f, sum)
      theirs == Votes(f, other)
  IN  \/ Cardinality(mine) > Cardinality(theirs)
      \/ Cardinality(mine) = Cardinality(theirs) /\ LastOf(mine) < LastOf(theirs)

CorrectChecksum(f) ==
  IF LocalClient # 0 THEN syncResponse[LocalClient][f]
  ELSE LET cast == {syncResponse[p][f] : p \in Voters(f)}
       IN  CHOOSE sum \in cast : \A other \in cast \ {sum} : Leads(f, sum, other)

Differing(f) ==
  IF HaveCorrect(f) THEN Voters(f) \ Votes(f, CorrectChecksum(f)) ELSE {}

(* mutant: the answers are waited for without an end *)
CompleteUntimed(f) == Missing(f) = {}

CompleteResponseSet(f) == Missing(f) = {} \/ f < serverFrameNum - SyncTimeout

(* mutant: the frame of the last KEYFRAME should have been answered, too *)
NoSyncResponseUpTo(f) ==
  {p \in Missing(f) : f < serverFrameNum - SyncTimeout /\ f <= lastFrameResponse[p]}

(* those that failed to answer although they are beyond that frame *)
NoSyncResponse(f) ==
  {p \in Missing(f) : f < serverFrameNum - SyncTimeout /\ f < lastFrameResponse[p]}

(* Reports too close to one another are suppressed, so it takes one that is *)
(* far enough from the last for any to be made.                            *)
Apart(f, last) == last = 0 \/ f - last > MsgTimeout
Due(S, last) == \E f \in S : Apart(f, last)

(* the last frame reported, once those in S up to f have been gone through *)
Reports(S, last) ==
  LET upTo[f \in -1..serverFrameNum] ==
        IF f = -1 THEN last
        ELSE IF f \in S /\ Apart(f, upTo[f - 1]) THEN f ELSE upTo[f - 1]
  IN  upTo

LastReport(S, last) == IF S = {} THEN last ELSE Reports(S, last)[serverFrameNum]
Reported(S, last) == {f \in S : Apart(f, Reports(S, last)[f - 1])}

CheckSync ==
  LET warned == {f \in outstandingSyncFrames : NoSyncResponse(f) # {}}
      wrong  == {f \in outstandingSyncFrames : Differing(f) # {}}
      open   == {f \in outstandingSyncFrames : ~CompleteResponseSet(f)}
  IN  /\ syncWarningFrame' = LastReport(warned, syncWarningFrame)
      /\ syncErrorFrame' = LastReport(wrong, syncErrorFrame)
      /\ desyncHasOccurred' = (desyncHasOccurred \/ Due(wrong, syncErrorFrame))
      /\ blamed' = blamed \cup UNION {{<<p, f>> : p \in Differing(f)} :
                                  f \in Reported(wrong, syncErrorFrame)}
      /\ desynced' = [p \in Players |->
           LET fs == {f \in outstandingSyncFrames : p \in Voters(f)}
           IN  IF fs = {} THEN desynced[p] ELSE p \in Differing(LastOf(fs))]
      /\ syncResponse' = [p \in Players |->
           IF linked[p] THEN Restrict(syncResponse[p], open \cap DOMAIN syncResponse[p])
           ELSE syncResponse[p]]

(* The frames that were made, none if the game is paused, are outstanding. *)
CreateNewFrame(numNewFrames) ==
  /\ serverFrameNum + numNewFrames <= MaxFrame
  /\ CheckSync
  /\ serverFrameNum' = serverFrameNum + numNewFrames
  /\ outstandingSyncFrames' =
       {f \in outstandingSyncFrames : ~CompleteResponseSet(f)}
         \cup (serverFrameNum + 1)..(serverFrameNum + numNewFrames)
  /\ UNCHANGED <<client, lastFrameResponse, recorded>>
--------------------------------------------------------------------------------
(* The clients *)

Checksum(p, f) == <<f, IF f < drift[p] THEN Right ELSE world[p]>>

(* SimFrame; the simulation may get out of step for good. *)
SimFrame(p, w) ==
  /\ linked[p] /\ simulated[p] < serverFrameNum
  /\ simulated' = [simulated EXCEPT ![p] = @ + 1]
  /\ IF w = Right THEN UNCHANGED <<drift, world>>
     ELSE /\ drift[p] = Never
          /\ drift' = [drift EXCEPT ![p] = simulated[p] + 1]
          /\ world' = [world EXCEPT ![p] = w]
  /\ UNCHANGED <<server, linked, taken, numReturns, answers, desynced>>

(* mutant: an answer is kept for the frame the server has reached *)
RecordForNow(p) ==
  LET news == (taken[p] + 1)..simulated[p]
      kept == outstandingSyncFrames \cap {serverFrameNum}
  IN  [f \in kept \cup DOMAIN syncResponse[p] |->
         IF f \in kept /\ news # {} THEN Checksum(p, simulated[p])
         ELSE IF Answered(p, f) THEN syncResponse[p][f] ELSE Checksum(p, f)]

(* NETMSG_SYNCRESPONSE for what waits in the client's queue *)
Record(p) ==
  LET news == (taken[p] + 1)..simulated[p]
      kept == outstandingSyncFrames \cap news
  IN  [f \in kept \cup DOMAIN syncResponse[p] |->
         IF f \in kept THEN Checksum(p, f) ELSE syncResponse[p][f]]

(* Whether the KEYFRAME of the frame being simulated has arrived as well. *)
KeyFrameAhead(p) ==
  /\ simulated[p] + 1 <= serverFrameNum
  /\ (simulated[p] + 1) % KeyInterval = 0

(* ServerReadNet for one client: all the answers that wait are handled, but *)
(* only those up to upTo are taken off the queue.                          *)
ServerReadNet(p, upTo, ahead) ==
  LET reached == IF ahead THEN simulated[p] + 1 ELSE simulated[p]
  IN  /\ linked[p]
      /\ ahead => KeyFrameAhead(p)
      /\ syncResponse' = [syncResponse EXCEPT ![p] = Record(p)]
      /\ recorded' = [recorded EXCEPT ![p] =
           [f \in DOMAIN Record(p) \cup DOMAIN recorded[p] |->
              IF f \in DOMAIN Record(p) THEN Record(p)[f] ELSE recorded[p][f]]]
      /\ lastFrameResponse' = [lastFrameResponse EXCEPT ![p] =
           IF reached > @ THEN reached ELSE @]
      /\ taken' = [taken EXCEPT ![p] = upTo]
      /\ UNCHANGED <<server, linked, simulated, drift, world, numReturns, desynced>>

(* mutant: -1 is no frame, either *)
UnpauseToNone ==
  /\ syncErrorFrame # -1 /\ syncErrorFrame' = -1
  /\ UNCHANGED <<serverFrameNum, outstandingSyncFrames, syncWarningFrame,
                 desyncHasOccurred, blamed, client, answers, desynced>>

(* NETMSG_PAUSE that ends a pause: the next difference is reported at once *)
Unpause ==
  /\ syncErrorFrame # 0 /\ syncErrorFrame' = 0
  /\ UNCHANGED <<serverFrameNum, outstandingSyncFrames, syncWarningFrame,
                 desyncHasOccurred, blamed, client, answers, desynced>>

(* mutant: the answers of one who has left are kept *)
LeaveAnswers(p) ==
  /\ linked[p]
  /\ linked' = [linked EXCEPT ![p] = FALSE]
  /\ recorded' = [recorded EXCEPT ![p] = NoAnswers]
  /\ UNCHANGED <<server, simulated, taken, drift, world, numReturns, syncResponse,
                 lastFrameResponse, desynced>>

(* Kill; the client's link and queue are gone *)
Leave(p) ==
  /\ linked[p] /\ p # LocalClient
  /\ linked' = [linked EXCEPT ![p] = FALSE]
  /\ syncResponse' = [syncResponse EXCEPT ![p] = NoAnswers]
  /\ recorded' = [recorded EXCEPT ![p] = NoAnswers]
  /\ UNCHANGED <<server, simulated, taken, drift, world, numReturns,
                 lastFrameResponse, desynced>>

(* Connected: a new client, which simulates the game from its first frame *)
Return(p) ==
  /\ ~linked[p] /\ numReturns < MaxReturns
  /\ numReturns' = numReturns + 1
  /\ linked' = [linked EXCEPT ![p] = TRUE]
  /\ lastFrameResponse' = [lastFrameResponse EXCEPT ![p] = 0]
  /\ simulated' = [simulated EXCEPT ![p] = -1]
  /\ taken' = [taken EXCEPT ![p] = -1]
  /\ drift' = [drift EXCEPT ![p] = Never]
  /\ world' = [world EXCEPT ![p] = Right]
  /\ UNCHANGED <<server, syncResponse, recorded, desynced>>
--------------------------------------------------------------------------------
Next ==
  \/ \E n \in 0..MaxNewFrames : CreateNewFrame(n)
  \/ Unpause
  \/ \E p \in Players :
       \/ \E w \in Worlds \cup {Right} : SimFrame(p, w)
       \/ \E upTo \in taken[p]..simulated[p], ahead \in BOOLEAN : ServerReadNet(p, upTo, ahead)
       \/ Leave(p) \/ Return(p)

Spec == Init /\ [][Next]_vars
--------------------------------------------------------------------------------
(* Properties. *)

Checksums == Frames \X (Worlds \cup {Right})
AnswerSets == UNION {[S -> Checksums] : S \in SUBSET Frames}

(* The types of the server's and the participants' fields. *)
TypeOK ==
  /\ serverFrameNum \in -1..MaxFrame /\ outstandingSyncFrames \subseteq Frames
  /\ syncErrorFrame \in Frames /\ syncWarningFrame \in Frames
  /\ desyncHasOccurred \in BOOLEAN /\ blamed \subseteq Players \X Frames
  /\ linked \in [Players -> BOOLEAN] /\ desynced \in [Players -> BOOLEAN]
  /\ \A p \in Players : syncResponse[p] \in AnswerSets /\ recorded[p] \in AnswerSets
  /\ lastFrameResponse \in [Players -> Frames]
  /\ simulated \in [Players -> -1..MaxFrame] /\ taken \in [Players -> -1..MaxFrame]
  /\ drift \in [Players -> 0..Never] /\ world \in [Players -> Worlds \cup {Right}]
  /\ numReturns \in 0..MaxReturns

(* Two clients whose answers to the same frame differ do not get past the  *)
(* server, however late one of the answers was and whoever came or went:   *)
(* once the frame is closed the desync is known.  With a local client that *)
(* is said of the differences from it.                                     *)
DesyncIsNoticed ==
  \A p, q \in {r \in Players : linked[r]} :
    (LocalClient \in {0, p}) =>
      \A f \in (DOMAIN recorded[p] \cap DOMAIN recorded[q]) \ outstandingSyncFrames :
        recorded[p][f] # recorded[q][f] => desyncHasOccurred

(* Nothing is left of an answer when its frame is no longer outstanding:   *)
(* the tables do not grow with the game, although clients vanish before    *)
(* frames are closed and old answers are handled a second time ("this does *)
(* no harm").                                                              *)
NoAnswerOutlivesItsFrame ==
  \A p \in Players : DOMAIN syncResponse[p] \subseteq outstandingSyncFrames

(* A client that never answers cannot keep frames outstanding.             *)
OutstandingIsBounded ==
  \A f \in outstandingSyncFrames : f >= serverFrameNum - SyncTimeout - MaxNewFrames

(* No client that answers every frame is ever warned about, as its KEYFRAME *)
(* packets never overtake its answers and neither is ever dropped.         *)
NobodyIsWarnedAbout == syncWarningFrame = 0

(* A desync is only ever reported if somebody's simulation has drifted, or *)
(* had before it left: answers to different frames are not compared.       *)
OnlyDriftIsReported ==
  [][desyncHasOccurred' /\ ~desyncHasOccurred => \E p \in Players : drift[p] # Never]_vars

(* "democracy; use the checksum that most players agree on as baseline":   *)
(* whoever agrees with most of the players is not reported as out of sync  *)
(* (said of games that nobody has come back to).                           *)
Agreeing(p, f) ==
  {q \in Players : simulated[q] >= f /\ Checksum(q, f) = Checksum(p, f)}
MajorityIsRight ==
  numReturns = 0 =>
    \A report \in blamed :
      2 * Cardinality(Agreeing(report[1], report[2])) <= NumPlayers
================================================================================
