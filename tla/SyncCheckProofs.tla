---------------------------- MODULE SyncCheckProofs ----------------------------
(***************************************************************************)
(* Proofs about SyncCheck, for any number of players, any timeouts, with   *)
(* and without a local client.                                             *)
(***************************************************************************)
EXTENDS SyncCheck, WellFoundedInduction, TLAPS

(* the functions over the players, and the ranges of the frame numbers *)
Shape ==
  /\ serverFrameNum \in Int /\ -1 <= serverFrameNum /\ serverFrameNum <= MaxFrame
  /\ outstandingSyncFrames \subseteq 0..serverFrameNum
  /\ DOMAIN syncResponse = Players /\ DOMAIN recorded = Players
  /\ linked \in [Players -> BOOLEAN]
  /\ lastFrameResponse \in [Players -> Int]
  /\ simulated \in [Players -> Int] /\ taken \in [Players -> Int]
  /\ drift \in [Players -> Int] /\ DOMAIN world = Players

(* Nobody is ahead of the server, and nothing is handled before it is sent. *)
InStep ==
  \A p \in Players :
    /\ -1 <= taken[p] /\ taken[p] <= simulated[p] /\ simulated[p] <= serverFrameNum
    /\ lastFrameResponse[p] = 0 \/ lastFrameResponse[p] <= serverFrameNum

(* What was recorded is what the client computed; it is still there as long *)
(* as its frame is outstanding, and no longer.                             *)
AnswersKept ==
  \A p \in Players :
    /\ \A f \in DOMAIN recorded[p] : /\ f \in Int /\ f <= simulated[p]
                                     /\ recorded[p][f] = Checksum(p, f)
    /\ \A f \in DOMAIN syncResponse[p] : /\ f \in DOMAIN recorded[p]
                                         /\ f \in outstandingSyncFrames
                                         /\ syncResponse[p][f] = recorded[p][f]
    /\ \A f \in outstandingSyncFrames : f \in DOMAIN recorded[p] => Answered(p, f)
    /\ ~linked[p] => DOMAIN recorded[p] = {} /\ DOMAIN syncResponse[p] = {}

(* What a client is beyond, it has answered. *)
Prompt ==
  \A p \in Players : linked[p] =>
    \A f \in outstandingSyncFrames :
      f <= taken[p] \/ f < lastFrameResponse[p] => Answered(p, f)

(* The last error is forgotten by a pause, but not that there was one. *)
ErrorsAreKnown == syncErrorFrame # 0 => desyncHasOccurred

Inductive ==
  /\ Shape /\ InStep /\ AnswersKept /\ Prompt /\ ErrorsAreKnown
  /\ NobodyIsWarnedAbout /\ OutstandingIsBounded /\ DesyncIsNoticed
--------------------------------------------------------------------------------
(* CheckSync *)

(* The local client, if there is one, is a player. *)
LEMMA LocalIsPlayer == LocalClient # 0 => LocalClient \in Players
BY SyncAssumption DEF Players

(* Two different answers cannot both agree with the right one. *)
LEMMA DifferenceIsFound ==
  ASSUME NEW f, NEW p \in Voters(f), NEW q \in Voters(f), LocalClient \in {0, p},
         syncResponse[p][f] # syncResponse[q][f]
  PROVE  Differing(f) # {}
<1>1. HaveCorrect(f)
  <2>1. CASE LocalClient = 0
    BY <2>1 DEF HaveCorrect
  <2>2. CASE LocalClient = p
    BY <2>2 DEF HaveCorrect, Voters
  <2> QED
    BY <2>1, <2>2
<1>2. ~ (p \in Votes(f, CorrectChecksum(f)) /\ q \in Votes(f, CorrectChecksum(f)))
  BY DEF Votes
<1> QED
  BY <1>1, <1>2 DEF Differing

(* While nobody has drifted, nobody differs. *)
LEMMA NoDriftNoDifference ==
  ASSUME Inductive, \A p \in Players : drift[p] = Never, NEW f \in outstandingSyncFrames
  PROVE  Differing(f) = {}
<1> DEFINE right == <<f, Right>>
<1>1. \A p \in Players : Answered(p, f) => syncResponse[p][f] = right
  <2> SUFFICES ASSUME NEW p \in Players, Answered(p, f)
               PROVE  syncResponse[p][f] = right
    OBVIOUS
  <2>1. syncResponse[p][f] = Checksum(p, f)
    BY DEF Inductive, AnswersKept, Answered
  <2>2. f < drift[p]
    BY SyncAssumption DEF Inductive, Shape, Never
  <2> QED
    BY <2>1, <2>2 DEF Checksum
<1> HIDE DEF right
<1> SUFFICES ASSUME HaveCorrect(f)
             PROVE  CorrectChecksum(f) = right
  BY <1>1 DEF Differing, Votes, Voters
<1>2. CASE LocalClient # 0
  BY <1>1, <1>2, LocalIsPlayer DEF CorrectChecksum, HaveCorrect
<1>3. CASE LocalClient = 0
  <2> DEFINE cast == {syncResponse[p][f] : p \in Voters(f)}
  <2>1. cast = {right}
    BY <1>1, <1>3 DEF HaveCorrect, Voters
  <2>2. CorrectChecksum(f) =
          CHOOSE sum \in cast : \A other \in cast \ {sum} : Leads(f, sum, other)
    BY <1>3 DEF CorrectChecksum
  <2>3. right \in cast /\ \A other \in cast \ {right} : Leads(f, right, other)
    BY <2>1
  <2> HIDE DEF cast
  <2>4. CorrectChecksum(f) \in cast
    BY <2>2, <2>3
  <2> QED
    BY <2>1, <2>4
<1> QED
  BY <1>2, <1>3

(* Whoever is beyond a frame has answered it: there is nobody to warn about.*)
LEMMA NothingToWarnAbout ==
  ASSUME Inductive, NEW f \in outstandingSyncFrames
  PROVE  NoSyncResponse(f) = {}
BY DEF Inductive, Prompt, NoSyncResponse, Missing

(* If anything differs, the desync is known after CheckSync. *)
LEMMA DifferenceIsKnown ==
  ASSUME Inductive, CheckSync, NEW f \in outstandingSyncFrames, Differing(f) # {}
  PROVE  desyncHasOccurred'
<1> DEFINE wrong == {g \in outstandingSyncFrames : Differing(g) # {}}
<1>1. desyncHasOccurred' = (desyncHasOccurred \/ Due(wrong, syncErrorFrame))
  BY DEF CheckSync
<1>2. f \in wrong
  OBVIOUS
<1> HIDE DEF wrong
<1>3. ~desyncHasOccurred => Due(wrong, syncErrorFrame)
  BY <1>2 DEF Due, Apart, Inductive, ErrorsAreKnown
<1> QED
  BY <1>1, <1>3
--------------------------------------------------------------------------------
(* The steps *)

(* A round of the server's loop. *)
LEMMA CreateNewFrameKeeps ==
  ASSUME Inductive, NEW n \in 0..MaxNewFrames, CreateNewFrame(n)
  PROVE  Inductive'
<1> DEFINE open == {f \in outstandingSyncFrames : ~CompleteResponseSet(f)}
           new == (serverFrameNum + 1)..(serverFrameNum + n)
<1> USE SyncAssumption
<1>1. /\ CheckSync /\ serverFrameNum' = serverFrameNum + n
      /\ serverFrameNum + n <= MaxFrame
      /\ outstandingSyncFrames' = open \cup new
      /\ UNCHANGED <<client, lastFrameResponse, recorded>>
  BY DEF CreateNewFrame
<1>2. UNCHANGED <<linked, simulated, taken, drift, world, numReturns, lastFrameResponse, recorded>>
  BY <1>1 DEF client
<1>3. syncResponse' = [p \in Players |->
           IF linked[p] THEN Restrict(syncResponse[p], open \cap DOMAIN syncResponse[p])
           ELSE syncResponse[p]]
  BY <1>1 DEF CheckSync
<1>4. \A p \in Players :
        /\ linked[p] => DOMAIN syncResponse'[p] = open \cap DOMAIN syncResponse[p]
        /\ ~linked[p] => syncResponse'[p] = syncResponse[p]
        /\ \A f \in DOMAIN syncResponse'[p] : syncResponse'[p][f] = syncResponse[p][f]
  BY <1>3 DEF Restrict
<1>5. open \subseteq 0..serverFrameNum /\ \A f \in new : f \in Int /\ f > serverFrameNum
  <2>1. serverFrameNum \in Int /\ n \in Int
    BY DEF Inductive, Shape
  <2>2. open \subseteq 0..serverFrameNum
    BY DEF Inductive, Shape
  <2>3. ASSUME NEW f \in new
        PROVE  f \in Int /\ f > serverFrameNum
    BY <2>1
  <2> QED
    BY <2>2, <2>3
<1>6. Shape'
  <2>1. serverFrameNum \in Int /\ -1 <= serverFrameNum /\ n \in Int /\ 0 <= n
    BY DEF Inductive, Shape
  <2>2. /\ serverFrameNum' \in Int /\ -1 <= serverFrameNum' /\ serverFrameNum' <= MaxFrame
    BY <1>1, <2>1
  <2>3. outstandingSyncFrames' \subseteq 0..serverFrameNum'
    BY <1>1, <1>5, <2>1
  <2>4. DOMAIN syncResponse' = Players
    BY <1>3
  <2> QED
    BY <1>2, <2>2, <2>3, <2>4 DEF Inductive, Shape
<1>7. InStep'
  BY <1>1, <1>2 DEF Inductive, Shape, InStep
<1> HIDE DEF new
<1>8. AnswersKept'
  <2> SUFFICES ASSUME NEW p \in Players
               PROVE  /\ \A f \in DOMAIN recorded[p] : /\ f \in Int /\ f <= simulated[p]
                                                       /\ recorded[p][f] = Checksum(p, f)
                      /\ \A f \in DOMAIN syncResponse'[p] :
                           /\ f \in DOMAIN recorded[p] /\ f \in open \cup new
                           /\ syncResponse'[p][f] = recorded[p][f]
                      /\ \A f \in open \cup new : f \in DOMAIN recorded[p] =>
                           f \in DOMAIN syncResponse'[p]
                      /\ ~linked[p] => DOMAIN recorded[p] = {} /\ DOMAIN syncResponse'[p] = {}
    BY <1>1, <1>2 DEF AnswersKept, Answered, Checksum
  <2>1. \A f \in DOMAIN recorded[p] : /\ f \in Int /\ f <= simulated[p]
                                      /\ recorded[p][f] = Checksum(p, f)
    BY DEF Inductive, AnswersKept
  <2>2. \A f \in DOMAIN syncResponse'[p] : /\ f \in DOMAIN recorded[p] /\ f \in open \cup new
                                           /\ syncResponse'[p][f] = recorded[p][f]
    <3>1. CASE linked[p]
      BY <3>1, <1>4 DEF Inductive, AnswersKept
    <3>2. CASE ~linked[p]
      BY <3>2, <1>4 DEF Inductive, AnswersKept
    <3> QED
      BY <3>1, <3>2
  <2>3. \A f \in open \cup new : f \in DOMAIN recorded[p] => f \in DOMAIN syncResponse'[p]
    <3> SUFFICES ASSUME NEW f \in open \cup new, f \in DOMAIN recorded[p]
                 PROVE  f \in DOMAIN syncResponse'[p]
      OBVIOUS
    <3>1. linked[p]
      BY DEF Inductive, AnswersKept
    <3>2. f \in open
      BY <2>1, <1>5 DEF Inductive, Shape, InStep
    <3>3. f \in DOMAIN syncResponse[p]
      BY <3>2 DEF Inductive, AnswersKept, Answered
    <3> QED
      BY <3>1, <3>2, <3>3, <1>4
  <2>4. ~linked[p] => DOMAIN recorded[p] = {} /\ DOMAIN syncResponse'[p] = {}
    BY <1>4 DEF Inductive, AnswersKept
  <2> QED
    BY <2>1, <2>2, <2>3, <2>4
<1>9. Prompt'
  <2> SUFFICES ASSUME NEW p \in Players, linked[p], NEW f \in open \cup new,
                      f <= taken[p] \/ f < lastFrameResponse[p]
               PROVE  f \in DOMAIN syncResponse'[p]
    BY <1>1, <1>2 DEF Prompt, Answered
  <2>1. f \in open
    <3> SUFFICES ASSUME f \in new
                 PROVE  FALSE
      OBVIOUS
    <3>1. f > serverFrameNum /\ f \in Int
      BY <1>5
    <3> QED
      BY <3>1 DEF Inductive, Shape, InStep
  <2>2. f \in DOMAIN syncResponse[p]
    BY <2>1 DEF Inductive, Prompt, Answered
  <2> QED
    BY <2>1, <2>2, <1>4
<1>10. ErrorsAreKnown'
  <2> DEFINE wrong == {f \in outstandingSyncFrames : Differing(f) # {}}
  <2>1. syncErrorFrame' = LastReport(wrong, syncErrorFrame)
    BY <1>1 DEF CheckSync
  <2>2. desyncHasOccurred => desyncHasOccurred'
    BY <1>1 DEF CheckSync
  <2>3. CASE wrong = {}
    BY <2>1, <2>2, <2>3 DEF LastReport, Inductive, ErrorsAreKnown
  <2>4. CASE wrong # {}
    BY <2>4, <1>1, DifferenceIsKnown DEF ErrorsAreKnown
  <2> QED
    BY <2>3, <2>4
<1>11. NobodyIsWarnedAbout'
  <2> DEFINE warned == {f \in outstandingSyncFrames : NoSyncResponse(f) # {}}
  <2>1. syncWarningFrame' = LastReport(warned, syncWarningFrame)
    BY <1>1 DEF CheckSync
  <2>2. warned = {}
    BY NothingToWarnAbout
  <2> QED
    BY <2>1, <2>2 DEF LastReport, Inductive, NobodyIsWarnedAbout
<1>12. OutstandingIsBounded'
  <2> DEFINE least == serverFrameNum + n - SyncTimeout - MaxNewFrames
  <2>1. serverFrameNum \in Int /\ n \in Int /\ n <= MaxNewFrames
    BY DEF Inductive, Shape
  <2>2. ASSUME NEW f \in open
        PROVE  f >= least
    <3>1. f \in Int /\ ~ (f < serverFrameNum - SyncTimeout)
      BY <1>5 DEF CompleteResponseSet
    <3> QED
      BY <2>1, <3>1
  <2>3. ASSUME NEW f \in new
        PROVE  f >= least
    BY <1>5, <2>1
  <2>4. serverFrameNum' - SyncTimeout - MaxNewFrames = least
    <3>1. serverFrameNum' = serverFrameNum + n
      BY <1>1
    <3> QED
      BY <3>1, <2>1
  <2>5. outstandingSyncFrames' = open \cup new
    BY <1>1
  <2> HIDE DEF open, least
  <2> QED
    BY <2>2, <2>3, <2>4, <2>5 DEF OutstandingIsBounded
<1>13. DesyncIsNoticed'
  <2> SUFFICES ASSUME NEW p \in Players, linked[p], NEW q \in Players, linked[q],
                      LocalClient \in {0, p},
                      NEW f \in (DOMAIN recorded[p] \cap DOMAIN recorded[q]) \ (open \cup new),
                      recorded[p][f] # recorded[q][f]
               PROVE  desyncHasOccurred'
    BY <1>1, <1>2 DEF DesyncIsNoticed
  <2>1. CASE f \in outstandingSyncFrames
    <3>1. Answered(p, f) /\ Answered(q, f)
      BY <2>1 DEF Inductive, AnswersKept
    <3>2. syncResponse[p][f] # syncResponse[q][f]
      BY <3>1 DEF Inductive, AnswersKept, Answered
    <3>3. Differing(f) # {}
      BY <3>1, <3>2, DifferenceIsFound DEF Voters
    <3> QED
      BY <2>1, <3>3, <1>1, DifferenceIsKnown
  <2>2. CASE f \notin outstandingSyncFrames
    <3>1. desyncHasOccurred
      BY <2>2 DEF Inductive, DesyncIsNoticed
    <3> QED
      BY <3>1, <1>1 DEF CheckSync
  <2> QED
    BY <2>1, <2>2
<1> QED
  BY <1>6, <1>7, <1>8, <1>9, <1>10, <1>11, <1>12, <1>13 DEF Inductive

(* A client simulates a frame, and may drift there. *)
LEMMA SimFrameKeeps ==
  ASSUME Inductive, NEW c \in Players, NEW w \in Worlds \cup {Right}, SimFrame(c, w)
  PROVE  Inductive'
<1> USE SyncAssumption
<1>1. /\ simulated[c] < serverFrameNum
      /\ simulated' = [simulated EXCEPT ![c] = @ + 1]
      /\ UNCHANGED <<serverFrameNum, outstandingSyncFrames, syncErrorFrame, syncWarningFrame,
                     desyncHasOccurred, linked, taken, syncResponse, lastFrameResponse, recorded>>
  BY DEF SimFrame, server, answers
<1>2. \/ UNCHANGED <<drift, world>>
      \/ /\ drift[c] = Never /\ drift' = [drift EXCEPT ![c] = simulated[c] + 1]
         /\ world' = [world EXCEPT ![c] = w]
  BY DEF SimFrame
<1>3. Shape'
  BY <1>1, <1>2 DEF Inductive, Shape
<1>4. InStep'
  BY <1>1 DEF Inductive, Shape, InStep
<1>5. \A p \in Players : \A f \in DOMAIN recorded[p] :
        f <= simulated'[p] /\ recorded[p][f] = Checksum(p, f)'
  <2> SUFFICES ASSUME NEW p \in Players, NEW f \in DOMAIN recorded[p]
               PROVE  f <= simulated'[p] /\ recorded[p][f] = Checksum(p, f)'
    OBVIOUS
  <2>1. f \in Int /\ f <= simulated[p] /\ recorded[p][f] = Checksum(p, f)
    BY DEF Inductive, AnswersKept
  <2>2. f <= simulated'[p]
    BY <1>1, <2>1 DEF Inductive, Shape
  <2>3. CASE p = c /\ drift[c] = Never /\ drift' = [drift EXCEPT ![c] = simulated[c] + 1]
    <3>1. f < drift[p] /\ f < drift'[p]
      BY <1>1, <2>1, <2>3 DEF Inductive, Shape, Never
    <3> QED
      BY <2>1, <2>2, <3>1 DEF Checksum
  <2>4. CASE drift'[p] = drift[p] /\ world'[p] = world[p]
    BY <2>1, <2>2, <2>4 DEF Checksum
  <2> QED
    BY <1>2, <2>3, <2>4 DEF Inductive, Shape
<1>6. AnswersKept'
  BY <1>1, <1>5 DEF Inductive, AnswersKept, Answered
<1>7. Prompt'
  BY <1>1 DEF Inductive, Prompt, Answered
<1>8. /\ ErrorsAreKnown' /\ NobodyIsWarnedAbout' /\ OutstandingIsBounded' /\ DesyncIsNoticed'
  BY <1>1 DEF Inductive, ErrorsAreKnown, NobodyIsWarnedAbout, OutstandingIsBounded,
              DesyncIsNoticed
<1> QED
  BY <1>3, <1>4, <1>6, <1>7, <1>8 DEF Inductive

(* What a client's answers make of its table: those to frames that are still *)
(* outstanding are added, and agree with what the client computed.           *)
LEMMA WhatIsRecorded ==
  ASSUME Inductive, NEW c \in Players
  PROVE  /\ \A f \in DOMAIN Record(c) : /\ f \in Int /\ f <= simulated[c]
                                        /\ f \in outstandingSyncFrames
                                        /\ Record(c)[f] = Checksum(c, f)
         /\ \A f \in outstandingSyncFrames :
              f <= simulated[c] /\ (taken[c] < f \/ Answered(c, f)) => f \in DOMAIN Record(c)
<1> DEFINE kept == outstandingSyncFrames \cap (taken[c] + 1)..simulated[c]
<1>1. /\ DOMAIN Record(c) = kept \cup DOMAIN syncResponse[c]
      /\ \A f \in kept : Record(c)[f] = Checksum(c, f)
      /\ \A f \in DOMAIN syncResponse[c] \ kept : Record(c)[f] = syncResponse[c][f]
  BY DEF Record
<1>2. \A f \in DOMAIN syncResponse[c] : /\ f \in Int /\ f <= simulated[c]
                                        /\ f \in outstandingSyncFrames
                                        /\ syncResponse[c][f] = Checksum(c, f)
  BY DEF Inductive, AnswersKept
<1>3. taken[c] \in Int /\ simulated[c] \in Int /\ outstandingSyncFrames \subseteq Int
  BY SyncAssumption DEF Inductive, Shape
<1>4. \A f \in kept : /\ f \in Int /\ f <= simulated[c] /\ f \in outstandingSyncFrames
  BY <1>3
<1>5. \A f \in outstandingSyncFrames : f <= simulated[c] /\ taken[c] < f => f \in kept
  BY <1>3
<1> HIDE DEF kept
<1> QED
  BY <1>1, <1>2, <1>4, <1>5 DEF Answered

(* The server handles what a client has sent. *)
LEMMA ServerReadNetKeeps ==
  ASSUME Inductive, NEW c \in Players,
         NEW upTo \in taken[c]..simulated[c], NEW ahead \in BOOLEAN,
         ServerReadNet(c, upTo, ahead)
  PROVE  Inductive'
<1> DEFINE reached == IF ahead THEN simulated[c] + 1 ELSE simulated[c]
           R == Record(c)
           old == recorded[c]
<1>1. /\ linked[c] /\ (ahead => KeyFrameAhead(c))
      /\ syncResponse' = [syncResponse EXCEPT ![c] = R]
      /\ recorded' = [recorded EXCEPT ![c] =
           [f \in DOMAIN R \cup DOMAIN recorded[c] |->
              IF f \in DOMAIN R THEN R[f] ELSE recorded[c][f]]]
      /\ lastFrameResponse' = [lastFrameResponse EXCEPT ![c] =
           IF reached > @ THEN reached ELSE @]
      /\ taken' = [taken EXCEPT ![c] = upTo]
      /\ UNCHANGED <<serverFrameNum, outstandingSyncFrames, syncErrorFrame, syncWarningFrame,
                     desyncHasOccurred, linked, simulated, drift, world>>
  BY DEF ServerReadNet, server
<1>2. /\ \A f \in DOMAIN R : /\ f \in Int /\ f <= simulated[c]
                             /\ f \in outstandingSyncFrames /\ R[f] = Checksum(c, f)
      /\ \A f \in outstandingSyncFrames :
           f <= simulated[c] /\ (taken[c] < f \/ Answered(c, f)) => f \in DOMAIN R
  BY WhatIsRecorded
<1>3. /\ upTo \in Int /\ taken[c] <= upTo /\ upTo <= simulated[c]
      /\ reached \in Int /\ reached <= serverFrameNum /\ reached <= simulated[c] + 1
      /\ serverFrameNum \in Int /\ simulated[c] \in Int /\ taken[c] \in Int
      /\ lastFrameResponse[c] \in Int /\ -1 <= taken[c]
  BY <1>1 DEF KeyFrameAhead, Inductive, Shape, InStep
<1> HIDE DEF R, reached
<1>4. Shape'
  BY <1>1, <1>3 DEF Inductive, Shape
<1>5. /\ syncResponse'[c] = R /\ taken'[c] = upTo
      /\ lastFrameResponse'[c] = IF reached > lastFrameResponse[c] THEN reached
                                 ELSE lastFrameResponse[c]
      /\ DOMAIN recorded'[c] = DOMAIN R \cup DOMAIN old
      /\ \A f \in DOMAIN recorded'[c] :
           recorded'[c][f] = IF f \in DOMAIN R THEN R[f] ELSE old[f]
  BY <1>1 DEF Inductive, Shape
<1>6. \A p \in Players \ {c} :
        /\ syncResponse'[p] = syncResponse[p] /\ taken'[p] = taken[p]
        /\ lastFrameResponse'[p] = lastFrameResponse[p] /\ recorded'[p] = recorded[p]
  BY <1>1 DEF Inductive, Shape
<1>7. InStep'
  BY <1>1, <1>3, <1>5, <1>6 DEF Inductive, InStep
<1>8. AnswersKept'
  <2> SUFFICES ASSUME NEW p \in Players
               PROVE  /\ \A f \in DOMAIN recorded'[p] :
                           /\ f \in Int /\ f <= simulated[p]
                           /\ recorded'[p][f] = Checksum(p, f)
                      /\ \A f \in DOMAIN syncResponse'[p] :
                           /\ f \in DOMAIN recorded'[p] /\ f \in outstandingSyncFrames
                           /\ syncResponse'[p][f] = recorded'[p][f]
                      /\ \A f \in outstandingSyncFrames :
                           f \in DOMAIN recorded'[p] => f \in DOMAIN syncResponse'[p]
                      /\ ~linked[p] => DOMAIN recorded'[p] = {} /\ DOMAIN syncResponse'[p] = {}
    <3>1. UNCHANGED <<linked, outstandingSyncFrames, simulated, drift, world>>
      BY <1>1
    <3> QED
      BY <3>1 DEF AnswersKept, Answered, Checksum
  <2>1. CASE p # c
    BY <2>1, <1>6 DEF Inductive, AnswersKept, Answered
  <2>2. CASE p = c
    <3>1. \A f \in DOMAIN old : f \in Int /\ f <= simulated[c] /\ old[f] = Checksum(c, f)
      BY DEF Inductive, AnswersKept
    <3>2. \A f \in outstandingSyncFrames : f \in DOMAIN old => f \in DOMAIN R
      BY <3>1, <1>2 DEF Inductive, AnswersKept
    <3> HIDE DEF old
    <3>3. \A f \in DOMAIN recorded'[c] : /\ f \in Int /\ f <= simulated[c]
                                         /\ recorded'[c][f] = Checksum(c, f)
      BY <3>1, <1>2, <1>5
    <3>4. \A f \in DOMAIN syncResponse'[c] :
            /\ f \in DOMAIN recorded'[c] /\ f \in outstandingSyncFrames
            /\ syncResponse'[c][f] = recorded'[c][f]
      BY <1>2, <1>5
    <3>5. \A f \in outstandingSyncFrames :
            f \in DOMAIN recorded'[c] => f \in DOMAIN syncResponse'[c]
      BY <3>2, <1>5
    <3> QED
      BY <2>2, <3>3, <3>4, <3>5, <1>1
  <2> QED
    BY <2>1, <2>2
<1>9. Prompt'
  <2> SUFFICES ASSUME NEW p \in Players, linked[p], NEW f \in outstandingSyncFrames,
                      f <= taken'[p] \/ f < lastFrameResponse'[p]
               PROVE  f \in DOMAIN syncResponse'[p]
    BY <1>1 DEF Prompt, Answered
  <2>1. CASE p # c
    BY <2>1, <1>6 DEF Inductive, Prompt, Answered
  <2>2. CASE p = c
    <3>1. f \in Int
      BY SyncAssumption DEF Inductive, Shape
    <3>2. CASE f <= taken[c] \/ f < lastFrameResponse[c]
      <4>1. Answered(c, f)
        BY <2>2, <3>2 DEF Inductive, Prompt
      <4>2. f <= simulated[c]
        BY <4>1 DEF Inductive, AnswersKept, Answered
      <4> QED
        BY <2>2, <4>1, <4>2, <1>2, <1>5
    <3>3. CASE ~ (f <= taken[c] \/ f < lastFrameResponse[c])
      <4>1. taken[c] < f /\ f <= simulated[c]
        BY <2>2, <3>1, <3>3, <1>3, <1>5
      <4> QED
        BY <2>2, <4>1, <1>2, <1>5
    <3> QED
      BY <3>2, <3>3
  <2> QED
    BY <2>1, <2>2
<1>10. ErrorsAreKnown' /\ NobodyIsWarnedAbout' /\ OutstandingIsBounded'
  BY <1>1 DEF Inductive, ErrorsAreKnown, NobodyIsWarnedAbout, OutstandingIsBounded
<1>11. DesyncIsNoticed'
  <2>1. \A p \in Players : \A f \in DOMAIN recorded'[p] \ outstandingSyncFrames :
          f \in DOMAIN recorded[p] /\ recorded'[p][f] = recorded[p][f]
    BY <1>2, <1>5, <1>6
  <2>2. UNCHANGED <<linked, outstandingSyncFrames, desyncHasOccurred>>
    BY <1>1
  <2> QED
    BY <2>1, <2>2 DEF Inductive, DesyncIsNoticed
<1> QED
  BY <1>4, <1>7, <1>8, <1>9, <1>10, <1>11 DEF Inductive

(* The last error is forgotten, the desync is not. *)
LEMMA UnpauseKeeps ==
  ASSUME Inductive, Unpause
  PROVE  Inductive'
BY DEF Unpause, client, answers, Inductive, Shape, InStep, AnswersKept, Answered, Checksum,
       Prompt, ErrorsAreKnown, NobodyIsWarnedAbout, OutstandingIsBounded, DesyncIsNoticed

(* Somebody leaves. *)
LEMMA LeaveKeeps ==
  ASSUME Inductive, NEW c \in Players, Leave(c)
  PROVE  Inductive'
<1>1. /\ linked' = [linked EXCEPT ![c] = FALSE]
      /\ syncResponse' = [syncResponse EXCEPT ![c] = NoAnswers]
      /\ recorded' = [recorded EXCEPT ![c] = NoAnswers]
      /\ UNCHANGED <<serverFrameNum, outstandingSyncFrames, syncErrorFrame, syncWarningFrame,
                     desyncHasOccurred, lastFrameResponse, simulated, taken, drift, world>>
  BY DEF Leave, server
<1>2. ~linked'[c] /\ DOMAIN syncResponse'[c] = {} /\ DOMAIN recorded'[c] = {}
  BY <1>1 DEF Inductive, Shape, NoAnswers
<1>3. \A p \in Players \ {c} : /\ linked'[p] = linked[p] /\ recorded'[p] = recorded[p]
                               /\ syncResponse'[p] = syncResponse[p]
  BY <1>1 DEF Inductive, Shape
<1>4. Shape' /\ InStep'
  BY <1>1 DEF Inductive, Shape, InStep
<1>5. AnswersKept'
  BY <1>1, <1>2, <1>3 DEF Inductive, AnswersKept, Answered, Checksum
<1>6. Prompt'
  BY <1>1, <1>2, <1>3 DEF Inductive, Prompt, Answered
<1>7. ErrorsAreKnown' /\ NobodyIsWarnedAbout' /\ OutstandingIsBounded'
  BY <1>1 DEF Inductive, ErrorsAreKnown, NobodyIsWarnedAbout, OutstandingIsBounded
<1>8. DesyncIsNoticed'
  BY <1>1, <1>2, <1>3 DEF Inductive, DesyncIsNoticed
<1> QED
  BY <1>4, <1>5, <1>6, <1>7, <1>8 DEF Inductive

(* Somebody is back, with nothing answered. *)
LEMMA ReturnKeeps ==
  ASSUME Inductive, NEW c \in Players, Return(c)
  PROVE  Inductive'
<1> USE SyncAssumption
<1>1. /\ ~linked[c] /\ linked' = [linked EXCEPT ![c] = TRUE]
      /\ lastFrameResponse' = [lastFrameResponse EXCEPT ![c] = 0]
      /\ simulated' = [simulated EXCEPT ![c] = -1] /\ taken' = [taken EXCEPT ![c] = -1]
      /\ drift' = [drift EXCEPT ![c] = Never] /\ world' = [world EXCEPT ![c] = Right]
      /\ UNCHANGED <<serverFrameNum, outstandingSyncFrames, syncErrorFrame, syncWarningFrame,
                     desyncHasOccurred, syncResponse, recorded>>
  BY DEF Return, server
<1>2. /\ DOMAIN recorded[c] = {} /\ DOMAIN syncResponse[c] = {}
      /\ simulated'[c] = -1 /\ taken'[c] = -1 /\ lastFrameResponse'[c] = 0
  BY <1>1 DEF Inductive, Shape, AnswersKept
<1>3. \A p \in Players \ {c} :
        /\ linked'[p] = linked[p] /\ simulated'[p] = simulated[p] /\ taken'[p] = taken[p]
        /\ lastFrameResponse'[p] = lastFrameResponse[p]
        /\ drift'[p] = drift[p] /\ world'[p] = world[p]
  BY <1>1 DEF Inductive, Shape
<1>4. Shape'
  BY <1>1 DEF Inductive, Shape, Never
<1>5. InStep'
  BY <1>1, <1>2, <1>3 DEF Inductive, Shape, InStep
<1>6. AnswersKept'
  BY <1>1, <1>2, <1>3 DEF Inductive, AnswersKept, Answered, Checksum
<1>7. Prompt'
  <2>1. \A f \in outstandingSyncFrames : f \in Int /\ 0 <= f
    <3>1. outstandingSyncFrames \subseteq 0..serverFrameNum /\ serverFrameNum \in Int
      BY DEF Inductive, Shape
    <3> QED
      BY <3>1
  <2> QED
    BY <1>1, <1>2, <1>3, <2>1 DEF Inductive, Prompt, Answered
<1>8. ErrorsAreKnown' /\ NobodyIsWarnedAbout' /\ OutstandingIsBounded'
  BY <1>1 DEF Inductive, ErrorsAreKnown, NobodyIsWarnedAbout, OutstandingIsBounded
<1>9. DesyncIsNoticed'
  BY <1>1, <1>2, <1>3 DEF Inductive, DesyncIsNoticed
<1> QED
  BY <1>4, <1>5, <1>6, <1>7, <1>8, <1>9 DEF Inductive

(* Nothing happens. *)
LEMMA StutterKeeps ==
  ASSUME Inductive, UNCHANGED vars
  PROVE  Inductive'
BY DEF vars, server, client, answers, Inductive, Shape, InStep, AnswersKept, Answered, Checksum,
       Prompt, ErrorsAreKnown, NobodyIsWarnedAbout, OutstandingIsBounded, DesyncIsNoticed
--------------------------------------------------------------------------------
(* The beginning, and any step *)

LEMMA InitInductive == Init => Inductive
BY SyncAssumption DEF Init, NoAnswers, Never, Inductive, Shape, InStep, AnswersKept, Answered,
       Prompt, ErrorsAreKnown, NobodyIsWarnedAbout, OutstandingIsBounded, DesyncIsNoticed

LEMMA NextKeeps == Inductive /\ [Next]_vars => Inductive'
BY CreateNewFrameKeeps, SimFrameKeeps, ServerReadNetKeeps, UnpauseKeeps, LeaveKeeps,
   ReturnKeeps, StutterKeeps DEF Next

(* The inductive invariant: the tables of answers agree with what the      *)
(* clients computed, for exactly the frames that are outstanding.          *)
THEOREM SyncInductive == Spec => []Inductive
BY InitInductive, NextKeeps, PTL DEF Spec

(* Two clients whose answers to a closed frame differ: the desync is known, *)
(* whatever the order in which CheckSync got the answers.                  *)
THEOREM NoDesyncIsMissed == Spec => []DesyncIsNoticed
<1>1. Inductive => DesyncIsNoticed
  BY DEF Inductive
<1> QED
  BY <1>1, SyncInductive, PTL

(* The tables of answers hold nothing about frames that are closed, also   *)
(* when answers are handled twice.                                         *)
THEOREM AnswersAreCleanedUp == Spec => []NoAnswerOutlivesItsFrame
<1>1. Inductive => NoAnswerOutlivesItsFrame
  BY DEF Inductive, AnswersKept, NoAnswerOutlivesItsFrame
<1> QED
  BY <1>1, SyncInductive, PTL

(* SYNCCHECK_TIMEOUT bounds the frames that CheckSync goes through.        *)
THEOREM FramesAreClosed == Spec => []OutstandingIsBounded
<1>1. Inductive => OutstandingIsBounded
  BY DEF Inductive
<1> QED
  BY <1>1, SyncInductive, PTL

(* The warning about missing answers is never given to clients that answer *)
(* every frame.                                                            *)
THEOREM NoFalseWarning == Spec => []NobodyIsWarnedAbout
<1>1. Inductive => NobodyIsWarnedAbout
  BY DEF Inductive
<1> QED
  BY <1>1, SyncInductive, PTL

(* No desync is found by any step unless a simulation has drifted.         *)
LEMMA OnlyDriftIsFound ==
  Inductive /\ [Next]_vars =>
    [desyncHasOccurred' /\ ~desyncHasOccurred => \E p \in Players : drift[p] # Never]_vars
<1> SUFFICES ASSUME Inductive, Next, desyncHasOccurred', ~desyncHasOccurred,
                    \A p \in Players : drift[p] = Never
             PROVE  FALSE
  OBVIOUS
<1>1. PICK n \in 0..MaxNewFrames : CreateNewFrame(n)
  BY DEF Next, Unpause, SimFrame, ServerReadNet, Leave, Return, server
<1> DEFINE wrong == {f \in outstandingSyncFrames : Differing(f) # {}}
<1>2. desyncHasOccurred' = (desyncHasOccurred \/ Due(wrong, syncErrorFrame))
  BY <1>1 DEF CreateNewFrame, CheckSync
<1>3. wrong = {}
  BY NoDriftNoDifference
<1> QED
  BY <1>2, <1>3 DEF Due

(* The server never cries wolf: it takes two simulations that are apart.   *)
THEOREM NoFalseAlarm == Spec => OnlyDriftIsReported
BY SyncInductive, OnlyDriftIsFound, PTL DEF Spec, OnlyDriftIsReported
--------------------------------------------------------------------------------
(* The reports: a recursive function, and so an induction over the frames. *)

(* A set of naturals has a least element. *)
LEMMA LeastNat ==
  ASSUME NEW T, T \subseteq Nat, T # {}
  PROVE  \E x \in T : \A y \in T : x <= y
<1> DEFINE R == OpToRel(<, Nat)
<1>1. IsWellFoundedOn(R, Nat)
  BY NatLessThanWellFounded
<1>2. \A x, y \in Nat : y < x => <<y, x>> \in R
  BY DEF OpToRel
<1> HIDE DEF R
<1>3. PICK x \in T : \A y \in T : ~ (<<y, x>> \in R)
  BY <1>1, WFMin
<1>4. \A y \in T : ~ (y < x)
  BY <1>2, <1>3
<1>5. \A y \in T : x <= y
  BY <1>4
<1> QED
  BY <1>5

(* The report that is the last up to frame f, from those before it. *)
ReportAt(S, last, g, f) ==
  IF f = -1 THEN last
  ELSE IF f \in S /\ Apart(f, g[f - 1]) THEN f ELSE g[f - 1]

(* The reports can be gone through, frame by frame, as far as one wants. *)
LEMMA ReportsExist ==
  ASSUME NEW S, NEW last, NEW n \in Nat
  PROVE  \E g : g = [f \in -1..(n - 1) |-> ReportAt(S, last, g, f)]
<1> DEFINE Fine(k) == \E g : g = [f \in -1..(k - 1) |-> ReportAt(S, last, g, f)]
           T == {k \in Nat : ~Fine(k)}
<1>1. Fine(0)
  <2> DEFINE g == [f \in -1..(0 - 1) |-> last]
  <2>1. \A f \in -1..(0 - 1) : ReportAt(S, last, g, f) = last
    BY DEF ReportAt
  <2>2. g = [f \in -1..(0 - 1) |-> ReportAt(S, last, g, f)]
    BY <2>1
  <2> QED
    BY <2>2
<1>2. ASSUME NEW k \in Nat, Fine(k)
      PROVE  Fine(k + 1)
  <2>1. PICK g : g = [f \in -1..(k - 1) |-> ReportAt(S, last, g, f)]
    BY <1>2
  <2> DEFINE h == [f \in -1..k |-> IF f = k THEN ReportAt(S, last, g, f) ELSE g[f]]
  <2>2. \A f \in -1..(k - 1) : h[f] = g[f]
    OBVIOUS
  <2>3. ASSUME NEW f \in -1..k
        PROVE  h[f] = ReportAt(S, last, h, f)
    <3>1. f # -1 => f - 1 \in -1..(k - 1)
      OBVIOUS
    <3>2. ReportAt(S, last, h, f) = ReportAt(S, last, g, f)
      BY <2>2, <3>1 DEF ReportAt
    <3>3. CASE f = k
      BY <3>2, <3>3
    <3>4. CASE f # k
      <4>1. f \in -1..(k - 1)
        BY <3>4
      <4>2. g[f] = ReportAt(S, last, g, f)
        BY <2>1, <4>1
      <4> QED
        BY <2>2, <3>2, <4>1, <4>2
    <3> QED
      BY <3>3, <3>4
  <2>4. h = [f \in -1..k |-> h[f]]
    OBVIOUS
  <2> HIDE DEF h
  <2>5. h = [f \in -1..((k + 1) - 1) |-> ReportAt(S, last, h, f)]
    <3>1. (k + 1) - 1 = k
      OBVIOUS
    <3> QED
      BY <2>3, <2>4, <3>1
  <2> QED
    BY <2>5
<1> HIDE DEF Fine
<1>3. T = {}
  <2> SUFFICES ASSUME T # {}
               PROVE  FALSE
    OBVIOUS
  <2>1. PICK k \in T : \A y \in T : k <= y
    BY LeastNat
  <2>2. k \in Nat \ {0}
    BY <1>1
  <2>3. k - 1 \in Nat /\ k - 1 \notin T /\ (k - 1) + 1 = k
    BY <2>1, <2>2
  <2> QED
    BY <1>2, <2>3
<1>4. Fine(n)
  BY <1>3
<1> QED
  BY <1>4 DEF Fine

(* A report is the last one before or one of S.                            *)
LEMMA ReportsType ==
  ASSUME NEW S, NEW last, serverFrameNum \in Int, -1 <= serverFrameNum
  PROVE  Reports(S, last) \in [-1..serverFrameNum -> S \cup {last}]
<1> DEFINE upTo == Reports(S, last)
<1>1. upTo = [f \in -1..serverFrameNum |-> ReportAt(S, last, upTo, f)]
  <2>1. PICK n \in Nat : n - 1 = serverFrameNum
    <3>1. serverFrameNum + 1 \in Nat /\ (serverFrameNum + 1) - 1 = serverFrameNum
      OBVIOUS
    <3> QED
      BY <3>1
  <2>2. \E g : g = [f \in -1..(n - 1) |-> ReportAt(S, last, g, f)]
    BY ReportsExist
  <2>3. \E g : g = [f \in -1..serverFrameNum |-> ReportAt(S, last, g, f)]
    BY <2>1, <2>2
  <2> QED
    BY <2>3 DEF Reports, ReportAt
<1> HIDE DEF upTo
<1> DEFINE T == {k \in Nat : k - 1 \in -1..serverFrameNum /\ upTo[k - 1] \notin S \cup {last}}
<1>2. T = {}
  <2> SUFFICES ASSUME T # {}
               PROVE  FALSE
    OBVIOUS
  <2>1. PICK k \in T : \A y \in T : k <= y
    BY LeastNat
  <2>2. k \in Nat /\ k - 1 \in -1..serverFrameNum /\ upTo[k - 1] \notin S \cup {last}
    OBVIOUS
  <2>3. upTo[k - 1] = ReportAt(S, last, upTo, k - 1)
    BY <1>1, <2>2
  <2>4. k - 1 # -1
    BY <2>2, <2>3 DEF ReportAt
  <2>5. /\ k - 1 \in Nat /\ (k - 1) - 1 \in -1..serverFrameNum /\ k - 1 \notin T
    BY <2>1, <2>2, <2>4
  <2>6. upTo[(k - 1) - 1] \in S \cup {last}
    BY <2>5
  <2> QED
    BY <2>2, <2>3, <2>4, <2>6 DEF ReportAt
<1>3. ASSUME NEW f \in -1..serverFrameNum
      PROVE  upTo[f] \in S \cup {last}
  <2>1. f + 1 \in Nat /\ (f + 1) - 1 = f
    OBVIOUS
  <2> QED
    BY <1>2, <2>1
<1> QED
  BY <1>1, <1>3 DEF upTo
(* What is reported is a report of before or of a frame looked at.         *)
LEMMA LastReportType ==
  ASSUME NEW S, S \subseteq Frames, NEW last \in Frames,
         serverFrameNum \in Int, -1 <= serverFrameNum
  PROVE  LastReport(S, last) \in Frames
<1>1. Reports(S, last)[serverFrameNum] \in S \cup {last}
  BY ReportsType
<1> QED
  BY <1>1 DEF LastReport
--------------------------------------------------------------------------------
(* The types. *)

LEMMA InitTypes == Init => TypeOK
<1> SUFFICES ASSUME Init
             PROVE  TypeOK
  OBVIOUS
<1> USE SyncAssumption
<1>1. 0 \in Frames /\ -1 \in -1..MaxFrame /\ Never \in 0..Never
  BY DEF Frames, Never
<1>2. NoAnswers \in AnswerSets
  <2>1. NoAnswers \in [{} -> Checksums] /\ {} \in SUBSET Frames
    BY DEF NoAnswers
  <2> QED
    BY <2>1 DEF AnswerSets
<1>3. \A p \in Players : syncResponse[p] = NoAnswers /\ recorded[p] = NoAnswers
  BY DEF Init
<1>4. /\ linked \in [Players -> BOOLEAN] /\ desynced \in [Players -> BOOLEAN]
      /\ lastFrameResponse \in [Players -> Frames]
      /\ simulated \in [Players -> -1..MaxFrame] /\ taken \in [Players -> -1..MaxFrame]
      /\ drift \in [Players -> 0..Never] /\ world \in [Players -> Worlds \cup {Right}]
  BY <1>1 DEF Init
<1>5. /\ serverFrameNum \in -1..MaxFrame /\ outstandingSyncFrames \subseteq Frames
      /\ syncErrorFrame \in Frames /\ syncWarningFrame \in Frames
      /\ blamed \subseteq Players \X Frames
      /\ numReturns \in 0..MaxReturns
  BY <1>1 DEF Init
<1>6. desyncHasOccurred \in BOOLEAN
  BY DEF Init
<1> QED
  BY <1>2, <1>3, <1>4, <1>5, <1>6 DEF TypeOK

(* A table is one of answers if each of its frames and answers is. *)
LEMMA IsAnswerSet ==
  ASSUME NEW S, S \subseteq Frames, NEW t, t = [f \in S |-> t[f]],
         \A f \in S : t[f] \in Checksums
  PROVE  t \in AnswerSets
BY DEF AnswerSets

LEMMA AnswerSetFacts ==
  ASSUME NEW t \in AnswerSets
  PROVE  /\ DOMAIN t \subseteq Frames /\ t = [f \in DOMAIN t |-> t[f]]
         /\ \A f \in DOMAIN t : t[f] \in Checksums
BY DEF AnswerSets

LEMMA CreateNewFrameTypes ==
  ASSUME Inductive, Inductive', TypeOK, NEW n \in 0..MaxNewFrames, CreateNewFrame(n)
  PROVE  TypeOK'
<1> USE SyncAssumption
<1>1. /\ CheckSync
      /\ UNCHANGED <<client, lastFrameResponse, recorded>>
  BY DEF CreateNewFrame
<1>2. /\ serverFrameNum \in Int /\ -1 <= serverFrameNum
      /\ outstandingSyncFrames \subseteq Frames
  BY DEF Inductive, Shape, TypeOK
<1>3. /\ serverFrameNum' \in -1..MaxFrame /\ outstandingSyncFrames' \subseteq Frames
  BY DEF Inductive, Shape, Frames
<1>4. syncErrorFrame' \in Frames /\ syncWarningFrame' \in Frames
  <2> DEFINE warned == {f \in outstandingSyncFrames : NoSyncResponse(f) # {}}
             wrong == {f \in outstandingSyncFrames : Differing(f) # {}}
  <2>1. /\ syncErrorFrame' = LastReport(wrong, syncErrorFrame)
        /\ syncWarningFrame' = LastReport(warned, syncWarningFrame)
    BY <1>1 DEF CheckSync
  <2>2. warned \subseteq Frames /\ wrong \subseteq Frames
    BY <1>2
  <2> HIDE DEF warned, wrong
  <2> QED
    BY <1>2, <2>1, <2>2, LastReportType DEF TypeOK
<1>5. desyncHasOccurred' \in BOOLEAN
  BY <1>1 DEF CheckSync
<1>6. blamed' \subseteq Players \X Frames
  <2> DEFINE wrong == {f \in outstandingSyncFrames : Differing(f) # {}}
  <2>1. blamed' = blamed \cup UNION {{<<p, f>> : p \in Differing(f)} :
                                  f \in Reported(wrong, syncErrorFrame)}
    BY <1>1 DEF CheckSync
  <2>2. \A f : Differing(f) \subseteq Players
    BY DEF Differing, Voters
  <2>3. Reported(wrong, syncErrorFrame) \subseteq Frames
    BY <1>2 DEF Reported
  <2> HIDE DEF wrong
  <2> QED
    BY <2>1, <2>2, <2>3 DEF TypeOK
<1>7. desynced' \in [Players -> BOOLEAN]
  <2> DEFINE new(p) == LET fs == {f \in outstandingSyncFrames : p \in Voters(f)}
                      IN  IF fs = {} THEN desynced[p] ELSE p \in Differing(LastOf(fs))
  <2>1. desynced' = [p \in Players |-> new(p)]
    BY <1>1 DEF CheckSync
  <2>2. ASSUME NEW p \in Players
        PROVE  new(p) \in BOOLEAN
    <3> DEFINE fs == {f \in outstandingSyncFrames : p \in Voters(f)}
    <3>1. desynced[p] \in BOOLEAN
      BY DEF TypeOK
    <3>2. (p \in Differing(LastOf(fs))) \in BOOLEAN
      OBVIOUS
    <3>3. CASE fs = {}
      BY <3>1, <3>3
    <3>4. CASE fs # {}
      BY <3>2, <3>4
    <3> QED
      BY <3>3, <3>4
  <2> HIDE DEF new
  <2> QED
    BY <2>1, <2>2
<1>8. ASSUME NEW p \in Players
      PROVE  syncResponse'[p] \in AnswerSets /\ recorded'[p] \in AnswerSets
  <2> DEFINE open == {f \in outstandingSyncFrames : ~CompleteResponseSet(f)}
             left == open \cap DOMAIN syncResponse[p]
             t == syncResponse[p]
  <2>1. /\ linked[p] => syncResponse'[p] = Restrict(t, left)
        /\ ~linked[p] => syncResponse'[p] = t
    BY <1>1 DEF CheckSync
  <2>2. t \in AnswerSets /\ recorded'[p] = recorded[p] /\ recorded[p] \in AnswerSets
    BY <1>1 DEF TypeOK
  <2>3. left \subseteq Frames /\ \A f \in left : t[f] \in Checksums
    BY <2>2, AnswerSetFacts
  <2> HIDE DEF left, t
  <2>4. [f \in left |-> t[f]] \in AnswerSets
    BY <2>3 DEF AnswerSets
  <2> QED
    BY <2>1, <2>2, <2>4 DEF Restrict
<1>9. /\ linked' = linked /\ lastFrameResponse' = lastFrameResponse
      /\ simulated' = simulated /\ taken' = taken
      /\ drift' = drift /\ world' = world /\ numReturns' = numReturns
  BY <1>1 DEF client
<1> QED
  BY <1>3, <1>4, <1>5, <1>6, <1>7, <1>8, <1>9 DEF TypeOK

LEMMA SimFrameTypes ==
  ASSUME Inductive, Inductive', TypeOK,
         NEW c \in Players, NEW w \in Worlds \cup {Right}, SimFrame(c, w)
  PROVE  TypeOK'
<1> USE SyncAssumption
<1>1. /\ simulated' = [simulated EXCEPT ![c] = @ + 1]
      /\ UNCHANGED <<server, linked, taken, numReturns, answers, desynced>>
  BY DEF SimFrame
<1>2. simulated[c] + 1 \in 0..MaxFrame
  BY DEF SimFrame, TypeOK
<1>3. simulated' \in [Players -> -1..MaxFrame]
  BY <1>1, <1>2 DEF TypeOK
<1>4. drift' \in [Players -> 0..Never] /\ world' \in [Players -> Worlds \cup {Right}]
  <2>1. CASE w = Right
    BY <2>1 DEF SimFrame, TypeOK
  <2>2. CASE w # Right
    <3>1. /\ drift' = [drift EXCEPT ![c] = simulated[c] + 1]
          /\ world' = [world EXCEPT ![c] = w]
      BY <2>2 DEF SimFrame
    <3>2. simulated[c] + 1 \in 0..Never
      BY <1>2 DEF Never
    <3> QED
      BY <3>1, <3>2 DEF TypeOK
  <2> QED
    BY <2>1, <2>2
<1> QED
  BY <1>1, <1>3, <1>4 DEF TypeOK, server, answers

LEMMA ServerReadNetTypes ==
  ASSUME Inductive, TypeOK, NEW c \in Players,
         NEW upTo \in taken[c]..simulated[c], NEW ahead \in BOOLEAN, ServerReadNet(c, upTo, ahead)
  PROVE  TypeOK'
<1> USE SyncAssumption
<1> DEFINE reached == IF ahead THEN simulated[c] + 1 ELSE simulated[c]
           t == Record(c)
<1>1. /\ syncResponse' = [syncResponse EXCEPT ![c] = t]
      /\ recorded' = [recorded EXCEPT ![c] =
           [f \in DOMAIN t \cup DOMAIN recorded[c] |->
              IF f \in DOMAIN t THEN t[f] ELSE recorded[c][f]]]
      /\ lastFrameResponse' = [lastFrameResponse EXCEPT ![c] =
           IF reached > @ THEN reached ELSE @]
      /\ taken' = [taken EXCEPT ![c] = upTo]
      /\ UNCHANGED <<server, linked, simulated, drift, world, numReturns, desynced>>
      /\ ahead => KeyFrameAhead(c)
  BY DEF ServerReadNet
<1>2. taken' \in [Players -> -1..MaxFrame]
  BY <1>1 DEF TypeOK
<1>3. lastFrameResponse' \in [Players -> Frames]
  <2>1. simulated[c] \in -1..MaxFrame /\ serverFrameNum \in -1..MaxFrame
    BY DEF TypeOK
  <2>2. reached \in Int /\ reached <= MaxFrame
    BY <1>1, <2>1 DEF KeyFrameAhead
  <2>3. lastFrameResponse[c] \in Frames
    BY DEF TypeOK
  <2> HIDE DEF reached
  <2>4. (IF reached > lastFrameResponse[c] THEN reached ELSE lastFrameResponse[c]) \in Frames
    BY <2>2, <2>3 DEF Frames
  <2> QED
    BY <1>1, <2>4 DEF TypeOK
<1>4. t \in AnswerSets
  <2> DEFINE news == (taken[c] + 1)..simulated[c]
             kept == outstandingSyncFrames \cap news
             s == syncResponse[c]
  <2>1. t = [f \in kept \cup DOMAIN s |-> IF f \in kept THEN Checksum(c, f) ELSE s[f]]
    BY DEF Record
  <2>2. kept \subseteq Frames
    BY DEF TypeOK
  <2>3. s \in AnswerSets
    BY DEF TypeOK
  <2>4. \A f \in Frames : Checksum(c, f) \in Checksums
    BY DEF Checksum, Checksums, TypeOK
  <2>5. DOMAIN s \subseteq Frames /\ \A f \in DOMAIN s : s[f] \in Checksums
    BY <2>3, AnswerSetFacts
  <2> HIDE DEF kept, s
  <2>6. [f \in kept \cup DOMAIN s |-> IF f \in kept THEN Checksum(c, f) ELSE s[f]]
           \in [kept \cup DOMAIN s -> Checksums]
    BY <2>2, <2>4, <2>5
  <2> QED
    BY <2>1, <2>2, <2>5, <2>6 DEF AnswerSets
<1>5. recorded'[c] \in AnswerSets
  <2> DEFINE r == recorded[c]
  <2> HIDE DEF t
  <2>1. r \in AnswerSets /\ DOMAIN recorded = Players
    BY DEF TypeOK, Inductive, Shape
  <2>2. /\ DOMAIN r \subseteq Frames /\ \A f \in DOMAIN r : r[f] \in Checksums
        /\ DOMAIN t \subseteq Frames /\ \A f \in DOMAIN t : t[f] \in Checksums
    BY <1>4, <2>1, AnswerSetFacts
  <2>3. recorded'[c] = [f \in DOMAIN t \cup DOMAIN r |-> IF f \in DOMAIN t THEN t[f] ELSE r[f]]
    BY <1>1, <2>1
  <2> HIDE DEF r
  <2>4. [f \in DOMAIN t \cup DOMAIN r |-> IF f \in DOMAIN t THEN t[f] ELSE r[f]]
          \in [DOMAIN t \cup DOMAIN r -> Checksums]
    BY <2>2
  <2> QED
    BY <2>2, <2>3, <2>4 DEF AnswerSets
<1>6. \A p \in Players : syncResponse'[p] \in AnswerSets /\ recorded'[p] \in AnswerSets
  <2> HIDE DEF t
  <2>1. \A p \in Players :
          p # c => syncResponse'[p] = syncResponse[p] /\ recorded'[p] = recorded[p]
    BY <1>1 DEF Inductive, Shape
  <2>2. syncResponse'[c] = t
    BY <1>1 DEF Inductive, Shape
  <2> QED
    BY <1>4, <1>5, <2>1, <2>2 DEF TypeOK
<1> HIDE DEF t, reached
<1> QED
  BY <1>1, <1>2, <1>3, <1>6 DEF TypeOK, server

LEMMA LeaveTypes ==
  ASSUME Inductive, TypeOK, NEW c \in Players, Leave(c)
  PROVE  TypeOK'
<1>1. NoAnswers \in AnswerSets
  <2>1. NoAnswers \in [{} -> Checksums] /\ {} \in SUBSET Frames
    BY DEF NoAnswers
  <2> QED
    BY <2>1 DEF AnswerSets
<1>2. \A p \in Players : syncResponse'[p] \in AnswerSets /\ recorded'[p] \in AnswerSets
  BY <1>1 DEF Leave, Inductive, Shape, TypeOK
<1> QED
  BY <1>2 DEF Leave, TypeOK, server

LEMMA ReturnTypes ==
  ASSUME TypeOK, NEW c \in Players, Return(c)
  PROVE  TypeOK'
<1>1. 0 \in Frames /\ -1 \in -1..MaxFrame /\ Never \in 0..Never
  BY SyncAssumption DEF Frames, Never
<1>2. numReturns' \in 0..MaxReturns
  BY SyncAssumption DEF Return, TypeOK
<1> QED
  BY <1>1, <1>2 DEF Return, TypeOK, server

LEMMA NextTypes ==
  ASSUME Inductive, Inductive', TypeOK, [Next]_vars
  PROVE  TypeOK'
<1>1. CASE Unpause
  <2>1. 0 \in Frames
    BY SyncAssumption DEF Frames
  <2> QED
    BY <1>1, <2>1 DEF Unpause, TypeOK, client, answers
<1>2. CASE UNCHANGED vars
  BY <1>2 DEF vars, server, client, answers, TypeOK
<1> QED
  BY <1>1, <1>2, CreateNewFrameTypes, SimFrameTypes, ServerReadNetTypes, LeaveTypes, ReturnTypes
     DEF Next

(* The server's and the participants' fields keep their types. *)
THEOREM SyncTypes == Spec => []TypeOK
<1>1. Inductive /\ Inductive' /\ TypeOK /\ [Next]_vars => TypeOK'
  BY NextTypes
<1> QED
  BY <1>1, InitTypes, SyncInductive, PTL DEF Spec
================================================================================
