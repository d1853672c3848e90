---------------------------- MODULE DriverProofs ----------------------------
(***************************************************************************)
(* Four drivers whose devices go on by themselves: the cards of MMC, the   *)
(* embedded controller, the disks of USB mass storage and the SPI flash.   *)
(* What a call that succeeds has done, for every number of blocks, size of *)
(* an image or of a flash, number of units and of retries.  And storage    *)
(* that is memory, the firmware database: a table, for every size,         *)
(* alignment and set of names.                                             *)
(***************************************************************************)
EXTENDS MCStorage, StorageProofs, FiniteSetTheorems, SequenceTheorems, WellFoundedInduction, TLAPS

-----------------------------------------------------------------------------
(***************************************************************************)
(* MMC: the invariant.                                                     *)
(***************************************************************************)

\* The first n places of the buffer are exchanged with their own blocks.
Exchanged(n) == \A i \in 0 .. n - 1 : moved[i] = mmc_call.start + i

\* A transfer belongs to the command that the driver waits for, and has come to the
\* block that belongs to its place.
TransferIsOurs ==
  transfer # NoTransfer =>
    /\ mmc_pc \in {"response", "end"} /\ mmc_cmd = "data" /\ "end" \notin int_status
    /\ transfer.block = mmc_call.start + transfer.place
    /\ transfer.place + transfer.left = done_blocks + Cur
    /\ Exchanged(transfer.place)

\* The end of a transfer, if anybody still looks at it, is that of the driver's own.
EndIsOurs ==
  "end" \in int_status /\ mmc_pc # "idle" =>
    /\ mmc_pc \in {"response", "end"} /\ mmc_cmd = "data" /\ transfer = NoTransfer
    /\ Exchanged(done_blocks + Cur)

MmcInv ==
  /\ MmcTypeOK
  /\ mmc_call.start + mmc_call.count <= BlockCount
  /\ mmc_pc # "idle" =>
       done_blocks < mmc_call.count /\ mmc_result = "none" /\ Exchanged(done_blocks)
  /\ mmc_result = "ok" => Exchanged(mmc_call.count)
  /\ TransferIsOurs /\ EndIsOurs

LEMMA MmcNumbers ==
  ASSUME MmcInv
  PROVE  /\ BlockCount \in Nat \ {0} /\ BMax \in Nat \ {0}
         /\ mmc_call \in MmcCalls
         /\ mmc_call.start \in Nat /\ mmc_call.count \in Nat \ {0} /\ done_blocks \in Nat
         /\ mmc_call.start + mmc_call.count <= BlockCount
         /\ done_blocks < mmc_call.count =>
              Cur \in 1 .. BMax /\ done_blocks + Cur <= mmc_call.count
         /\ Cur \in Int
BY MmcAssumption DEF MmcInv, MmcTypeOK, MmcCalls, Cur

LEMMA MmcInitInv == MmcInit => MmcInv
<1> SUFFICES ASSUME MmcInit
             PROVE  MmcInv
  OBVIOUS
<1>1. BlockCount \in Nat \ {0}
  BY MmcAssumption
<1>2. MmcTypeOK
  BY <1>1 DEF MmcInit, MmcTypeOK, MmcPcs, MmcCalls, CardStates, NoBlock
<1>3. mmc_call.start + mmc_call.count <= BlockCount
  BY <1>1 DEF MmcInit
<1> QED BY <1>2, <1>3 DEF MmcInit, MmcInv, TransferIsOurs, EndIsOurs

\* A call begins with nothing under way.
LEMMA MmcCallInv ==
  ASSUME MmcInv, NEW c \in MmcCalls, MmcCall(c)
  PROVE  MmcInv'
<1>1. transfer = NoTransfer /\ transfer' = NoTransfer
  BY DEF MmcCall, MmcInv, TransferIsOurs
<1>2. /\ mmc_call' = c /\ done_blocks' = 0 /\ mmc_result' = "none" /\ mmc_cmd' = "blocklen" /\ retries' = 0
      /\ int_status' = {} /\ mmc_pc' = "inhibit"
      /\ UNCHANGED <<on_line, card, mmc_media>>
      /\ moved' = [i \in 0 .. BlockCount - 1 |-> NoBlock]
      /\ c.start + c.count <= BlockCount
  BY DEF MmcCall, Send, MmcInv, MmcTypeOK
<1>3. MmcTypeOK'
  BY <1>1, <1>2, MmcAssumption DEF MmcInv, MmcTypeOK, MmcPcs, NoBlock
<1>4. 0 < c.count
  BY DEF MmcCalls
<1>5. Exchanged(0)'
  BY <1>2 DEF Exchanged
<1> QED BY <1>1, <1>2, <1>3, <1>4, <1>5 DEF MmcInv, TransferIsOurs, EndIsOurs

\* The driver goes on, or back to its caller, with no transfer under way.
LEMMA CommandFailsInv ==
  ASSUME MmcInv, mmc_pc # "idle", CommandFails,
         UNCHANGED <<card, moved>>, UNCHANGED mmc_media,
         transfer' = NoTransfer, on_line' \in {on_line, "none"}
  PROVE  MmcInv'
<1>1. CASE /\ retries > 0 /\ Send("data", retries - 1)
           /\ UNCHANGED <<mmc_call, done_blocks, mmc_result>>
  <2>1. MmcTypeOK'
    BY <1>1 DEF MmcInv, MmcTypeOK, MmcPcs, Send
  <2> QED BY <1>1, <2>1 DEF MmcInv, Send, TransferIsOurs, EndIsOurs, Exchanged
<1>2. CASE MmcReturn("failed") /\ UNCHANGED int_status
  <2>1. MmcTypeOK'
    BY <1>2 DEF MmcInv, MmcTypeOK, MmcPcs, MmcReturn
  <2> QED BY <1>2, <2>1 DEF MmcInv, MmcReturn, TransferIsOurs, EndIsOurs, Exchanged
<1> QED BY <1>1, <1>2 DEF CommandFails

LEMMA IssueInv ==
  ASSUME MmcInv, Issue
  PROVE  MmcInv'
<1>1. /\ mmc_pc = "inhibit" /\ mmc_pc' = "response" /\ transfer = NoTransfer
      /\ on_line' = mmc_cmd
      /\ transfer' = IF mmc_cmd = "data"
                     THEN [place |-> done_blocks, block |-> mmc_call.start + done_blocks,
                           left |-> Cur, multi |-> Cur > 1, live |-> FALSE]
                     ELSE NoTransfer
      /\ UNCHANGED <<mmc_cmd, mmc_call, done_blocks, retries, mmc_result, int_status, card, mmc_media, moved>>
  BY DEF Issue, Inhibited
<1>2. "end" \notin int_status /\ done_blocks < mmc_call.count
  BY <1>1 DEF MmcInv, EndIsOurs
<1>3. MmcTypeOK'
  <2>1. /\ mmc_call.start + done_blocks \in 0 .. BlockCount
        /\ Cur \in 0 .. BMax /\ done_blocks \in 0 .. BlockCount
    BY <1>2, MmcNumbers DEF MmcInv
  <2>2. (Cur > 1) \in BOOLEAN
    OBVIOUS
  <2> HIDE DEF Cur
  <2> QED BY <1>1, <2>1, <2>2 DEF MmcInv, MmcTypeOK, MmcPcs
<1>4. Cur' = Cur
  BY <1>1 DEF Cur
<1>5. TransferIsOurs'
  <2> HIDE DEF Cur
  <2> QED BY <1>1, <1>2, <1>4 DEF MmcInv, TransferIsOurs, Exchanged
<1>6. EndIsOurs'
  BY <1>1, <1>2 DEF EndIsOurs
<1> QED BY <1>1, <1>3, <1>5, <1>6 DEF MmcInv, Exchanged

\* The next command with data, or the next try.
LEMMA SendDataInv ==
  ASSUME MmcInv, SendData, transfer = NoTransfer,
         UNCHANGED <<mmc_call, mmc_result, mmc_media, mmcOutside>>,
         mmc_result = "none", done_blocks' \in Nat, done_blocks' < mmc_call.count,
         Exchanged(done_blocks')
  PROVE  MmcInv'
<1>1. MmcTypeOK'
  BY MmcNumbers DEF MmcInv, MmcTypeOK, MmcPcs, SendData, Send, mmcOutside
<1> QED BY <1>1 DEF MmcInv, SendData, Send, mmcOutside, TransferIsOurs, EndIsOurs, Exchanged

LEMMA TransferDoneInv ==
  ASSUME MmcInv, TransferDone
  PROVE  MmcInv'
<1>1. "end" \in int_status /\ mmc_pc = "end"
  BY DEF TransferDone, EndsWell
<1>2. /\ transfer = NoTransfer /\ Exchanged(done_blocks + Cur)
      /\ mmc_result = "none" /\ done_blocks < mmc_call.count
  BY <1>1 DEF MmcInv, EndIsOurs
<1>3. done_blocks' = done_blocks + Cur /\ UNCHANGED <<mmc_media, mmcOutside>>
  BY DEF TransferDone
<1>4. done_blocks' \in Nat /\ done_blocks' <= mmc_call.count
  BY <1>2, <1>3, MmcNumbers
<1>5. CASE done_blocks' < mmc_call.count
  BY <1>2, <1>3, <1>4, <1>5, SendDataInv DEF TransferDone
<1>6. CASE ~(done_blocks' < mmc_call.count)
  <2>1. /\ mmc_pc' = "idle" /\ mmc_result' = "ok" /\ int_status' = {}
        /\ UNCHANGED <<mmc_cmd, mmc_call, retries>>
    BY <1>6 DEF TransferDone
  <2>2. done_blocks' = mmc_call.count
    BY <1>4, <1>6, MmcNumbers
  <2>3. Exchanged(mmc_call.count)'
    BY <1>2, <1>3, <2>1, <2>2 DEF Exchanged, mmcOutside
  <2>4. MmcTypeOK'
    BY <1>3, <2>1, <2>2, MmcNumbers DEF MmcInv, MmcTypeOK, MmcPcs, mmcOutside
  <2> QED BY <1>2, <1>3, <2>1, <2>3, <2>4 DEF MmcInv, TransferIsOurs, EndIsOurs, mmcOutside
<1> QED BY <1>5, <1>6

LEMMA MmcDriverInv ==
  ASSUME MmcInv, MmcDriver
  PROVE  MmcInv'
<1>1. ASSUME ResetFails, mmc_pc # "idle" PROVE MmcInv'
  BY <1>1, CommandFailsInv DEF ResetFails
<1>2. CASE InhibitTimeout
  <2>1. transfer = NoTransfer
    BY <1>2 DEF InhibitTimeout, MmcInv, TransferIsOurs
  <2> QED BY <1>2, <2>1, CommandFailsInv DEF InhibitTimeout, mmcOutside
<1>3. CASE BlocklenDone
  <2>1. transfer = NoTransfer /\ mmc_result = "none" /\ done_blocks \in Nat
        /\ done_blocks < mmc_call.count /\ Exchanged(done_blocks)
    BY <1>3, MmcNumbers DEF BlocklenDone, MmcInv, TransferIsOurs
  <2> QED BY <1>3, <2>1, SendDataInv DEF BlocklenDone
<1>4. CASE BlocklenFails
  <2>1. mmc_pc = "response" /\ transfer = NoTransfer
    BY <1>4 DEF BlocklenFails, MmcInv, TransferIsOurs
  <2>2. CASE MmcReturn("failed") /\ UNCHANGED <<int_status, mmc_media, mmcOutside>>
    <3>1. MmcTypeOK'
      BY <2>2 DEF MmcInv, MmcTypeOK, MmcPcs, MmcReturn, mmcOutside
    <3> QED BY <2>1, <2>2, <3>1 DEF MmcInv, MmcReturn, TransferIsOurs, EndIsOurs, Exchanged, mmcOutside
  <2> QED BY <1>1, <1>4, <2>1, <2>2 DEF BlocklenFails
<1>5. CASE ResponseSeen
  <2>1. /\ mmc_pc = "response" /\ mmc_cmd = "data" /\ mmc_pc' = "end"
        /\ int_status' = int_status \ {"response"}
        /\ UNCHANGED <<mmc_cmd, mmc_call, done_blocks, retries, mmc_result, mmc_media,
                       on_line, transfer, card, moved>>
    BY <1>5 DEF ResponseSeen, mmcOutside
  <2>2. MmcTypeOK'
    BY <2>1 DEF MmcInv, MmcTypeOK, MmcPcs
  <2>3. Cur' = Cur
    BY <2>1 DEF Cur
  <2> HIDE DEF Cur
  <2> QED BY <2>1, <2>2, <2>3 DEF MmcInv, TransferIsOurs, EndIsOurs, Exchanged
<1>6. CASE ResponseFails
  BY <1>1, <1>6 DEF ResponseFails
<1>7. CASE TransferFails
  BY <1>1, <1>7 DEF TransferFails
<1>8. CASE MmcUpdate
  <2>1. /\ mmc_pc = "idle" /\ transfer = NoTransfer /\ transfer' = NoTransfer
        /\ int_status' \in {{}, int_status} /\ on_line' \in {on_line, "none"}
        /\ card' \in {card, "tran", "fresh"} /\ mmc_media' \in BOOLEAN
        /\ UNCHANGED <<mmc_pc, mmc_cmd, mmc_call, done_blocks, retries, mmc_result, moved>>
    BY <1>8 DEF MmcUpdate, MmcInv, TransferIsOurs
  <2>2. MmcTypeOK'
    BY <2>1 DEF MmcInv, MmcTypeOK, CardStates
  <2> QED BY <2>1, <2>2 DEF MmcInv, TransferIsOurs, EndIsOurs, Exchanged
<1> QED BY <1>2, <1>3, <1>4, <1>5, <1>6, <1>7, <1>8, MmcCallInv, IssueInv, TransferDoneInv DEF MmcDriver

\* What the controller and the card do to a transfer but move its blocks.
LEMMA TransferGoesOn ==
  ASSUME MmcInv, UNCHANGED <<mmcDriver, moved>>, MmcTypeOK',
         \/ transfer' = transfer /\ int_status' \subseteq int_status \cup {"response", "error"}
         \/ /\ transfer # NoTransfer
            /\ transfer'.place = transfer.place /\ transfer'.block = transfer.block
            /\ transfer'.left = transfer.left
            /\ int_status' \subseteq int_status \cup {"response", "error"}
  PROVE  MmcInv'
<1>1. Cur' = Cur /\ ("end" \in int_status' => "end" \in int_status)
  BY DEF Cur, mmcDriver
<1>2. TransferIsOurs'
  <2> HIDE DEF Cur
  <2> QED BY <1>1 DEF MmcInv, TransferIsOurs, Exchanged, mmcDriver
<1>3. EndIsOurs'
  <2> HIDE DEF Cur
  <2> QED BY <1>1 DEF MmcInv, TransferIsOurs, EndIsOurs, Exchanged, mmcDriver
<1> QED BY <1>2, <1>3 DEF MmcInv, Exchanged, mmcDriver

LEMMA MoveBlockInv ==
  ASSUME MmcInv, MoveBlock
  PROVE  MmcInv'
<1> DEFINE t == transfer
<1>1. /\ t # NoTransfer /\ t.left > 0
      /\ moved' = [moved EXCEPT ![t.place] = t.block]
      /\ t' = [t EXCEPT !.place = @ + 1, !.block = @ + 1, !.left = @ - 1]
      /\ UNCHANGED <<mmc_pc, mmc_cmd, mmc_call, done_blocks, retries, mmc_result, mmc_media,
                     int_status, on_line, card>>
  BY DEF MoveBlock, Flowing, mmcDriver
<1>2. /\ t \in [place : 0 .. BlockCount, block : 0 .. BlockCount, left : 0 .. BMax,
                multi : BOOLEAN, live : BOOLEAN]
      /\ mmc_pc \in {"response", "end"} /\ mmc_cmd = "data" /\ "end" \notin int_status
      /\ t.block = mmc_call.start + t.place
      /\ t.place + t.left = done_blocks + Cur
      /\ Exchanged(t.place) /\ done_blocks < mmc_call.count /\ mmc_result = "none"
      /\ Exchanged(done_blocks)
  BY <1>1 DEF MmcInv, MmcTypeOK, TransferIsOurs
<1>3. Cur' = Cur
  BY <1>1 DEF Cur
<1> HIDE DEF Cur
<1>4. /\ t.place \in 0 .. BlockCount - 1 /\ t.block \in 0 .. BlockCount - 1
      /\ t.left - 1 \in 0 .. BMax /\ t.place + 1 \in 0 .. BlockCount /\ t.block + 1 \in 0 .. BlockCount
  BY <1>1, <1>2, MmcNumbers
<1>5. /\ t' \in [place : 0 .. BlockCount, block : 0 .. BlockCount, left : 0 .. BMax,
                 multi : BOOLEAN, live : BOOLEAN]
      /\ t'.place = t.place + 1 /\ t'.block = t.block + 1 /\ t'.left = t.left - 1
  BY <1>1, <1>2, <1>4
<1>6. moved \in [0 .. BlockCount - 1 -> -1 .. BlockCount - 1] /\ MmcTypeOK
  BY DEF MmcInv, MmcTypeOK
<1>7. moved' \in [0 .. BlockCount - 1 -> -1 .. BlockCount - 1]
  BY SMTT(40), <1>1, <1>4, <1>6, MmcNumbers
<1>8. MmcTypeOK'
  BY <1>1, <1>5, <1>6, <1>7 DEF MmcTypeOK
<1>9. /\ t'.block = mmc_call.start + t'.place /\ t'.place + t'.left = done_blocks + Cur
  BY <1>2, <1>4, <1>5, MmcNumbers
<1>10. \A i \in 0 .. t.place : moved'[i] = mmc_call.start + i
  BY SMTT(40), <1>1, <1>2, <1>4, <1>6 DEF Exchanged
<1>11. Exchanged(t.place)'
  <2>1. \A i \in 0 .. t'.place - 1 : i \in 0 .. t.place
    BY <1>4, <1>5, MmcNumbers
  <2> QED BY <1>1, <1>5, <1>10, <2>1 DEF Exchanged
<1>12. Exchanged(done_blocks)'
  BY <1>1, <1>2, <1>4, <1>6 DEF Exchanged
<1> QED BY <1>1, <1>2, <1>3, <1>5, <1>8, <1>9, <1>11, <1>12 DEF MmcInv, TransferIsOurs, EndIsOurs

LEMMA MmcStepInv == MmcInv /\ [MmcNext]_mmcVars => MmcInv'
<1> SUFFICES ASSUME MmcInv, [MmcNext]_mmcVars
             PROVE  MmcInv'
  OBVIOUS
<1>1. CASE Answer
  <2>1. /\ transfer' = transfer
        \/ /\ transfer # NoTransfer
           /\ transfer' = [transfer EXCEPT !.live = "error" \notin int_status']
    BY <1>1 DEF Answer
  <2>2. /\ UNCHANGED <<mmcDriver, moved>> /\ card' \in {card, "data", "tran"} /\ on_line' = "none"
        /\ int_status' \in {int_status \cup {"response"}, int_status \cup {"error"}}
    BY <1>1 DEF Answer
  <2>3. MmcTypeOK'
    BY <2>1, <2>2 DEF MmcInv, MmcTypeOK, mmcDriver, CardStates
  <2>4. \/ transfer' = transfer
        \/ /\ transfer # NoTransfer
           /\ transfer'.place = transfer.place /\ transfer'.block = transfer.block
           /\ transfer'.left = transfer.left
    BY <2>1 DEF MmcInv, MmcTypeOK
  <2> QED BY <2>2, <2>3, <2>4, TransferGoesOn
<1>2. CASE NoAnswer
  <2>1. MmcTypeOK'
    BY <1>2 DEF NoAnswer, MmcInv, MmcTypeOK, mmcDriver
  <2> QED BY <1>2, <2>1, TransferGoesOn DEF NoAnswer
<1>3. CASE EndTransfer
  <2>1. /\ transfer # NoTransfer /\ transfer.left = 0 /\ int_status' = int_status \cup {"end"}
        /\ transfer' = NoTransfer /\ card' = "tran"
        /\ UNCHANGED <<mmcDriver, on_line, moved>>
    BY <1>3 DEF EndTransfer, Flowing
  <2>2. MmcTypeOK'
    BY <2>1 DEF MmcInv, MmcTypeOK, mmcDriver, CardStates
  <2>3. Cur' = Cur
    BY <2>1 DEF Cur, mmcDriver
  <2>4. transfer.place = done_blocks + Cur
    BY <2>1, MmcNumbers DEF MmcInv, MmcTypeOK, TransferIsOurs
  <2> HIDE DEF Cur
  <2> QED BY <2>1, <2>2, <2>3, <2>4 DEF MmcInv, TransferIsOurs, EndIsOurs, Exchanged, mmcDriver
<1>4. CASE DataError
  <2>1. /\ transfer # NoTransfer /\ transfer' = [transfer EXCEPT !.live = FALSE]
        /\ int_status' = int_status \cup {"error"} /\ card' \in {card, "tran"}
        /\ UNCHANGED <<mmcDriver, on_line, moved>>
    BY <1>4 DEF DataError
  <2>2. MmcTypeOK'
    BY <2>1 DEF MmcInv, MmcTypeOK, mmcDriver, CardStates
  <2>3. /\ transfer'.place = transfer.place /\ transfer'.block = transfer.block
        /\ transfer'.left = transfer.left
    BY <2>1 DEF MmcInv, MmcTypeOK
  <2> QED BY <2>1, <2>2, <2>3, TransferGoesOn
<1>5. CASE CardMoves
  <2>1. MmcTypeOK'
    BY <1>5 DEF CardMoves, MmcInv, MmcTypeOK, mmcDriver, CardStates
  <2> QED BY <1>5, <2>1, TransferGoesOn DEF CardMoves
<1>6. CASE UNCHANGED mmcVars
  <2>1. UNCHANGED <<mmcDriver, moved>> /\ transfer' = transfer /\ int_status' = int_status /\ MmcTypeOK'
    BY <1>6 DEF mmcVars, mmcDriver, MmcInv, MmcTypeOK
  <2> QED BY <2>1, TransferGoesOn
<1> QED BY <1>1, <1>2, <1>3, <1>4, <1>5, <1>6, MmcDriverInv, MoveBlockInv DEF MmcNext

LEMMA MmcInvHolds == MmcSpec => []MmcInv
BY MmcInitInv, MmcStepInv, PTL DEF MmcSpec

-----------------------------------------------------------------------------
(***************************************************************************)
(* The embedded controller: the invariant.                                 *)
(***************************************************************************)

\* The region holds the first n bytes of the image and is erased from there on.
WholeUpTo(n) == rw = [a \in RwBytes |-> IF a < n THEN "image" ELSE "erased"]

UpdateCmds == {"region", "erase", "version", "info", "write"}

EcInv ==
  /\ EcTypeOK
  /\ ec_polls \in BOOLEAN /\ ec_busy \in BOOLEAN /\ image \in Nat
  /\ ec_cmd \in UpdateCmds \cup {"none", "protect", "reboot", "hello"}
  /\ ec_cmd \in UpdateCmds => ec_op = "update"
  /\ ec_cmd \in {"reboot", "hello"} => ec_op = "jump"
  /\ ec_op # "none" => ec_ret = <<"none", "none">>
  /\ ec_polls => ec_cmd = "erase" /\ (~ec_busy => WholeUpTo(0))
  /\ ec_cmd \in {"erase", "version", "info", "write"} /\ ~ec_polls => ~ec_busy
  /\ ec_cmd \in {"version", "info"} => WholeUpTo(0)
  /\ ec_cmd = "write" => off < image /\ WholeUpTo(off)
  /\ ec_ret = <<"update", "success">> => ~ec_busy /\ WholeUpTo(image)

LEMMA EcNumbers ==
  /\ RwSize \in Nat \ {0} /\ WriteBlock \in Nat \ {0} /\ Ver0Size \in Nat \ {0}
  /\ RebootTries \in Nat \ {0} /\ MaxData \in Nat
  /\ WriteBlock <= MaxData /\ Ver0Size <= MaxData
BY EcAssumption

\* The burst size is a multiple of the block size that fits.
LEMMA BurstFits ==
  ASSUME NEW block \in 1 .. MaxData + 1
  PROVE  (MaxData \div block) * block \in 0 .. MaxData
<1>1. MaxData \in Nat /\ block \in Nat \ {0}
  BY EcNumbers
<1>2. MaxData = (MaxData \div block) * block + (MaxData % block) /\ MaxData % block \in Nat
  BY <1>1
<1>3. (MaxData \div block) \in Nat
  BY <1>1
<1>4. (MaxData \div block) * block \in Nat
  BY <1>1, <1>3
<1> QED BY <1>1, <1>2, <1>4

LEMMA EcInitInv == EcInit => EcInv
<1> SUFFICES ASSUME EcInit
             PROVE  EcInv
  OBVIOUS
<1>1. EcTypeOK
  BY EcNumbers DEF EcInit, EcTypeOK
<1>2. /\ image \in Nat /\ ec_polls = FALSE /\ ec_busy = FALSE
      /\ ec_cmd = "none" /\ ec_ret # <<"update", "success">>
  BY DEF EcInit
<1> QED BY <1>1, <1>2 DEF EcInit, EcInv, UpdateCmds

\* The driver returns something else than that an update has succeeded.
LEMMA EcReturnsInv ==
  ASSUME EcInv, NEW code, EcReturns(code), ec_op = "update" => code # "success",
         UNCHANGED Unread, UNCHANGED image, ec_polls' = FALSE, ec_busy' \in BOOLEAN,
         rw' \in [RwBytes -> {"old", "erased", "image", "mixed"}]
  PROVE  EcInv'
BY DEF EcInv, EcTypeOK, EcReturns, Unread, UpdateCmds

\* ... or that it has.
LEMMA EcSucceedsInv ==
  ASSUME EcInv, ec_op = "update", EcReturns("success"), off' \in Nat, burst' \in 0 .. MaxData,
         UNCHANGED <<tests, image>>, ec_polls' = FALSE, ec_busy' = FALSE,
         WholeUpTo(image)'
  PROVE  EcInv'
<1>1. rw' \in [RwBytes -> {"old", "erased", "image", "mixed"}]
  BY DEF WholeUpTo, RwBytes
<1> QED BY <1>1 DEF EcInv, EcTypeOK, EcReturns, UpdateCmds

\* The driver sends another command.
LEMMA EcSendsInv ==
  ASSUME EcInv, NEW cmd \in UpdateCmds \cup {"hello"}, EcSends(cmd),
         ec_op = IF cmd = "hello" THEN "jump" ELSE "update",
         off' \in Nat, burst' \in 0 .. MaxData, tests' \in 0 .. RebootTries, image' = image,
         ec_polls' = FALSE, ec_busy' \in BOOLEAN,
         rw' \in [RwBytes -> {"old", "erased", "image", "mixed"}],
         cmd \in {"erase", "version", "info", "write"} => ec_busy' = FALSE,
         cmd \in {"version", "info"} => WholeUpTo(0)',
         cmd = "write" => off' < image /\ WholeUpTo(off)'
  PROVE  EcInv'
<1>1. /\ ec_op # "none" /\ ec_ret = <<"none", "none">> /\ ec_ret' = ec_ret /\ ec_op' = ec_op /\ ec_cmd' = cmd
  BY DEF EcSends, EcInv
<1>2. ec_cmd' # "none" /\ ec_ret' # <<"update", "success">>
  BY <1>1 DEF UpdateCmds
<1>3. EcTypeOK'
  BY <1>1, <1>2 DEF EcInv, EcTypeOK
<1> QED BY <1>1, <1>2, <1>3 DEF EcInv, UpdateCmds

\* cros_ec_flash_write() starts on an erased region.
LEMMA WritesInv ==
  ASSUME EcInv, ec_op = "update", NEW n \in 0 .. MaxData, Writes(n), WholeUpTo(0)',
         UNCHANGED image, ec_polls' = FALSE, ec_busy' = FALSE
  PROVE  EcInv'
<1>1. burst' = n /\ off' = 0 /\ UNCHANGED tests
  BY DEF Writes
<1>2. image \in Nat /\ tests \in 0 .. RebootTries
  BY DEF EcInv, EcTypeOK
<1>3. rw' \in [RwBytes -> {"old", "erased", "image", "mixed"}]
  BY DEF WholeUpTo, RwBytes
<1>4. CASE n = 0
  <2>1. EcReturns("unknown")
    BY <1>4 DEF Writes
  <2> QED BY <1>1, <1>2, <1>3, <2>1 DEF EcInv, EcTypeOK, EcReturns, UpdateCmds
<1>5. CASE n # 0 /\ image = 0
  <2>1. EcReturns("success")
    BY <1>5 DEF Writes
  <2>2. WholeUpTo(image)'
    BY <1>5 DEF WholeUpTo
  <2> QED BY <1>1, <2>1, <2>2, EcSucceedsInv
<1>6. CASE n # 0 /\ image # 0
  <2>1. EcSends("write")
    BY <1>6 DEF Writes
  <2>2. off' < image /\ WholeUpTo(off)'
    BY <1>1, <1>2, <1>6 DEF WholeUpTo
  <2> QED BY <1>1, <1>2, <1>3, <2>1, <2>2, EcSendsInv DEF UpdateCmds
<1> QED BY <1>4, <1>5, <1>6

\* What the EC has done when a command has been executed.
LEMMA EcExecutesFacts ==
  ASSUME EcInv, EcAccepts(ec_cmd), EcExecutes(ec_cmd)
  PROVE  /\ ec_busy' = FALSE
         /\ rw' \in [RwBytes -> {"old", "erased", "image", "mixed"}]
         /\ ec_cmd = "erase" => WholeUpTo(0)'
         /\ ec_cmd = "write" => rw' = Written
         /\ ec_cmd \notin {"erase", "write"} => rw' = rw
<1>1. ec_busy' = FALSE
  BY DEF EcAccepts, EcExecutes, EcInv
<1>2. /\ ec_cmd = "erase" => rw' = [a \in RwBytes |-> "erased"]
      /\ ec_cmd = "write" => rw' = Written
      /\ ec_cmd \notin {"erase", "write"} => rw' = rw
  BY DEF EcExecutes
<1>3. ec_cmd = "erase" => WholeUpTo(0)'
  <2>1. \A a \in RwBytes : ~(a < 0)
    BY EcNumbers DEF RwBytes
  <2> QED BY <1>2, <2>1 DEF WholeUpTo, RwBytes
<1>4. Written \in [RwBytes -> {"old", "erased", "image", "mixed"}]
  BY DEF EcInv, EcTypeOK, Written
<1> QED BY <1>1, <1>2, <1>3, <1>4 DEF EcInv, EcTypeOK

\* What follows a command, whatever has become of it: only an answer tells the driver
\* that it was executed.
LEMMA CommandEndsInv ==
  ASSUME EcInv, NEW ok \in BOOLEAN, CommandEnds(ok),
         ec_busy' \in BOOLEAN, rw' \in [RwBytes -> {"old", "erased", "image", "mixed"}],
         ok /\ ec_cmd \in {"region", "erase", "write"} => ec_busy' = FALSE,
         ec_cmd \in {"version", "info"} => ec_busy' = FALSE /\ rw' = rw,
         ok /\ ec_cmd = "erase" => WholeUpTo(0)',
         ok /\ ec_cmd = "write" => rw' = Written
  PROVE  EcInv'
<1>1. /\ UNCHANGED image /\ ec_polls' = FALSE /\ image \in Nat
      /\ off \in Nat /\ burst \in 0 .. MaxData /\ tests \in 0 .. RebootTries
      /\ ec_cmd \in UpdateCmds => ec_op = "update"
      /\ ec_cmd \in {"reboot", "hello"} => ec_op = "jump"
  BY DEF CommandEnds, EcInv, EcTypeOK
<1>2. CASE ProtectEnds(ok)
  <2>1. UNCHANGED Unread
    BY <1>2 DEF ProtectEnds
  <2>2. \/ EcReturns("reboot to RO") \/ EcReturns("unknown")
        \/ ec_op = "update" /\ EcSends("region")
        \/ ec_op = "protect" /\ EcReturns("success")
    BY <1>2 DEF ProtectEnds
  <2>3. CASE EcReturns("reboot to RO") \/ EcReturns("unknown") \/ (ec_op = "protect" /\ EcReturns("success"))
    BY <1>1, <2>1, <2>3, EcReturnsInv
  <2>4. CASE ec_op = "update" /\ EcSends("region")
    BY <1>1, <2>1, <2>4, EcSendsInv DEF UpdateCmds, Unread
  <2> QED BY <2>2, <2>3, <2>4
<1>3. CASE RegionEnds(ok)
  <2>1. UNCHANGED Unread /\ ec_op = "update" /\ ec_cmd = "region"
    BY <1>1, <1>3 DEF RegionEnds, UpdateCmds
  <2>2. CASE ok /\ EcSends("erase")
    BY <1>1, <2>1, <2>2, EcSendsInv DEF UpdateCmds, Unread
  <2>3. CASE EcReturns("unknown")
    BY <1>1, <2>1, <2>3, EcReturnsInv
  <2> QED BY <1>3, <2>2, <2>3 DEF RegionEnds
<1>4. CASE EraseEnds(ok)
  <2>1. UNCHANGED Unread /\ ec_op = "update" /\ ec_cmd = "erase"
    BY <1>1, <1>4 DEF EraseEnds, UpdateCmds
  <2>2. CASE ok /\ EcSends("version")
    BY <1>1, <2>1, <2>2, EcSendsInv DEF UpdateCmds, Unread
  <2>3. CASE EcReturns("unknown")
    BY <1>1, <2>1, <2>3, EcReturnsInv
  <2> QED BY <1>4, <2>2, <2>3 DEF EraseEnds
<1>5. ASSUME ec_cmd \in {"version", "info"}
      PROVE  ec_op = "update" /\ ec_busy' = FALSE /\ WholeUpTo(0)'
  BY <1>1, <1>5 DEF UpdateCmds, EcInv, WholeUpTo
<1>6. CASE VersionEnds(ok)
  <2>1. ec_cmd = "version"
    BY <1>6 DEF VersionEnds
  <2>2. CASE EcSends("info") /\ UNCHANGED Unread
    BY <1>1, <1>5, <2>1, <2>2, EcSendsInv DEF UpdateCmds, Unread
  <2>3. CASE Writes(Ver0Size)
    <3>1. Ver0Size \in 0 .. MaxData
      BY EcNumbers
    <3> QED BY <1>1, <1>5, <2>1, <2>3, <3>1, WritesInv
  <2> QED BY <1>6, <2>2, <2>3 DEF VersionEnds
<1>7. CASE InfoEnds(ok)
  <2>1. ec_cmd = "info"
    BY <1>7 DEF InfoEnds
  <2>2. PICK block \in 1 .. MaxData + 1 : Writes((MaxData \div block) * block)
    BY SMTT(40), <1>7, EcNumbers DEF InfoEnds
  <2>3. (MaxData \div block) * block \in 0 .. MaxData
    BY BurstFits
  <2> QED BY <1>1, <1>5, <2>1, <2>2, <2>3, WritesInv
<1>8. CASE WriteEnds(ok)
  <2>1. UNCHANGED <<burst, tests>> /\ ec_op = "update" /\ ec_cmd = "write" /\ off < image /\ WholeUpTo(off)
    BY <1>1, <1>8 DEF WriteEnds, UpdateCmds, EcInv
  <2>2. CASE ~ok
    <3>1. EcReturns("unknown") /\ UNCHANGED off
      BY <1>8, <2>2 DEF WriteEnds
    <3> QED BY <1>1, <2>1, <3>1, EcReturnsInv DEF Unread
  <2>3. ASSUME ok, NEW a \in RwBytes
        PROVE  rw'[a] = IF a < off + burst /\ a < image THEN "image" ELSE "erased"
    <3>1. a \in Nat
      BY EcNumbers DEF RwBytes
    <3>2. rw'[a] = IF a \notin off .. off + burst - 1 \/ a >= image THEN rw[a]
                   ELSE IF rw[a] = "erased" THEN "image" ELSE "mixed"
      BY <2>1, <2>3 DEF Written
    <3>3. rw[a] = IF a < off THEN "image" ELSE "erased"
      BY <2>1 DEF WholeUpTo
    <3> QED BY <1>1, <2>1, <3>1, <3>2, <3>3
  <2>4. CASE ok /\ off + burst < image
    <3>1. EcSends("write") /\ off' = off + burst
      BY <1>8, <2>4 DEF WriteEnds
    <3>2. \A a \in RwBytes : rw'[a] = IF a < off' THEN "image" ELSE "erased"
      <4>1. ASSUME NEW a \in RwBytes PROVE a < off + burst /\ a < image <=> a < off + burst
        BY <1>1, <2>4, EcNumbers DEF RwBytes
      <4> QED BY <2>3, <2>4, <3>1, <4>1
    <3>3. WholeUpTo(off)'
      BY <3>2 DEF WholeUpTo, RwBytes
    <3>4. off' \in Nat /\ off' < image
      BY <1>1, <2>4, <3>1
    <3> QED BY <1>1, <2>1, <2>4, <3>1, <3>3, <3>4, EcSendsInv DEF UpdateCmds
  <2>5. CASE ok /\ ~(off + burst < image)
    <3>1. EcReturns("success") /\ UNCHANGED off
      BY <1>8, <2>5 DEF WriteEnds
    <3>2. \A a \in RwBytes : rw'[a] = IF a < image THEN "image" ELSE "erased"
      <4>1. ASSUME NEW a \in RwBytes PROVE a < off + burst /\ a < image <=> a < image
        BY <1>1, <2>5, EcNumbers DEF RwBytes
      <4> QED BY <2>3, <2>5, <4>1
    <3>3. WholeUpTo(image)'
      BY <1>1, <3>2 DEF WholeUpTo, RwBytes
    <3> QED BY <1>1, <2>1, <2>5, <3>1, <3>3, EcSucceedsInv
  <2> QED BY <2>2, <2>4, <2>5
<1>9. CASE RebootEnds(ok)
  <2>1. ec_op = "jump" /\ UNCHANGED <<off, burst>>
    BY <1>1, <1>9 DEF RebootEnds
  <2>2. CASE EcSends("hello") /\ tests' = RebootTries
    <3>1. tests' \in 0 .. RebootTries
      BY <2>2, EcNumbers
    <3>2. off' \in Nat /\ burst' \in 0 .. MaxData
      BY <1>1, <2>1
    <3> QED BY <1>1, <2>1, <2>2, <3>1, <3>2, EcSendsInv DEF UpdateCmds
  <2>3. CASE EcReturns("unknown") /\ UNCHANGED tests
    BY <1>1, <2>1, <2>3, EcReturnsInv DEF Unread
  <2> QED BY <1>9, <2>2, <2>3 DEF RebootEnds
<1>10. CASE HelloEnds(ok)
  <2>1. ec_op = "jump" /\ UNCHANGED <<off, burst>> /\ tests' \in 0 .. RebootTries
    BY <1>1, <1>10, EcNumbers DEF HelloEnds
  <2>2. CASE EcSends("hello")
    BY <1>1, <2>1, <2>2, EcSendsInv DEF UpdateCmds
  <2>3. ASSUME NEW code, EcReturns(code) PROVE EcInv'
    BY <1>1, <2>1, <2>3 DEF EcInv, EcTypeOK, EcReturns, UpdateCmds
  <2> QED BY <1>10, <2>2, <2>3 DEF HelloEnds
<1> QED BY <1>2, <1>3, <1>4, <1>6, <1>7, <1>8, <1>9, <1>10 DEF CommandEnds

LEMMA EcStepInv == EcInv /\ [EcNext]_ecVars => EcInv'
<1> SUFFICES ASSUME EcInv, [EcNext]_ecVars
             PROVE  EcInv'
  OBVIOUS
<1>1. rw \in [RwBytes -> {"old", "erased", "image", "mixed"}] /\ ec_busy \in BOOLEAN
  BY DEF EcInv, EcTypeOK
<1>2. CASE SendCommand
  <2>1. ASSUME NEW ok \in BOOLEAN, EcAccepts(ec_cmd), EcExecutes(ec_cmd), CommandEnds(ok)
        PROVE  EcInv'
    BY <2>1, EcExecutesFacts, CommandEndsInv
  <2>2. CASE CommandEnds(FALSE) /\ UNCHANGED ecState
    <3>1. ec_cmd \in {"version", "info"} => ~ec_busy
      BY <1>2 DEF SendCommand, EcInv
    <3>2. rw' = rw /\ ec_busy' = ec_busy
      BY <2>2 DEF ecState
    <3> QED BY <1>1, <2>2, <3>1, <3>2, CommandEndsInv
  <2> QED BY <1>2, <2>1, <2>2 DEF SendCommand
<1>3. CASE PollEnds
  <2>1. ec_polls /\ ec_cmd = "erase" /\ (~ec_busy => WholeUpTo(0)) /\ rw' = rw /\ ec_busy' = ec_busy
    BY <1>3 DEF PollEnds, EcInv, ecState
  <2>2. ~ec_busy => WholeUpTo(0)'
    BY <2>1 DEF WholeUpTo
  <2> QED BY <1>1, <1>3, <2>1, <2>2, CommandEndsInv DEF PollEnds
<1>4. CASE InProgress
  <2>1. EcTypeOK'
    BY <1>4 DEF InProgress, EcInv, EcTypeOK, Unread
  <2> QED BY <1>4, <2>1 DEF InProgress, EcInv, UpdateCmds, Unread, WholeUpTo
<1>5. CASE TestsUsedUp
  BY <1>5 DEF TestsUsedUp, EcReturns, EcInv, EcTypeOK, UpdateCmds, ecState, Unread
<1>6. CASE EcFinishes
  <2>1. rw' = [a \in RwBytes |-> "erased"] /\ ec_busy /\ ec_busy' = FALSE
        /\ UNCHANGED <<ec_op, ec_cmd, ec_polls, image, off, burst, tests, ec_ret>>
    BY <1>6 DEF EcFinishes, hostVars
  <2>2. WholeUpTo(0)'
    <3>1. \A a \in RwBytes : ~(a < 0)
      BY EcNumbers DEF RwBytes
    <3> QED BY <2>1, <3>1 DEF WholeUpTo, RwBytes
  <2>3. EcTypeOK'
    BY <2>1 DEF EcInv, EcTypeOK
  <2> QED BY <2>1, <2>2, <2>3 DEF EcInv, UpdateCmds
<1>7. CASE EcJumps
  BY <1>7 DEF EcJumps, hostVars, EcInv, EcTypeOK, UpdateCmds, WholeUpTo
<1>8. CASE Restart
  <2>1. EcTypeOK'
    BY <1>8, EcNumbers DEF Restart, EcInv, EcTypeOK
  <2> QED BY <1>8, <2>1 DEF Restart, EcInv, UpdateCmds
<1>9. ASSUME NEW op \in {"update", "protect", "jump"}, NEW first, NEW n \in Nat, EcCall(op, first, n),
             first = IF op = "jump" THEN "reboot" ELSE "protect"
      PROVE  EcInv'
  <2>1. EcTypeOK'
    BY <1>9 DEF EcCall, EcInv, EcTypeOK, ecState, Unread
  <2>2. ec_polls' = FALSE
    BY <1>9 DEF EcCall, EcInv, EcTypeOK
  <2> QED BY <1>9, <2>1, <2>2 DEF EcCall, EcInv, UpdateCmds, ecState, Unread
<1>10. CASE UNCHANGED ecVars
  BY <1>10 DEF ecVars, hostVars, ecState, EcInv, EcTypeOK, UpdateCmds, WholeUpTo
<1>11. ImageSizes \subseteq Nat
  BY EcAssumption
<1> QED BY <1>2, <1>3, <1>4, <1>5, <1>6, <1>7, <1>8, <1>9, <1>10, <1>11 DEF EcNext

LEMMA EcInvHolds == EcSpec => []EcInv
BY EcInitInv, EcStepInv, PTL DEF EcSpec


-----------------------------------------------------------------------------
(***************************************************************************)
(* USB mass storage: the invariant.                                        *)
(***************************************************************************)

Devs == [attached : {TRUE}, lun : Luns, ready : BOOLEAN, created : BOOLEAN, data : Drives \cup {0}]

\* Which part of which call runs.
TaskOK ==
  /\ vb = "none" <=> task = "none"
  /\ vb \in {"read", "write"} <=> task = "rw"
  /\ vb = "info" => task \in {"poll hub", "attach", "init", "poll device", "poll", "done"}
  /\ task = "rw" => msc_cmd = vb /\ msc_pc # "none"
  /\ task \in {"init", "poll"} => msc_cmd \in {"tur", "spin", "capacity"} /\ msc_pc # "none"
  /\ task \notin {"rw", "init", "poll"} => msc_cmd = "none" /\ msc_pc = "none"
  /\ msc_pc = "none" => ~sensing
  /\ sensing \in BOOLEAN /\ was_ready \in BOOLEAN

\* The list has the disk of the device, if it has one that is ready: was ready, while it
\* is being polled.
ListOK ==
  /\ disks = IF dev # NoDev /\ (IF task \in {"init", "poll"} THEN was_ready ELSE dev.ready)
             THEN {dev.data} ELSE {}
  /\ disks # {} => dev.created
  /\ task = "attach" => dev = NoDev

\* The chunks before this one are carried out, and this one when its command has
\* succeeded.
CarriedOK ==
  /\ chunk \in AllChunks /\ carried \subseteq AllChunks
  /\ result \in {"none", "read", "write", "fail"}
  /\ result \in {"read", "write"} => carried = AllChunks
  /\ task = "rw" =>
       /\ result = "none" /\ 1 .. chunk - 1 \subseteq carried
       /\ msc_pc = "ok" /\ ~sensing => chunk \in carried

\* Nothing is said of what follows once freed memory has been used.
DisksInv ==
  /\ MscTypeOK /\ dev \in Devs \cup {NoDev} /\ TaskOK
  /\ msc_pc \notin {"none", "detached"} => dev # NoDev
  /\ msc_pc = "detached" => dev = NoDev
  /\ broken = "no" => ListOK
  /\ CarriedOK
LEMMA LunsAre ==
  /\ Cardinality(Luns) \in Nat \ {0} /\ 0 \in Luns
  /\ \A l \in Luns : (l + 1) % Cardinality(Luns) \in Luns
<1> DEFINE n == Cardinality(Luns)
<1>1. n \in Nat /\ Luns # {} /\ Luns = 0 .. n - 1
  BY UsbMscAssumption, FS_CardinalityType
<1> HIDE DEF n
<1>2. n # 0
  BY <1>1
<1>3. \A l \in Luns : (l + 1) % n \in 0 .. n - 1
  BY <1>1, <1>2
<1> QED BY <1>1, <1>2, <1>3 DEF n

LEMMA NoDevIsNone == NoDev \notin Devs
BY DEF NoDev, Devs

LEMMA NewDriveIs ==
  ASSUME disks = {}
  PROVE  NewDrive \in Drives
<1>1. \E d \in Drives \ (disks \cup {handle, dev.data}) : TRUE
  <2>1. {1, 2, 3} \subseteq Drives
    BY DEF Drives
  <2>2. \E d \in {1, 2, 3} : d # handle /\ d # dev.data
    OBVIOUS
  <2> QED BY <2>1, <2>2
<1> QED BY <1>1 DEF NewDrive

\* The device that is removed had its disk in the list, or freed memory is used.
LEMMA RemoveDiskEmpties ==
  ASSUME DisksInv, broken = "no", dev # NoDev, RemoveDisk
  PROVE  disks' \subseteq Drives /\ (broken' = "no" => disks' = {})
<1>1. disks \in {{}, {dev.data}} /\ (disks # {} => dev.created) /\ disks \subseteq Drives
  BY DEF DisksInv, ListOK, MscTypeOK
<1> QED BY <1>1 DEF RemoveDisk

LEMMA MscInitInv == MscInit => DisksInv
<1> SUFFICES ASSUME MscInit
             PROVE  DisksInv
  OBVIOUS
<1>1. MscTypeOK /\ dev \in Devs \cup {NoDev}
  BY DEF MscInit, MscTypeOK
<1>2. TaskOK /\ ListOK
  BY DEF MscInit, TaskOK, ListOK
<1>3. CarriedOK
  BY UsbMscAssumption DEF MscInit, CarriedOK, AllChunks
<1> QED BY <1>1, <1>2, <1>3 DEF MscInit, DisksInv

\* A command goes on.
LEMMA GoesOnInv ==
  ASSUME DisksInv, broken = "no", msc_pc \in {"cbw", "data", "csw", "csw again"},
         msc_pc' \in {"cbw", "data", "csw", "csw again", "reset", "ok", "fail"}, sensing' \in BOOLEAN,
         UNCHANGED <<handle, vb, task, msc_cmd, dev, disks, broken, was_ready, chunk, result>>,
         carried' \in {carried, carried \cup {chunk}},
         carried' # carried => task = "rw",
         task = "rw" /\ msc_pc' = "ok" /\ ~sensing' => chunk \in carried'
  PROVE  DisksInv'
<1>1. MscTypeOK' /\ TaskOK' /\ ListOK' /\ (dev \in Devs \cup {NoDev})' /\ dev' # NoDev
  BY DEF DisksInv, MscTypeOK, TaskOK, ListOK
<1>2. CarriedOK'
  BY DEF DisksInv, CarriedOK
<1> QED BY <1>1, <1>2 DEF DisksInv

LEMMA CswArrivesInv ==
  ASSUME DisksInv, broken = "no", CswArrives, UNCHANGED <<disks, broken, extVars, handle, vb, task>>
  PROVE  DisksInv'
<1> DEFINE csw == Head(pipe)
           v == Verdict(csw)
<1>1. /\ msc_pc \in {"csw", "csw again"} /\ Carries(csw)
      /\ IF v = "sense" THEN sensing' = TRUE /\ msc_pc' = "cbw" ELSE msc_pc' = v /\ UNCHANGED sensing
      /\ UNCHANGED <<msc_cmd, dev, tries, was_ready, chunk, result>>
  BY DEF CswArrives
<1>2. v \in {"reset", "ok", "fail", "sense"}
  BY DEF Verdict
<1>3. carried' \in {carried, carried \cup {chunk}} /\ (carried' # carried => msc_cmd \in {"read", "write"})
  BY <1>1 DEF Carries
<1>4. msc_cmd \in {"read", "write"} => task = "rw"
  BY DEF DisksInv, TaskOK
<1>5. task = "rw" => msc_cmd \in {"read", "write"}
  BY DEF DisksInv, TaskOK
<1>6. ASSUME v = "ok", ~sensing, msc_cmd \in {"read", "write"}
      PROVE  carried' = carried \cup {chunk}
  <2>1. Current = msc_cmd
    BY <1>6 DEF Current
  <2>2. RightTag(csw) /\ csw.status = 0 /\ ~csw.residue
    BY <1>6, <2>1 DEF Verdict
  <2> QED BY <1>1, <1>6, <2>2 DEF Carries, RightTag
<1>7. sensing \in BOOLEAN
  BY DEF DisksInv, TaskOK
<1> HIDE DEF v, csw
<1>8. task = "rw" /\ msc_pc' = "ok" /\ ~sensing' => chunk \in carried'
  BY <1>1, <1>5, <1>6
<1> QED BY <1>1, <1>2, <1>3, <1>4, <1>7, <1>8, GoesOnInv

LEMMA ResetTransportInv ==
  ASSUME DisksInv, broken = "no", ResetTransport, UNCHANGED <<extVars, handle, vb, task>>
  PROVE  DisksInv'
<1>1. /\ msc_pc = "reset" /\ dev # NoDev
      /\ UNCHANGED <<handle, vb, task, msc_cmd, sensing, tries, was_ready, chunk, carried, result>>
  BY DEF ResetTransport, DisksInv, ioVars
<1>2. CASE msc_pc' = "fail" /\ UNCHANGED <<dev, disks, broken>>
  BY <1>1, <1>2 DEF DisksInv, MscTypeOK, TaskOK, ListOK, CarriedOK
<1>3. CASE Detach /\ msc_pc' = "detached"
  <2>1. dev' = NoDev /\ disks' \subseteq Drives /\ (broken' = "no" => disks' = {})
    BY <1>1, <1>3, RemoveDiskEmpties DEF Detach
  <2> QED BY <1>1, <1>3, <2>1 DEF DisksInv, MscTypeOK, TaskOK, ListOK, CarriedOK
<1> QED BY <1>2, <1>3 DEF ResetTransport

LEMMA SensedInv ==
  ASSUME DisksInv, broken = "no", Sensed, UNCHANGED <<disks, broken, extVars, handle, vb, task>>
  PROVE  DisksInv'
<1>1. /\ sensing /\ sensing' = FALSE /\ msc_pc \in {"ok", "fail", "detached"}
      /\ UNCHANGED <<handle, vb, task, msc_cmd, disks, broken, tries, was_ready, chunk, carried, result>>
  BY DEF Sensed, ioVars
<1>2. CASE msc_pc' = (IF msc_pc = "detached" THEN "detached" ELSE "fail") /\ UNCHANGED dev
  BY <1>1, <1>2 DEF DisksInv, MscTypeOK, TaskOK, ListOK, CarriedOK
<1>3. CASE msc_cmd = "tur" /\ msc_pc = "ok" /\ dev' = [dev EXCEPT !.ready = FALSE] /\ UNCHANGED msc_pc
  <2>1. dev \in Devs /\ task \in {"init", "poll"}
    BY <1>3 DEF DisksInv, TaskOK
  <2>2. dev' \in Devs /\ dev'.data = dev.data /\ dev'.created = dev.created
    BY <1>3, <2>1 DEF Devs
  <2>3. dev # NoDev /\ dev' # NoDev
    BY <2>1, <2>2, NoDevIsNone
  <2>4. MscTypeOK'
    BY <1>1, <1>3, <2>2 DEF DisksInv, MscTypeOK, Devs
  <2> QED BY <1>1, <1>3, <2>1, <2>2, <2>3, <2>4 DEF DisksInv, TaskOK, ListOK, CarriedOK
<1> QED BY <1>1, <1>2, <1>3 DEF Sensed

LEMMA ExecuteCommandInv ==
  ASSUME DisksInv, broken = "no", ExecuteCommand
  PROVE  DisksInv'
<1>1. CASE (SendCbw \/ DataIn \/ DataOut \/ CswFails) /\ UNCHANGED <<disks, broken>>
  <2>1. /\ msc_pc \in {"cbw", "data", "csw", "csw again"}
        /\ msc_pc' \in {"data", "csw", "csw again", "reset"}
        /\ UNCHANGED <<handle, vb, task, msc_cmd, sensing, dev, disks, broken, was_ready,
                       chunk, result, carried>>
    BY <1>1 DEF ExecuteCommand, SendCbw, DataIn, DataOut, CswFails, ioVars
  <2>2. sensing \in BOOLEAN
    BY DEF DisksInv, TaskOK
  <2> QED BY <2>1, <2>2, GoesOnInv
<1> QED BY <1>1, ResetTransportInv, CswArrivesInv, SensedInv DEF ExecuteCommand

\* usb_msc_init() and usb_msc_poll() go on with another command.
LEMMA NextCommandInv ==
  ASSUME DisksInv, broken = "no", task \in {"init", "poll"}, msc_pc \in {"ok", "fail"},
         NEW kind \in {"tur", "spin", "capacity"}, Sends(kind),
         UNCHANGED <<dev, disks, broken, task, handle, vb, was_ready, ioVars>>
  PROVE  DisksInv'
BY DEF Sends, ioVars, DisksInv, MscTypeOK, TaskOK, ListOK, CarriedOK

\* ... or are done, and the list follows the device.
LEMMA FinishedInv ==
  ASSUME DisksInv, broken = "no", task \in {"init", "poll"}, msc_pc \in {"ok", "fail"},
         NEW ready \in BOOLEAN, Finished(ready),
         UNCHANGED <<handle, vb, was_ready, ioVars>>
  PROVE  DisksInv'
<1>1. dev \in Devs /\ dev # NoDev /\ was_ready \in BOOLEAN /\ ListOK /\ vb = "info"
      /\ disks = IF was_ready THEN {dev.data} ELSE {}
  BY NoDevIsNone DEF DisksInv, TaskOK, ListOK, MscTypeOK
<1>2. /\ dev' \in Devs /\ disks' \subseteq Drives
      /\ broken' = "no" => /\ disks' = IF dev'.ready THEN {dev'.data} ELSE {}
                           /\ disks' # {} => dev'.created
  <2>1. CASE ready /\ ~was_ready
    <3>1. dev' = [dev EXCEPT !.created = TRUE, !.data = NewDrive, !.ready = TRUE]
          /\ disks' = disks \cup {NewDrive} /\ NewDrive \in Drives /\ disks = {}
      BY <1>1, <2>1, NewDriveIs DEF Finished, CreateDisk
    <3>2. dev' \in Devs /\ dev'.ready /\ dev'.created /\ dev'.data = NewDrive
      BY <1>1, <3>1 DEF Devs
    <3> QED BY <3>1, <3>2
  <2>2. CASE ~ready /\ was_ready
    <3>1. RemoveDisk /\ dev' = [dev EXCEPT !.ready = FALSE]
      BY <2>2 DEF Finished
    <3>2. disks' \subseteq Drives /\ (broken' = "no" => disks' = {})
      BY <1>1, <3>1, RemoveDiskEmpties
    <3>3. dev' \in Devs /\ ~dev'.ready
      BY <1>1, <3>1 DEF Devs
    <3> QED BY <3>2, <3>3
  <2>3. CASE ~ready /\ ~was_ready /\ task = "poll"
    <3>1. dev' = [dev EXCEPT !.ready = FALSE, !.lun = (@ + 1) % Cardinality(Luns)] /\ disks' = disks
      BY <2>3 DEF Finished
    <3>2. dev' \in Devs /\ ~dev'.ready
      BY <1>1, <3>1, LunsAre DEF Devs
    <3> QED BY <1>1, <2>3, <3>1, <3>2
  <2>4. CASE ~(ready /\ ~was_ready) /\ ~(~ready /\ was_ready) /\ ~(~ready /\ ~was_ready /\ task = "poll")
    <3>1. dev' = [dev EXCEPT !.ready = ready] /\ disks' = disks
      BY <2>4 DEF Finished
    <3>2. dev' \in Devs /\ dev'.ready = ready /\ dev'.created = dev.created /\ dev'.data = dev.data
      BY <1>1, <3>1 DEF Devs
    <3>3. disks \subseteq Drives /\ (ready <=> was_ready)
      BY <1>1, <2>4 DEF DisksInv, MscTypeOK
    <3> QED BY <1>1, <3>1, <3>2, <3>3 DEF ListOK
  <2> QED BY <1>1, <2>1, <2>2, <2>3, <2>4
<1>3. dev' # NoDev
  BY <1>2, NoDevIsNone
<1>4. /\ task' \in {"poll device", "done"} /\ msc_cmd' = "none" /\ msc_pc' = "none" /\ sensing' = FALSE
  BY DEF Finished, Idle
<1>5. MscTypeOK'
  BY <1>2, <1>4 DEF DisksInv, MscTypeOK, Devs
<1>6. TaskOK' /\ CarriedOK'
  BY <1>1, <1>4 DEF DisksInv, TaskOK, CarriedOK, ioVars
<1>7. broken' = "no" => ListOK'
  BY <1>2, <1>3, <1>4 DEF ListOK
<1> QED BY <1>2, <1>3, <1>4, <1>5, <1>6, <1>7 DEF DisksInv

LEMMA ReadyEndsInv ==
  ASSUME DisksInv, broken = "no", ReadyEnds
  PROVE  DisksInv'
<1>1. task \in {"init", "poll"} /\ UNCHANGED <<handle, vb, was_ready, ioVars>>
  BY DEF ReadyEnds
<1>2. CASE TurEnds
  <2>1. msc_pc \in {"ok", "fail"}
    BY <1>2 DEF TurEnds
  <2> QED BY <1>1, <1>2, <2>1, NextCommandInv, FinishedInv DEF TurEnds
<1>3. CASE SpinEnds
  <2>1. msc_pc \in {"ok", "fail"}
    BY <1>3 DEF SpinEnds, Ended
  <2> QED BY <1>1, <1>3, <2>1, NextCommandInv DEF SpinEnds
<1>4. CASE CapacityEnds
  <2>1. msc_pc \in {"ok", "fail"}
    BY <1>4 DEF CapacityEnds, Ended
  <2>2. dev.ready \in BOOLEAN
    BY <2>1 DEF DisksInv, Devs
  <2> QED BY <1>1, <1>4, <2>1, <2>2, NextCommandInv, FinishedInv DEF CapacityEnds
<1>5. CASE Lost
  BY <1>1, <1>5 DEF Lost, Idle, ioVars, DisksInv, MscTypeOK, TaskOK, ListOK, CarriedOK
<1> QED BY <1>2, <1>3, <1>4, <1>5 DEF ReadyEnds

LEMMA PollHubInv ==
  ASSUME DisksInv, broken = "no", PollHub
  PROVE  DisksInv'
<1>1. /\ task = "poll hub" /\ task' \in {"poll device", "attach"} /\ vb = "info"
      /\ UNCHANGED <<handle, vb, msc_cmd, msc_pc, sensing, was_ready, chunk, carried, result>>
      /\ msc_pc = "none"
  BY DEF PollHub, mscCmdVars, ioVars, DisksInv, TaskOK, MscTypeOK
<1>2. CASE UNCHANGED <<dev, disks, broken>> /\ (dev = NoDev \/ task' = "poll device")
  BY <1>1, <1>2 DEF DisksInv, MscTypeOK, TaskOK, ListOK, CarriedOK
<1>3. CASE dev # NoDev /\ Detach
  <2>1. dev' = NoDev /\ disks' \subseteq Drives /\ (broken' = "no" => disks' = {})
    BY <1>1, <1>3, RemoveDiskEmpties DEF Detach
  <2> QED BY <1>1, <1>3, <2>1 DEF DisksInv, MscTypeOK, TaskOK, ListOK, CarriedOK
<1> QED BY <1>2, <1>3 DEF PollHub

LEMMA AttachInv ==
  ASSUME DisksInv, broken = "no", Attach
  PROVE  DisksInv'
<1>1. /\ task = "attach" /\ vb = "info" /\ dev = NoDev /\ disks = {} /\ msc_pc = "none"
      /\ UNCHANGED <<handle, vb, disks, broken, chunk, carried, result>>
  BY DEF Attach, ioVars, DisksInv, TaskOK, ListOK, MscTypeOK
<1>2. CASE /\ dev' = [attached |-> TRUE, lun |-> 0, ready |-> TRUE, created |-> FALSE, data |-> 0]
           /\ was_ready' = FALSE /\ task' = "init" /\ Sends("tur")
  <2>1. dev' \in Devs
    BY <1>2, LunsAre DEF Devs
  <2>2. dev' # NoDev
    BY <2>1, NoDevIsNone
  <2>3. MscTypeOK'
    BY <1>1, <1>2, <2>1 DEF DisksInv, MscTypeOK, Devs, Sends
  <2> QED BY <1>1, <1>2, <2>1, <2>2, <2>3 DEF DisksInv, TaskOK, ListOK, CarriedOK, Sends
<1>3. CASE task' = "poll device" /\ UNCHANGED <<dev, was_ready, mscCmdVars>>
  BY <1>1, <1>3 DEF mscCmdVars, DisksInv, MscTypeOK, TaskOK, ListOK, CarriedOK
<1> QED BY <1>2, <1>3 DEF Attach

LEMMA PollDeviceInv ==
  ASSUME DisksInv, broken = "no", PollDevice
  PROVE  DisksInv'
<1>1. /\ task = "poll device" /\ vb = "info" /\ msc_pc = "none" /\ ListOK
      /\ UNCHANGED <<handle, vb, disks, broken, chunk, carried, result>>
  BY DEF PollDevice, ioVars, DisksInv, TaskOK, MscTypeOK
<1>2. CASE dev = NoDev /\ task' = "done" /\ UNCHANGED <<dev, mscCmdVars, was_ready>>
  BY <1>1, <1>2 DEF mscCmdVars, DisksInv, MscTypeOK, TaskOK, ListOK, CarriedOK
<1>3. CASE dev # NoDev /\ task' = "poll" /\ was_ready' = dev.ready /\ TestUnitReady
  <2>1. dev \in Devs /\ dev' = [dev EXCEPT !.ready = TRUE]
    BY <1>3 DEF DisksInv, TestUnitReady
  <2>2. dev' \in Devs /\ dev'.data = dev.data /\ dev'.created = dev.created /\ was_ready' \in BOOLEAN
    BY <1>3, <2>1 DEF Devs
  <2>3. dev' # NoDev
    BY <2>2, NoDevIsNone
  <2>4. MscTypeOK'
    BY <1>1, <1>3, <2>2 DEF DisksInv, MscTypeOK, Devs, TestUnitReady, Sends
  <2> QED BY <1>1, <1>3, <2>2, <2>3, <2>4 DEF DisksInv, TaskOK, ListOK, CarriedOK, TestUnitReady, Sends
<1> QED BY <1>2, <1>3 DEF PollDevice

LEMMA DiskIoInv ==
  ASSUME DisksInv, broken = "no", NEW op \in {"read", "write"}, DiskIo(op)
  PROVE  DisksInv'
<1>1. vb = "none" /\ task = "none" /\ msc_pc = "none" /\ ListOK /\ UNCHANGED <<dev, disks, handle, was_ready>>
  BY DEF DiskIo, DisksInv, TaskOK
<1>2. CASE /\ handle \in disks /\ vb' = op /\ task' = "rw" /\ chunk' = 1 /\ Sends(op)
           /\ carried' = {} /\ result' = "none" /\ UNCHANGED broken
  <2>1. dev # NoDev
    BY <1>1, <1>2 DEF ListOK
  <2>2. CarriedOK'
    <3>1. 1 \in AllChunks
      BY UsbMscAssumption DEF AllChunks
    <3>2. 1 .. 1 - 1 = {}
      OBVIOUS
    <3> QED BY <1>2, <3>1, <3>2 DEF CarriedOK, Sends
  <2> QED BY <1>1, <1>2, <2>1, <2>2 DEF DisksInv, MscTypeOK, TaskOK, ListOK, Sends
<1>3. CASE broken' = "stale handle" /\ UNCHANGED <<vb, task, mscCmdVars, ioVars>>
  BY <1>1, <1>3 DEF mscCmdVars, ioVars, DisksInv, MscTypeOK, TaskOK, CarriedOK
<1> QED BY <1>2, <1>3 DEF DiskIo

LEMMA ChunkEndsInv ==
  ASSUME DisksInv, broken = "no", ChunkEnds
  PROVE  DisksInv'
<1>1. /\ task = "rw" /\ msc_cmd = vb /\ ~sensing /\ msc_pc \in {"ok", "fail", "detached"}
      /\ UNCHANGED <<dev, disks, handle, was_ready, carried, broken>>
      /\ vb \in {"read", "write"}
  BY DEF ChunkEnds, Ended, DisksInv, TaskOK
<1>2. /\ chunk \in AllChunks /\ carried \subseteq AllChunks
      /\ result = "none" /\ 1 .. chunk - 1 \subseteq carried
      /\ msc_pc = "ok" => chunk \in carried
      /\ Chunks \in Nat \ {0}
  BY <1>1, UsbMscAssumption DEF DisksInv, CarriedOK
<1>3. msc_pc = "ok" => 1 .. chunk \subseteq carried
  BY <1>2 DEF AllChunks
<1>4. CASE msc_pc = "ok" /\ chunk < Chunks
  <2>1. chunk' = chunk + 1 /\ Sends(vb) /\ UNCHANGED <<vb, task, result>>
    BY <1>4 DEF ChunkEnds
  <2>2. chunk' \in AllChunks /\ chunk' - 1 = chunk
    BY <1>2, <1>4, <2>1 DEF AllChunks
  <2>3. CarriedOK'
    BY <1>1, <1>2, <1>3, <1>4, <2>1, <2>2 DEF CarriedOK, Sends
  <2> QED BY <1>1, <1>4, <2>1, <2>3 DEF DisksInv, MscTypeOK, TaskOK, ListOK, Sends
<1>5. CASE ~(msc_pc = "ok" /\ chunk < Chunks)
  <2>1. /\ result' = (IF msc_pc = "ok" THEN vb ELSE "fail")
        /\ vb' = "none" /\ task' = "none" /\ Idle /\ UNCHANGED chunk
    BY <1>5 DEF ChunkEnds
  <2>2. msc_pc = "ok" => carried = AllChunks
    <3>1. msc_pc = "ok" => chunk = Chunks
      BY <1>2, <1>5 DEF AllChunks
    <3> QED BY <1>2, <1>3, <3>1 DEF AllChunks
  <2>3. CarriedOK'
    BY <1>1, <1>2, <2>1, <2>2 DEF CarriedOK
  <2> QED BY <1>1, <2>1, <2>3 DEF DisksInv, MscTypeOK, TaskOK, ListOK, Idle
<1> QED BY <1>4, <1>5

\* It says nothing of what is plugged in, of media and of what is in flight.
LEMMA SameDisksInv ==
  ASSUME DisksInv, UNCHANGED <<dev, disks, handle, vb, task, msc_cmd, msc_pc, sensing, was_ready,
                               chunk, carried, result, broken>>
  PROVE  DisksInv'
<1>1. MscTypeOK'
  BY DEF DisksInv, MscTypeOK
<1>2. TaskOK'
  BY DEF DisksInv, TaskOK
<1>3. broken' = "no" => ListOK'
  BY DEF DisksInv, ListOK
<1>4. CarriedOK'
  BY DEF DisksInv, CarriedOK
<1> QED BY <1>1, <1>2, <1>3, <1>4 DEF DisksInv

LEMMA MscStepInv == DisksInv /\ [MscNext]_mscVars => DisksInv'
<1> SUFFICES ASSUME DisksInv, [MscNext]_mscVars
             PROVE  DisksInv'
  OBVIOUS
<1>1. CASE UNCHANGED mscVars
  BY <1>1, SameDisksInv DEF mscVars, mscCmdVars, ioVars
<1>2. CASE PlugOrPull \/ MediumMoves
  BY <1>2, SameDisksInv DEF PlugOrPull, MediumMoves, mscCmdVars, ioVars
<1>3. CASE broken = "no" /\ GetInfo
  <2>1. /\ vb = "none" /\ task = "none" /\ vb' = "info" /\ task' = "poll hub" /\ handle' = 0
        /\ UNCHANGED <<dev, disks, msc_cmd, msc_pc, sensing, was_ready, chunk, carried, result, broken>>
    BY <1>3 DEF GetInfo, mscCmdVars, ioVars, DisksInv, TaskOK
  <2>2. MscTypeOK'
    BY <2>1 DEF DisksInv, MscTypeOK
  <2>3. TaskOK'
    BY <2>1 DEF DisksInv, TaskOK
  <2>4. ListOK'
    BY <1>3, <2>1 DEF DisksInv, ListOK
  <2>5. CarriedOK'
    BY <2>1 DEF DisksInv, CarriedOK
  <2> QED BY <2>1, <2>2, <2>3, <2>4, <2>5 DEF DisksInv
<1>4. CASE broken = "no" /\ InfoDone
  <2>1. /\ vb = "info" /\ task = "done" /\ vb' = "none" /\ task' = "none"
        /\ handle' \in IF disks = {} THEN {0} ELSE disks
        /\ UNCHANGED <<dev, disks, msc_cmd, msc_pc, sensing, was_ready, chunk, carried, result, broken>>
    BY <1>4 DEF InfoDone, mscCmdVars, ioVars
  <2>2. MscTypeOK'
    <3>1. handle' \in Drives \cup {0}
      BY <2>1 DEF DisksInv, MscTypeOK
    <3> QED BY <2>1, <3>1 DEF DisksInv, MscTypeOK
  <2>3. TaskOK'
    BY <2>1 DEF DisksInv, TaskOK
  <2>4. ListOK'
    BY <1>4, <2>1 DEF DisksInv, ListOK
  <2>5. CarriedOK'
    BY <2>1 DEF DisksInv, CarriedOK
  <2> QED BY <2>1, <2>2, <2>3, <2>4, <2>5 DEF DisksInv
<1> QED BY <1>1, <1>2, <1>3, <1>4, ExecuteCommandInv, ReadyEndsInv, PollHubInv, AttachInv, PollDeviceInv,
     DiskIoInv, ChunkEndsInv DEF MscNext

LEMMA DisksInvHolds == MscSpec => []DisksInv
BY MscInitInv, MscStepInv, PTL DEF MscSpec

-----------------------------------------------------------------------------
(***************************************************************************)
(* The firmware database.                                                  *)
(***************************************************************************)

Cells == [n : 0 .. FwdbMaxSize, name : EntryNames \cup {NoName}]
Memories == [0 .. FwdbMaxSize + Unit -> Cells]

\* F are the size fields of "m".
FieldsOf(m, F) ==
  F = {a \in HeaderSize .. FwdbMaxSize + Unit :
         a % Unit = 0 /\ (a = HeaderSize \/ \E b \in F : b < a /\ m[b].n # 0 /\ Aligned(b + m[b].n) = a)}

\* The entry at "a": its name, and the size of its data.
NameAt(m, a) == m[a + 1].name
SizeIn(m, a) == m[a].n - DataOffset(NameAt(m, a))

\* A list whose last field is at "e": each entry has a name of its own and ends before the
\* next field.
Listed(m, F, e) ==
  /\ FieldsOf(m, F) /\ F \subseteq HeaderSize .. FwdbMaxSize - 1
  /\ e \in F /\ m[e].n = 0 /\ \A a \in F : a <= e
  /\ \A a \in F : a # e =>
       /\ m[a].n # 0 /\ NameAt(m, a) \in EntryNames /\ SizeIn(m, a) \in DataSizes
       /\ Aligned(a + m[a].n) \in F
  /\ \A a, b \in F : a < b => a + m[a].n <= b
  /\ \A a, b \in F \ {e} : NameAt(m, a) = NameAt(m, b) => a = b

Shared(m) ==
  \E F : \E e \in F : Listed(m, F, e) /\ entries \subseteq {EntryAt(m, a) : a \in F \ {e}}

FwdbInv ==
  /\ mem \in Memories
  /\ created \in BOOLEAN /\ in_use = created
  /\ IF in_use THEN Shared(mem) ELSE entries = {}
  /\ \A a \in DOMAIN mem : a >= FwdbMaxSize => mem[a] = Junk

-----------------------------------------------------------------------------
\* Rounding up gives the next multiple of the unit.
LEMMA AlignUp ==
  ASSUME NEW x \in Nat
  PROVE  /\ Aligned(x) \in Nat /\ Aligned(x) % Unit = 0
         /\ x <= Aligned(x) /\ Aligned(x) <= x + Unit - 1
<1>1. Unit \in Nat \ {0} /\ x + Unit - 1 \in Nat
  BY FwdbAssumption
<1>2. PICK q \in Nat : /\ q = (x + Unit - 1) \div Unit /\ (x + Unit - 1) % Unit \in 0 .. Unit - 1
                       /\ x + Unit - 1 = q * Unit + ((x + Unit - 1) % Unit)
  BY <1>1, Multiple
<1>3. Aligned(x) = q * Unit /\ q * Unit \in Nat
  BY <1>1, <1>2, Times DEF Aligned
<1>4. Aligned(x) % Unit = 0
  BY <1>1, <1>3, AlignedIs
<1>. QED  BY <1>1, <1>2, <1>3, <1>4

\* Rounding up gives the only multiple in reach.
LEMMA AlignIs ==
  ASSUME NEW x \in Nat, NEW z \in Nat, z % Unit = 0, x <= z, z <= x + Unit - 1
  PROVE  z = Aligned(x)
<1>1. Unit \in Nat \ {0}
  BY FwdbAssumption
<1>2. /\ Aligned(x) \in Nat /\ Aligned(x) % Unit = 0 /\ x <= Aligned(x) /\ Aligned(x) <= x + Unit - 1
  BY AlignUp
<1>3. ~(z < Aligned(x))
  <2>1. ASSUME z < Aligned(x) PROVE FALSE
    <3>1. z + Unit <= Aligned(x)
      BY <1>1, <1>2, <2>1, AlignedApart
    <3>. QED  BY <1>1, <1>2, <3>1
  <2>. QED  BY <2>1
<1>4. ~(Aligned(x) < z)
  <2>1. ASSUME Aligned(x) < z PROVE FALSE
    <3>1. Aligned(x) + Unit <= z
      BY <1>1, <1>2, <2>1, AlignedApart
    <3>. QED  BY <1>1, <1>2, <3>1
  <2>. QED  BY <2>1
<1>. QED  BY <1>2, <1>3, <1>4

\* And the first one that is not smaller.
LEMMA AlignBefore ==
  ASSUME NEW x \in Nat, NEW y \in Nat, y % Unit = 0, x <= y
  PROVE  Aligned(x) <= y
<1>1. Unit \in Nat \ {0}
  BY FwdbAssumption
<1>2. /\ Aligned(x) \in Nat /\ Aligned(x) % Unit = 0 /\ x <= Aligned(x) /\ Aligned(x) <= x + Unit - 1
  BY AlignUp
<1>3. ASSUME y < Aligned(x) PROVE FALSE
  <2>1. y + Unit <= Aligned(x)
    BY <1>1, <1>2, <1>3, AlignedApart
  <2>. QED  BY <1>1, <1>2, <2>1
<1>. QED  BY <1>2, <1>3

\* The sum of two multiples is one, and so rounding up leaves one alone.
LEMMA AlignSum ==
  ASSUME NEW x \in Nat, NEW y \in Nat, x % Unit = 0
  PROVE  /\ y % Unit = 0 => (x + y) % Unit = 0
         /\ Aligned(x + y) = x + Aligned(y)
<1>1. Unit \in Nat \ {0}
  BY FwdbAssumption
<1>2. ASSUME NEW z \in Nat, z % Unit = 0 PROVE (x + z) % Unit = 0
  <2>1. PICK j \in Nat : x = j * Unit
    BY <1>1, AlignedIs
  <2>2. PICK k \in Nat : z = k * Unit
    BY <1>1, <1>2, AlignedIs
  <2>3. x + z = (j + k) * Unit /\ j + k \in Nat /\ x + z \in Nat
    BY <1>1, <2>1, <2>2
  <2>. QED  BY <1>1, <2>3, AlignedIs
<1>3. Aligned(y) \in Nat /\ Aligned(y) % Unit = 0 /\ y <= Aligned(y) /\ Aligned(y) <= y + Unit - 1
  BY AlignUp
<1>4. (x + Aligned(y)) % Unit = 0
  BY <1>2, <1>3
<1>5. x + Aligned(y) \in Nat /\ x + y \in Nat /\ x + y <= x + Aligned(y) /\ x + Aligned(y) <= x + y + Unit - 1
  BY <1>1, <1>3
<1>. QED  BY <1>2, <1>4, <1>5, AlignIs

\* Where the data of an entry starts: behind its size field and its name.
LEMMA DataIsBehind ==
  ASSUME NEW name \in EntryNames
  PROVE  DataOffset(name) \in Nat /\ DataOffset(name) >= 2 /\ DataOffset(name) % Unit = 0
<1>1. 1 + NameLen[name] \in Nat /\ 1 + NameLen[name] >= 2
  BY FwdbAssumption
<1>. QED  BY <1>1, AlignUp DEF DataOffset

-----------------------------------------------------------------------------
\* The list.

\* Fields() finds the fields that there are: each but the first is found from one before it.
LEMMA FieldsAre ==
  ASSUME NEW m \in Memories, NEW F, FieldsOf(m, F)
  PROVE  Fields(m) = F
<1>. DEFINE Dom == 0 .. FwdbMaxSize + Unit
            Step(a, f) == \/ a = HeaderSize
                          \/ \E b \in HeaderSize .. a - 1 :
                               b % Unit = 0 /\ m[b].n # 0 /\ Aligned(b + m[b].n) = a /\ f[b]
            IsField == CHOOSE f : f = [a \in Dom |-> Step(a, f)]
            g == [a \in Dom |-> a \in F]
<1>1. /\ Unit \in Nat \ {0} /\ HeaderSize \in Nat \ {0} /\ FwdbMaxSize \in Nat /\ HeaderSize % Unit = 0
      /\ HeaderSize < FwdbMaxSize /\ Dom \subseteq Nat
  BY FwdbAssumption
<1>2. /\ F \subseteq HeaderSize .. FwdbMaxSize + Unit
      /\ \A a \in HeaderSize .. FwdbMaxSize + Unit : a \in F <=>
           a % Unit = 0 /\ (a = HeaderSize \/ \E b \in F : b < a /\ m[b].n # 0 /\ Aligned(b + m[b].n) = a)
  BY DEF FieldsOf
<1>3. \A b \in Dom : m[b].n \in Nat
  BY <1>1 DEF Memories, Cells
<1>4. ASSUME NEW a \in Dom, NEW f, \A b \in Dom : b < a => (f[b] <=> b \in F)
      PROVE  Step(a, f) <=> a \in F
  <2>1. CASE a = HeaderSize
    BY <1>1, <1>2, <2>1
  <2>2. CASE a # HeaderSize
    <3>1. ASSUME NEW b \in HeaderSize .. a - 1, m[b].n # 0, Aligned(b + m[b].n) = a, f[b]
          PROVE  a \in F
      <4>1. b \in Dom /\ b < a /\ b \in F /\ b + m[b].n \in Nat /\ a \in HeaderSize .. FwdbMaxSize + Unit
        BY <1>1, <1>3, <1>4, <3>1
      <4>2. a % Unit = 0
        BY <3>1, <4>1, AlignUp
      <4>. QED  BY <1>2, <3>1, <4>1, <4>2
    <3>2. ASSUME a \in F PROVE Step(a, f)
      <4>1. PICK b \in F : b < a /\ m[b].n # 0 /\ Aligned(b + m[b].n) = a
        BY <1>2, <2>2, <3>2
      <4>2. b \in HeaderSize .. a - 1 /\ b % Unit = 0 /\ b \in Dom
        BY <1>1, <1>2, <4>1
      <4>3. f[b]
        BY <1>4, <4>1, <4>2
      <4>. QED  BY <4>1, <4>2, <4>3
    <3>. QED  BY <2>2, <3>1, <3>2
  <2>. QED  BY <2>1, <2>2
<1>5. IsField = [a \in Dom |-> Step(a, IsField)]
  <2>1. \A a \in Dom : Step(a, g) <=> a \in F
    BY <1>4
  <2>2. g = [a \in Dom |-> Step(a, g)]
    <3>1. ASSUME NEW a \in Dom PROVE (a \in F) = Step(a, g)
      <4>. HIDE DEF g, Dom
      <4>1. Step(a, g) <=> a \in F
        BY <2>1
      <4>2. Step(a, g) \in BOOLEAN
        OBVIOUS
      <4>. HIDE DEF Step
      <4>. QED  BY <4>1, <4>2
    <3>. HIDE DEF Step
    <3>. QED  BY <3>1, Zenon
  <2>. HIDE DEF g, Step
  <2>3. \E f : f = [a \in Dom |-> Step(a, f)]
    BY <2>2
  <2>. QED  BY <2>3
<1>6. \A a \in Dom : IsField[a] <=> a \in F
  <2>. DEFINE S == {a \in Dom : ~(IsField[a] <=> a \in F)}
  <2>1. SUFFICES ASSUME S # {} PROVE FALSE
    OBVIOUS
  <2>2. S \subseteq Nat
    BY <1>1
  <2>3. PICK a \in S : \A b \in S : a <= b
    <3>. HIDE DEF S
    <3>. QED  BY <2>1, <2>2, Least
  <2>4. \A b \in Dom : b < a => (IsField[b] <=> b \in F)
    BY <1>1, <2>3
  <2>. HIDE DEF IsField
  <2>5. Step(a, IsField) <=> a \in F
    BY <1>4, <2>4
  <2>6. IsField[a] <=> Step(a, IsField)
    <3>. HIDE DEF Step
    <3>. QED  BY <1>5
  <2>. QED  BY <2>5, <2>6
<1>7. Fields(m) = {a \in HeaderSize .. FwdbMaxSize + Unit : a % Unit = 0 /\ IsField[a]}
  BY DEF Fields
<1>. HIDE DEF IsField
<1>8. \A a \in HeaderSize .. FwdbMaxSize + Unit : a \in Dom
  BY <1>1
<1>. QED  BY <1>2, <1>6, <1>7, <1>8

\* The room that entries take, without the padding between them.
RoomOf(m, E) == MapThenSumSet(LAMBDA a : m[a].n, E)

\* The sizes of entries that do not overlap add up to no more than the room they are in.
LEMMA SumIsRoom ==
  ASSUME NEW m, NEW lo \in Nat, NEW hi \in Nat, lo <= hi, NEW E, E \subseteq lo .. hi,
         \A a \in E : m[a].n \in Nat /\ a + m[a].n <= hi,
         \A a, b \in E : a < b => a + m[a].n <= b
  PROVE  RoomOf(m, E) \in Nat /\ RoomOf(m, E) <= hi - lo
<1>. DEFINE I(a) == a .. a + m[a].n - 1
            U(s) == UNION {I(a) : a \in s}
            Pick(s) == CHOOSE x \in s : TRUE
            Step(s, f) == IF s = {} THEN 0 ELSE m[Pick(s)].n + f[s \ {Pick(s)}]
            iter == CHOOSE f : f = [s \in SUBSET E |-> Step(s, f)]
            g == [s \in SUBSET E |-> Cardinality(U(s))]
<1>1. RoomOf(m, E) = iter[E]
  BY DEF RoomOf, MapThenSumSet, MapThenFoldSet
<1>2. ASSUME NEW s \in SUBSET E
      PROVE  /\ U(s) \subseteq lo .. hi - 1 /\ IsFiniteSet(U(s)) /\ IsFiniteSet(s)
             /\ Cardinality(U(s)) \in Nat
  <2>1. U(s) \subseteq lo .. hi - 1
    OBVIOUS
  <2>. HIDE DEF U
  <2>2. IsFiniteSet(lo .. hi - 1) /\ IsFiniteSet(lo .. hi)
    <3>1. lo \in Int /\ hi \in Int /\ hi - 1 \in Int
      OBVIOUS
    <3>. QED  BY <3>1, FS_Interval
  <2>3. s \in SUBSET (lo .. hi) /\ U(s) \in SUBSET (lo .. hi - 1)
    BY <2>1
  <2>. QED  BY <2>1, <2>2, <2>3, FS_Subset, FS_CardinalityType
<1>3. ASSUME NEW s \in SUBSET E, NEW x \in s
      PROVE  Cardinality(U(s)) = m[x].n + Cardinality(U(s \ {x}))
  <2>1. U(s) = I(x) \cup U(s \ {x})
    OBVIOUS
  <2>2. I(x) \cap U(s \ {x}) = {}
    <3>1. ASSUME NEW b \in s \ {x} PROVE I(x) \cap I(b) = {}
      <4>1. x \in E /\ b \in E /\ x \in Nat /\ b \in Nat /\ m[x].n \in Nat /\ m[b].n \in Nat /\ (x < b \/ b < x)
        OBVIOUS
      <4>2. x + m[x].n <= b \/ b + m[b].n <= x
        BY <4>1
      <4>. QED  BY <4>1, <4>2
    <3>. HIDE DEF I
    <3>. QED  BY <3>1
  <2>3. IsFiniteSet(I(x)) /\ Cardinality(I(x)) = m[x].n
    <3>1. x \in Int /\ x + m[x].n - 1 \in Int /\ m[x].n \in Nat
      OBVIOUS
    <3>2. IsFiniteSet(I(x)) /\ Cardinality(I(x)) = IF x > x + m[x].n - 1 THEN 0 ELSE x + m[x].n - 1 - x + 1
      <4>. DEFINE y == x + m[x].n - 1
      <4>1. x \in Int /\ y \in Int /\ I(x) = x .. y
        BY <3>1
      <4>. HIDE DEF I, y
      <4>2. IsFiniteSet(I(x)) /\ Cardinality(I(x)) = IF x > y THEN 0 ELSE y - x + 1
        BY <4>1, FS_Interval
      <4>. QED  BY <3>1, <4>2 DEF y
    <3>3. (IF x > x + m[x].n - 1 THEN 0 ELSE x + m[x].n - 1 - x + 1) = m[x].n
      BY <3>1
    <3>. HIDE DEF I
    <3>. QED  BY ONLY <3>2, <3>3
  <2>4. s \ {x} \in SUBSET E
    OBVIOUS
  <2>5. IsFiniteSet(U(s \ {x})) /\ Cardinality(U(s \ {x})) \in Nat
    BY <1>2, <2>4
  <2>6. Cardinality({}) = 0 /\ m[x].n \in Nat
    BY FS_EmptySet
  <2>. HIDE DEF U, I
  <2>. QED  BY <2>1, <2>2, <2>3, <2>5, <2>6, FS_Union
<1>4. Cardinality(U({})) = 0
  <2>1. U({}) = {}
    OBVIOUS
  <2>. QED  BY <2>1, FS_EmptySet
<1>. HIDE DEF U
<1>5. \A s \in SUBSET E : s # {} => Pick(s) \in s
  OBVIOUS
<1>. HIDE DEF Pick
<1>6. \A s \in SUBSET E : Step(s, g) = g[s]
  <2>1. ASSUME NEW s \in SUBSET E PROVE Step(s, g) = g[s]
    <3>1. CASE s = {}
      BY <1>4, <3>1
    <3>2. CASE s # {}
      <4>1. s \ {Pick(s)} \in SUBSET E /\ Pick(s) \in s
        BY <1>5, <3>2
      <4>2. g[s] = Cardinality(U(s)) /\ g[s \ {Pick(s)}] = Cardinality(U(s \ {Pick(s)}))
        BY <4>1
      <4>. QED  BY <1>3, <3>2, <4>1, <4>2
    <3>. QED  BY <3>1, <3>2
  <2>. QED  BY <2>1
<1>7. iter = [s \in SUBSET E |-> Step(s, iter)]
  <2>1. g = [s \in SUBSET E |-> Step(s, g)]
    BY <1>6
  <2>. HIDE DEF g, Step
  <2>. QED  BY <2>1
<1>. HIDE DEF iter
<1>8. \A s \in SUBSET E : iter[s] = Cardinality(U(s))
  <2>. DEFINE S == {n \in Nat : \E s \in SUBSET E : Cardinality(s) = n /\ iter[s] # Cardinality(U(s))}
  <2>1. SUFFICES ASSUME S # {} PROVE FALSE
    <3>1. \A s \in SUBSET E : Cardinality(s) \in Nat
      BY <1>2, FS_CardinalityType
    <3>. QED  BY <3>1
  <2>2. PICK n \in S : \A k \in S : n <= k
    <3>1. S \subseteq Nat
      OBVIOUS
    <3>. HIDE DEF S
    <3>. QED  BY <2>1, <3>1, Least
  <2>3. PICK s \in SUBSET E : Cardinality(s) = n /\ iter[s] # Cardinality(U(s))
    OBVIOUS
  <2>4. iter[s] = Step(s, iter)
    BY <1>7
  <2>5. CASE s = {}
    BY <1>4, <2>3, <2>4, <2>5
  <2>6. CASE s # {}
    <3>. DEFINE x == Pick(s)  r == s \ {x}
    <3>1. x \in s /\ r \in SUBSET E /\ iter[s] = m[x].n + iter[r]
      BY <1>5, <2>4, <2>6
    <3>2. Cardinality(U(s)) = m[x].n + Cardinality(U(r))
      BY <1>3, <3>1
    <3>3. iter[r] # Cardinality(U(r))
      BY <2>3, <3>1, <3>2
    <3>4. Cardinality(r) = n - 1 /\ n \in Nat /\ Cardinality(r) \in Nat
      BY <1>2, <2>3, <3>1, FS_RemoveElement, FS_CardinalityType
    <3>5. Cardinality(r) \in S
      BY <3>1, <3>3, <3>4
    <3>. HIDE DEF S, r
    <3>6. n <= Cardinality(r)
      BY <2>2, <3>5
    <3>. QED  BY <3>4, <3>6
  <2>. QED  BY <2>5, <2>6
<1>9. Cardinality(U(E)) \in Nat /\ Cardinality(U(E)) <= hi - lo
  <2>1. U(E) \in SUBSET (lo .. hi - 1)
    <3>1. E \in SUBSET E
      OBVIOUS
    <3>. QED  BY <1>2, <3>1
  <2>2. IsFiniteSet(lo .. hi - 1) /\ Cardinality(lo .. hi - 1) = hi - lo
    <3>1. lo \in Int /\ hi - 1 \in Int
      OBVIOUS
    <3>2. IsFiniteSet(lo .. hi - 1) /\ Cardinality(lo .. hi - 1) = IF lo > hi - 1 THEN 0 ELSE hi - 1 - lo + 1
      BY <3>1, FS_Interval
    <3>. QED  BY <3>2
  <2>. QED  BY <2>1, <2>2, FS_Subset, FS_CardinalityType
<1>. QED  BY <1>1, <1>8, <1>9

\* What a list says of its fields and its entries.
LEMMA ListFields ==
  ASSUME NEW m \in Memories, NEW F, NEW e \in F, Listed(m, F, e)
  PROVE  /\ Fields(m) = F /\ ListEnd(m) = e /\ EntriesIn(m) = F \ {e}
         /\ HeaderSize \in F /\ HeaderSize \in Nat /\ FwdbMaxSize \in Nat /\ Unit \in Nat \ {0}
         /\ e + 1 <= FwdbMaxSize
         /\ \A a \in F : a \in Nat /\ a % Unit = 0 /\ HeaderSize <= a /\ a <= e
                         /\ m[a].n \in Nat /\ a \in DOMAIN m /\ a + 1 \in DOMAIN m
<1>1. /\ HeaderSize \in Nat /\ FwdbMaxSize \in Nat /\ Unit \in Nat \ {0} /\ HeaderSize % Unit = 0
      /\ HeaderSize < FwdbMaxSize
  BY FwdbAssumption
<1>2. Fields(m) = F
  BY FieldsAre DEF Listed
<1>3. F \subseteq HeaderSize .. FwdbMaxSize - 1 /\ \A a \in F : a <= e
  BY DEF Listed
<1>4. HeaderSize \in F /\ \A a \in F : a % Unit = 0
  BY <1>1 DEF Listed, FieldsOf
<1>5. \A a \in F : a \in Nat /\ HeaderSize <= a /\ a <= e /\ a \in DOMAIN m /\ a + 1 \in DOMAIN m
                   /\ m[a].n \in Nat
  BY <1>1, <1>3 DEF Memories, Cells
<1>6. ListEnd(m) = e
  <2>1. \A x \in F : (\A y \in F : x >= y) => x = e
    BY <1>3, <1>5
  <2>2. \A y \in F : e >= y
    BY <1>3, <1>5
  <2>3. Max(F) = e
    BY <2>1, <2>2 DEF Max
  <2>. QED  BY <1>2, <2>3 DEF ListEnd
<1>7. EntriesIn(m) = F \ {e}
  BY <1>2 DEF EntriesIn, Listed
<1>8. e + 1 <= FwdbMaxSize
  BY <1>1, <1>3
<1>. QED  BY <1>1, <1>2, <1>4, <1>5, <1>6, <1>7, <1>8

\* What a list says of one of its entries.
LEMMA ListEntries ==
  ASSUME NEW m \in Memories, NEW F, NEW e \in F, Listed(m, F, e), NEW a \in F \ {e}
  PROVE  /\ a < e /\ NameAt(m, a) \in EntryNames
         /\ DataOffset(NameAt(m, a)) \in Nat /\ DataOffset(NameAt(m, a)) >= 2
         /\ SizeIn(m, a) \in Nat /\ SizeIn(m, a) \in DataSizes
         /\ m[a].n = DataOffset(NameAt(m, a)) + SizeIn(m, a)
         /\ EntryAt(m, a) = [ptr |-> a + DataOffset(NameAt(m, a)), size |-> SizeIn(m, a)]
         /\ a + m[a].n <= e
<1>1. a \in Nat /\ e \in Nat /\ a <= e /\ m[a].n \in Nat
  BY ListFields
<1>2. NameAt(m, a) \in EntryNames /\ SizeIn(m, a) \in DataSizes /\ DataSizes \subseteq Nat
  BY FwdbAssumption DEF Listed
<1>3. DataOffset(NameAt(m, a)) \in Nat /\ DataOffset(NameAt(m, a)) >= 2
  BY <1>2, DataIsBehind
<1>4. m[a].n = DataOffset(NameAt(m, a)) + SizeIn(m, a)
  BY <1>1, <1>3 DEF SizeIn
<1>5. a < e
  BY <1>1
<1>6. a + m[a].n <= e
  BY <1>5 DEF Listed
<1>7. EntryAt(m, a) = [ptr |-> a + DataOffset(NameAt(m, a)), size |-> SizeIn(m, a)]
  BY DEF EntryAt, SizeIn, NameAt
<1>. QED  BY <1>2, <1>3, <1>4, <1>5, <1>6, <1>7

\* fwdb_use_db() takes over every list that fwdb_access() may have built.
LEMMA ListAccepted ==
  ASSUME NEW m \in Memories, NEW F, NEW e \in F, Listed(m, F, e)
  PROVE  Accepts(m)
<1>. DEFINE E == F \ {e}
<1>1. /\ EntriesIn(m) = E /\ HeaderSize \in Nat /\ e \in Nat /\ HeaderSize <= e
      /\ FwdbMaxSize \in Nat /\ e + 1 <= FwdbMaxSize
      /\ \A a \in E : a \in Nat /\ HeaderSize <= a /\ a <= e /\ m[a].n \in Nat
  BY ListFields
<1>2. E \subseteq HeaderSize .. e
  BY <1>1
<1>3. \A a \in E : m[a].n \in Nat /\ a + m[a].n <= e
  BY <1>1, ListEntries
<1>4. \A a, b \in E : a < b => a + m[a].n <= b
  BY DEF Listed
<1>. HIDE DEF E
<1>5. RoomOf(m, E) \in Nat /\ RoomOf(m, E) <= e - HeaderSize
  BY <1>1, <1>2, <1>3, <1>4, SumIsRoom, Zenon
<1>6. HeaderSize + RoomOf(m, EntriesIn(m)) + 1 <= FwdbMaxSize
  <2>. HIDE DEF RoomOf
  <2>. QED  BY <1>1, <1>5
<1>7. \A a \in EntriesIn(m) : m[a + 1].name # NoName
  BY <1>1, ListEntries, FwdbAssumption DEF NameAt, E
<1>. QED  BY <1>6, <1>7 DEF Accepts, RoomOf

\* What it says of names and data.
DataAt(m, a) == [i \in 1 .. SizeIn(m, a) |-> m[a + DataOffset(NameAt(m, a)) + i - 1].n]

\* So the table of a list is a function of its fields.
LEMMA TableIs ==
  ASSUME NEW m \in Memories, NEW F, NEW e \in F, Listed(m, F, e)
  PROVE  /\ DOMAIN TableOf(m) = {NameAt(m, a) : a \in F \ {e}}
         /\ \A a \in F \ {e} : TableOf(m)[NameAt(m, a)] = DataAt(m, a)
         /\ TableOf(m) = [name \in DOMAIN TableOf(m) |-> TableOf(m)[name]]
<1>. DEFINE E == F \ {e}
            N == {m[a + 1].name : a \in E}
            at == [name \in N |-> EntryAt(m, CHOOSE a \in E : m[a + 1].name = name)]
            T == [name \in DOMAIN at |-> [i \in 1 .. at[name].size |-> m[at[name].ptr + i - 1].n]]
<1>1. TableOf(m) = T
  <2>1. EntriesIn(m) = E
    BY SMTT(40), ListFields
  <2>. QED  BY <2>1 DEF TableOf
<1>2. DOMAIN T = N /\ N = {NameAt(m, a) : a \in E} /\ T = [name \in DOMAIN T |-> T[name]]
  BY DEF NameAt
<1>3. ASSUME NEW a \in E PROVE T[NameAt(m, a)] = DataAt(m, a)
  <2>1. (CHOOSE b \in E : m[b + 1].name = NameAt(m, a)) = a
    <3>1. \A b \in E : m[b + 1].name = NameAt(m, a) <=> b = a
      BY DEF Listed, NameAt
    <3>. HIDE DEF E
    <3>. QED  BY <3>1
  <2>2. NameAt(m, a) \in N
    BY DEF NameAt
  <2>3. at[NameAt(m, a)] = EntryAt(m, a)
    BY <2>1, <2>2
  <2>4. EntryAt(m, a) = [ptr |-> a + DataOffset(NameAt(m, a)), size |-> SizeIn(m, a)]
    BY ListEntries
  <2>. HIDE DEF at
  <2>5. at[NameAt(m, a)].ptr = a + DataOffset(NameAt(m, a)) /\ at[NameAt(m, a)].size = SizeIn(m, a)
    BY <2>3, <2>4
  <2>6. NameAt(m, a) \in DOMAIN at
    BY <2>2 DEF at
  <2>. QED  BY <2>5, <2>6 DEF DataAt
<1>. QED  BY <1>1, <1>2, <1>3, Zenon

-----------------------------------------------------------------------------
\* What the calls do to the list.

\* fwdb_create_db() makes the empty list.
LEMMA ListCreated ==
  ASSUME NEW m \in Memories, NEW m2, m2 = [m EXCEPT ![HeaderSize] = Cell(0)]
  PROVE  m2 \in Memories /\ Listed(m2, {HeaderSize}, HeaderSize)
<1>1. /\ Unit \in Nat \ {0} /\ HeaderSize \in Nat \ {0} /\ FwdbMaxSize \in Nat /\ HeaderSize % Unit = 0
      /\ HeaderSize < FwdbMaxSize
  BY FwdbAssumption
<1>2. HeaderSize \in 0 .. FwdbMaxSize + Unit /\ Cell(0) \in Cells
  BY <1>1 DEF Cell, Cells
<1>3. m2 \in Memories /\ m2[HeaderSize].n = 0
  BY <1>2 DEF Memories, Cell
<1>4. FieldsOf(m2, {HeaderSize})
  BY <1>1, <1>3 DEF FieldsOf
<1>. QED  BY <1>1, <1>3, <1>4 DEF Listed

\* An entry is the same in two memories.
SameEntry(m, m2, a) ==
  /\ m2[a] = m[a] /\ NameAt(m2, a) = NameAt(m, a) /\ SizeIn(m2, a) = SizeIn(m, a)
  /\ EntryAt(m2, a) = EntryAt(m, a)

\* Two cells say all there is to an entry: its size field and the start of its name.
LEMMA CellsOfEntry ==
  ASSUME NEW m, NEW m2, NEW a, m2[a] = m[a], m2[a + 1] = m[a + 1]
  PROVE  SameEntry(m, m2, a)
BY DEF SameEntry, NameAt, SizeIn, EntryAt

\* A write to the data of an entry leaves the list as it is.
DataWritten(m, m2, F, e, a, i, value) ==
  /\ m2 \in Memories /\ Listed(m2, F, e)
  /\ \A b \in F \ {e} : SameEntry(m, m2, b)
  /\ \A b \in F \ {e} : b # a => DataAt(m2, b) = DataAt(m, b)
  /\ DataAt(m2, a) = [DataAt(m, a) EXCEPT ![i] = value] /\ i \in DOMAIN DataAt(m, a)
  /\ \A b \in DOMAIN m : b >= FwdbMaxSize => m2[b] = m[b]

\* WriteData() is such a write: the data of an entry is behind its own fields, and before those of the next one.
LEMMA ListWritten ==
  ASSUME NEW m \in Memories, NEW F, NEW e \in F, Listed(m, F, e), NEW a \in F \ {e},
         NEW ofs \in Nat, ofs < SizeIn(m, a), NEW value \in 0 .. 1,
         NEW m2, m2 = [m EXCEPT ![EntryAt(m, a).ptr + ofs] = Cell(value)]
  PROVE  DataWritten(m, m2, F, e, a, ofs + 1, value)
<1>. DEFINE D == DataOffset(NameAt(m, a))
            p == a + D + ofs
<1>1. /\ HeaderSize \in Nat /\ FwdbMaxSize \in Nat /\ Unit \in Nat \ {0} /\ e + 1 <= FwdbMaxSize
      /\ \A b \in F : b \in Nat /\ b <= e /\ m[b].n \in Nat /\ b \in DOMAIN m /\ b + 1 \in DOMAIN m
      /\ DOMAIN m = 0 .. FwdbMaxSize + Unit
  <2>1. DOMAIN m = 0 .. FwdbMaxSize + Unit
    BY DEF Memories
  <2>. QED  BY <2>1, ListFields
<1>2. /\ a < e /\ D \in Nat /\ D >= 2 /\ SizeIn(m, a) \in Nat /\ m[a].n = D + SizeIn(m, a)
      /\ EntryAt(m, a).ptr = a + D /\ a + m[a].n <= e
  BY ListEntries
<1>3. p \in Nat /\ a + 2 <= p /\ p < a + m[a].n /\ p < e /\ p \in DOMAIN m
  BY SMTT(40), <1>1, <1>2
<1>4. m2 = [m EXCEPT ![p] = Cell(value)]
  BY <1>2
<1>. HIDE DEF p, D
<1>5. \A b \in DOMAIN m : m2[b] = IF b = p THEN Cell(value) ELSE m[b]
  BY <1>4
<1>6. m2 \in Memories
  <2>1. Cell(value) \in Cells
    BY <1>1 DEF Cell, Cells
  <2>. QED  BY <1>4, <2>1 DEF Memories
<1>7. \A b, c \in F : b < c => b + m[b].n <= c
  BY DEF Listed
<1>8. \A b \in F : b # p /\ (b # e => b + 1 # p)
  <2>1. ASSUME NEW b \in F PROVE b # p /\ (b # e => b + 1 # p)
    <3>1. b \in Nat /\ a \in Nat /\ m[a].n \in Nat
      BY <1>1
    <3>2. CASE b <= a
      BY <1>3, <3>1, <3>2
    <3>3. CASE a < b
      <4>1. a + m[a].n <= b
        BY <1>7, <3>3
      <4>. QED  BY <1>3, <3>1, <4>1
    <3>. QED  BY <3>1, <3>2, <3>3
  <2>. QED  BY <2>1
<1>9. /\ \A b \in F : m2[b] = m[b]
      /\ \A b \in F \ {e} : SameEntry(m, m2, b)
  BY <1>1, <1>5, <1>8, CellsOfEntry
<1>10. Listed(m2, F, e)
  <2>1. FieldsOf(m2, F)
    <3>1. FieldsOf(m, F)
      BY DEF Listed
    <3>2. \A x : (\E b \in F : b < x /\ m2[b].n # 0 /\ Aligned(b + m2[b].n) = x)
               <=> (\E b \in F : b < x /\ m[b].n # 0 /\ Aligned(b + m[b].n) = x)
      BY <1>9
    <3>. QED  BY SMTT(40), <3>1, <3>2 DEF FieldsOf
  <2>. QED  BY <1>9, <2>1 DEF Listed, SameEntry
<1>11. ASSUME NEW b \in F \ {e}, b # a PROVE DataAt(m2, b) = DataAt(m, b)
  <2>. DEFINE Db == DataOffset(NameAt(m, b))
  <2>1. /\ Db \in Nat /\ SizeIn(m, b) \in Nat /\ m[b].n = Db + SizeIn(m, b) /\ b + m[b].n <= e
        /\ b \in Nat /\ a \in Nat /\ e \in Nat
    BY <1>1, ListEntries
  <2>2. NameAt(m2, b) = NameAt(m, b) /\ SizeIn(m2, b) = SizeIn(m, b)
    BY <1>9 DEF SameEntry
  <2>. HIDE DEF Db
  <2>3. ASSUME NEW i \in 1 .. SizeIn(m, b)
        PROVE  b + Db + i - 1 \in DOMAIN m /\ b + Db + i - 1 # p
    <3>1. b <= b + Db + i - 1 /\ b + Db + i - 1 < b + m[b].n
      BY <2>1
    <3>2. b + Db + i - 1 # p
      <4>1. CASE b < a
        <5>1. b + m[b].n <= a
          BY <1>7, <4>1
        <5>. QED  BY <1>3, <2>1, <3>1, <5>1
      <4>2. CASE a < b
        <5>1. a + m[a].n <= b
          BY <1>7, <4>2
        <5>. QED  BY <1>1, <1>3, <2>1, <3>1, <5>1
      <4>. QED  BY <1>11, <2>1, <4>1, <4>2
    <3>. QED  BY <1>1, <2>1, <3>1, <3>2
  <2>4. \A i \in 1 .. SizeIn(m, b) : m2[b + Db + i - 1].n = m[b + Db + i - 1].n
    BY <1>5, <2>3
  <2>. QED  BY <2>2, <2>4 DEF DataAt, Db
<1>12. /\ DataAt(m2, a) = [DataAt(m, a) EXCEPT ![ofs + 1] = value]
       /\ ofs + 1 \in DOMAIN DataAt(m, a)
  <2>1. NameAt(m2, a) = NameAt(m, a) /\ SizeIn(m2, a) = SizeIn(m, a)
    BY <1>9 DEF SameEntry
  <2>2. ofs + 1 \in 1 .. SizeIn(m, a)
    BY <1>2
  <2>3. ASSUME NEW i \in 1 .. SizeIn(m, a)
        PROVE  m2[a + D + i - 1].n = IF i = ofs + 1 THEN value ELSE m[a + D + i - 1].n
    <3>1. a + D + i - 1 \in DOMAIN m /\ (a + D + i - 1 = p <=> i = ofs + 1)
      <4>1. /\ a \in Nat /\ e \in Nat /\ m[a].n \in Nat /\ p = a + D + ofs /\ i \in Nat
            /\ 1 <= i /\ i <= SizeIn(m, a)
        BY <1>1, <1>2 DEF p
      <4>2. a + D + i - 1 \in Nat /\ a + D + i - 1 <= e
        BY <1>2, <4>1
      <4>3. a + D + i - 1 = p <=> i = ofs + 1
        BY <1>2, <4>1
      <4>. QED  BY <1>1, <4>1, <4>2, <4>3
    <3>2. Cell(value).n = value
      BY DEF Cell
    <3>. QED  BY <1>5, <3>1, <3>2
  <2>. QED  BY <2>1, <2>2, <2>3 DEF DataAt, D
<1>13. \A b \in DOMAIN m : b >= FwdbMaxSize => m2[b] = m[b]
  BY SMTT(40), <1>1, <1>3, <1>5
<1>. QED  BY <1>6, <1>9, <1>10, <1>11, <1>12, <1>13 DEF DataWritten

\* A new entry goes behind the others, and leaves them as they are.
EntryAdded(m, m2, F, e, z, name) ==
  /\ m2 \in Memories /\ z \in F \cup {z} /\ Listed(m2, F \cup {z}, z) /\ (F \cup {z}) \ {z} = F
  /\ \A a \in F \ {e} : SameEntry(m, m2, a) /\ DataAt(m2, a) = DataAt(m, a)
  /\ NameAt(m2, e) = name
  /\ \A a \in DOMAIN m : a >= FwdbMaxSize => m2[a] = m[a]

\* CreateEntry() is such an addition: its end, padding and all, is computed three times, and each time it is "z".
LEMMA ListAdded ==
  ASSUME NEW m \in Memories, NEW F, NEW e \in F, Listed(m, F, e),
         NEW name \in EntryNames, NEW len \in DataSizes, NEW value \in 0 .. 1,
         \A a \in F \ {e} : NameAt(m, a) # name,
         NEW z, z = Aligned(e + DataOffset(name) + len), z + 1 <= FwdbMaxSize,
         NEW m2, m2 = NewEntry(m, name, len, value)
  PROVE  /\ EntryAdded(m, m2, F, e, z, name)
         /\ EntryAt(m2, e) = [ptr |-> e + DataOffset(name), size |-> len]
<1>. DEFINE D == DataOffset(name)
<1>1. /\ HeaderSize \in Nat /\ FwdbMaxSize \in Nat /\ Unit \in Nat \ {0} /\ e + 1 <= FwdbMaxSize
      /\ HeaderSize \in F /\ ListEnd(m) = e /\ e \in Nat /\ e % Unit = 0 /\ HeaderSize <= e
      /\ \A b \in F : b \in Nat /\ b <= e /\ m[b].n \in Nat /\ b \in DOMAIN m /\ b + 1 \in DOMAIN m
      /\ DOMAIN m = 0 .. FwdbMaxSize + Unit
  <2>1. DOMAIN m = 0 .. FwdbMaxSize + Unit
    BY DEF Memories
  <2>. QED  BY SMTT(40), <2>1, ListFields
<1>2. D \in Nat /\ D >= 2 /\ D % Unit = 0 /\ len \in Nat
  BY DataIsBehind, FwdbAssumption
<1>21. z = Aligned(e + D + len) /\ DataOffset(name) = D
  OBVIOUS
<1>. HIDE DEF D
<1>3. /\ z \in Nat /\ z % Unit = 0 /\ e + D + len <= z /\ z = e + D + Aligned(len)
      /\ Aligned(len) \in Nat /\ len <= Aligned(len)
  <2>1. e + D \in Nat /\ (e + D) % Unit = 0 /\ e + D + len \in Nat
    <3>1. e \in Nat /\ e % Unit = 0
      BY <1>1
    <3>2. D \in Nat /\ D % Unit = 0
      BY <1>2
    <3>3. (e + D) % Unit = 0
      BY ONLY <3>1, <3>2, AlignSum
    <3>. QED  BY <1>2, <3>1, <3>3
  <2>. DEFINE x == e + D
  <2>2. x \in Nat /\ x % Unit = 0 /\ z = Aligned(x + len)
    BY <1>21, <2>1
  <2>. HIDE DEF x
  <2>3. z = x + Aligned(len)
    BY <1>2, <2>2, AlignSum
  <2>4. /\ z \in Nat /\ z % Unit = 0 /\ x + len <= z /\ Aligned(len) \in Nat /\ len <= Aligned(len)
    <3>1. x + len \in Nat
      BY <1>2, <2>2
    <3>. QED  BY <1>2, <2>2, <3>1, AlignUp
  <2>. QED  BY <2>3, <2>4 DEF x
<1>4. e + 2 <= z /\ z \in DOMAIN m /\ e < z /\ e # z
  BY SMTT(40), <1>1, <1>2, <1>3
<1>5. \A b \in DOMAIN m :
        m2[b] = IF b = e THEN Cell(D + len)
                ELSE IF b = e + 1 THEN [n |-> 1, name |-> name]
                ELSE IF b \in e + 2 .. e + D - 1 \/ b = z THEN Cell(0)
                ELSE IF b \in e + D .. e + D + len - 1 THEN Cell(value)
                ELSE m[b]
  <2>. DEFINE at == ListEnd(m)
              data == at + DataOffset(name)
              New(b) == IF b = at THEN Cell(DataOffset(name) + len)
                        ELSE IF b = at + 1 THEN [n |-> 1, name |-> name]
                        ELSE IF b \in at + 2 .. data - 1 \/ b = data + Aligned(len) THEN Cell(0)
                        ELSE IF b \in data .. data + len - 1 THEN Cell(value)
                        ELSE m[b]
  <2>1. m2 = [b \in DOMAIN m |-> New(b)]
    BY DEF NewEntry
  <2>2. at = e /\ DataOffset(name) = D /\ data + Aligned(len) = z /\ data = e + D
    BY <1>1, <1>3, <1>21
  <2>3. \A b \in DOMAIN m : m2[b] = New(b)
    <3>. HIDE DEF New
    <3>. QED  BY <2>1
  <2>4. \A b : /\ b = at <=> b = e
               /\ b = at + 1 <=> b = e + 1
               /\ b \in at + 2 .. data - 1 <=> b \in e + 2 .. e + D - 1
               /\ b = data + Aligned(len) <=> b = z
               /\ b \in data .. data + len - 1 <=> b \in e + D .. e + D + len - 1
    <3>1. e \in Nat /\ D \in Nat /\ len \in Nat
      BY <1>1, <1>2
    <3>. HIDE DEF at, data
    <3>. QED  BY ONLY <2>2, <3>1
  <2>5. Cell(DataOffset(name) + len) = Cell(D + len)
    BY <1>21
  <2>. HIDE DEF at, data
  <2>. QED  BY ONLY <2>3, <2>4, <2>5 DEF New
<1>6. m2 \in Memories
  <2>1. /\ Cell(D + len) \in Cells /\ [n |-> 1, name |-> name] \in Cells
        /\ Cell(0) \in Cells /\ Cell(value) \in Cells
    <3>1. /\ D + len \in 0 .. FwdbMaxSize /\ {0, 1, value} \subseteq 0 .. FwdbMaxSize
          /\ {name, NoName} \subseteq EntryNames \cup {NoName}
      <4>1. D + len \in Nat /\ D + len <= FwdbMaxSize /\ 1 <= FwdbMaxSize
        BY <1>1, <1>2, <1>3
      <4>. QED  BY <1>1, <4>1
    <3>. QED  BY <3>1 DEF Cell, Cells
  <2>2. \A b \in DOMAIN m : m2[b] \in Cells
    <3>1. \A b \in DOMAIN m : m[b] \in Cells
      BY DEF Memories
    <3>. HIDE DEF Cells, Cell
    <3>. QED  BY <1>5, <2>1, <3>1
  <2>3. m2 = [b \in 0 .. FwdbMaxSize + Unit |-> m2[b]]
    BY <1>1 DEF NewEntry
  <2>. QED  BY <1>1, <2>2, <2>3 DEF Memories
<1>7. /\ m2[e] = Cell(D + len) /\ m2[e + 1] = [n |-> 1, name |-> name] /\ m2[z] = Cell(0)
      /\ \A b \in DOMAIN m : b < e => m2[b] = m[b]
  <2>1. e \in DOMAIN m /\ e + 1 \in DOMAIN m /\ e + 1 # e
    BY <1>1
  <2>2. z # e /\ z # e + 1
    BY <1>1, <1>3, <1>4
  <2>3. \A b \in DOMAIN m : b < e =>
          /\ b # e /\ b # e + 1 /\ b # z /\ b \notin e + 2 .. e + D - 1
          /\ b \notin e + D .. e + D + len - 1
    BY <1>1, <1>2, <1>4
  <2>. QED  BY <1>4, <1>5, <2>1, <2>2, <2>3
<1>8. /\ m2[e].n = D + len /\ D + len # 0 /\ NameAt(m2, e) = name /\ SizeIn(m2, e) = len
      /\ EntryAt(m2, e) = [ptr |-> e + D, size |-> len] /\ m2[z].n = 0
  <2>1. m2[e].n = D + len /\ m2[z].n = 0 /\ NameAt(m2, e) = name /\ D + len # 0 /\ D + len - D = len
    BY <1>2, <1>7 DEF Cell, NameAt
  <2>2. SizeIn(m2, e) = len
    <3>1. DataOffset(NameAt(m2, e)) = D
      BY <1>21, <2>1
    <3>2. SizeIn(m2, e) = m2[e].n - DataOffset(NameAt(m2, e))
      BY DEF SizeIn
    <3>. QED  BY ONLY <1>2, <2>1, <3>1, <3>2
  <2>. QED  BY <1>21, <2>1, <2>2 DEF EntryAt, SizeIn, NameAt
<1>9. /\ \A b \in F \ {e} : b < e /\ b + 2 <= e /\ SameEntry(m, m2, b) /\ DataAt(m2, b) = DataAt(m, b)
  <2>1. ASSUME NEW b \in F \ {e}
        PROVE  b < e /\ b + 2 <= e /\ SameEntry(m, m2, b) /\ DataAt(m2, b) = DataAt(m, b)
    <3>. DEFINE Db == DataOffset(NameAt(m, b))
    <3>1. /\ b < e /\ Db \in Nat /\ Db >= 2 /\ SizeIn(m, b) \in Nat /\ m[b].n = Db + SizeIn(m, b)
          /\ b + m[b].n <= e
      BY ListEntries
    <3>. HIDE DEF Db
    <3>2. b \in Nat /\ b \in DOMAIN m /\ b + 1 \in DOMAIN m
      BY <1>1
    <3>3. b + 2 <= e /\ b + 1 < e
      BY <1>1, <3>1, <3>2
    <3>4. SameEntry(m, m2, b)
      BY <1>7, <3>1, <3>2, <3>3, CellsOfEntry
    <3>5. ASSUME NEW i \in 1 .. SizeIn(m, b)
          PROVE  m2[b + Db + i - 1].n = m[b + Db + i - 1].n
      <4>1. b + Db + i - 1 \in Nat /\ b + Db + i - 1 < e
        <5>1. i \in Nat /\ 1 <= i /\ i <= SizeIn(m, b)
          BY <3>1
        <5>2. b + (Db + SizeIn(m, b)) <= e
          BY <3>1
        <5>3. e \in Nat /\ b \in Nat /\ Db \in Nat /\ SizeIn(m, b) \in Nat
          BY <1>1, <3>1, <3>2
        <5>. QED  BY ONLY <5>1, <5>2, <5>3
      <4>2. b + Db + i - 1 \in DOMAIN m
        BY <1>1, <4>1
      <4>. QED  BY <1>7, <4>1, <4>2
    <3>6. DataAt(m2, b) = DataAt(m, b)
      BY <3>4, <3>5 DEF DataAt, SameEntry, Db
    <3>. QED  BY <3>1, <3>3, <3>4, <3>6
  <2>. QED  BY <2>1
<1>10. \A b \in F \ {e} : m2[b] = m[b] /\ b < e /\ m[b].n # 0 /\ NameAt(m2, b) = NameAt(m, b)
  BY <1>9 DEF SameEntry, Listed
<1>. DEFINE F2 == F \cup {z}
<1>11. z \notin F /\ \A b \in F : b < z
  BY SMTT(40), <1>1, <1>3, <1>4
<1>12. FieldsOf(m2, F2)
  <2>1. \A x \in HeaderSize .. FwdbMaxSize + Unit :
          x \in F <=> x % Unit = 0 /\ (x = HeaderSize \/ \E b \in F : b < x /\ m[b].n # 0 /\ Aligned(b + m[b].n) = x)
    BY DEF Listed, FieldsOf
  <2>2. F2 \subseteq HeaderSize .. FwdbMaxSize + Unit
    <3>1. F \subseteq HeaderSize .. FwdbMaxSize + Unit
      BY DEF Listed, FieldsOf
    <3>2. z \in HeaderSize .. FwdbMaxSize + Unit
      BY <1>1, <1>3, <1>4
    <3>. QED  BY <3>1, <3>2
  <2>3. m[e].n = 0 /\ m2[e].n # 0 /\ Aligned(e + m2[e].n) = z
    <3>1. e + (D + len) = e + D + len
      BY <1>1, <1>2
    <3>. QED  BY <1>8, <3>1 DEF Listed, D
  <2>4. ASSUME NEW x \in HeaderSize .. FwdbMaxSize + Unit
        PROVE  x \in F2 <=> /\ x % Unit = 0
                            /\ x = HeaderSize \/ \E b \in F2 : b < x /\ m2[b].n # 0 /\ Aligned(b + m2[b].n) = x
    <3>. HIDE DEF F2
    <3>1. CASE x \in F
      <4>1. x = HeaderSize \/ \E b \in F : b < x /\ m[b].n # 0 /\ Aligned(b + m[b].n) = x
        BY <2>1, <3>1
      <4>2. ASSUME NEW b \in F, b < x, m[b].n # 0, Aligned(b + m[b].n) = x
            PROVE  b \in F2 /\ m2[b].n = m[b].n
        BY <1>10, <2>3, <4>2 DEF F2
      <4>3. x \in F2 /\ x % Unit = 0
        BY <2>1, <3>1 DEF F2
      <4>. QED  BY <4>1, <4>2, <4>3
    <3>2. CASE x = z
      <4>1. e \in F2 /\ z \in F2
        BY DEF F2
      <4>. QED  BY <1>3, <1>4, <2>3, <3>2, <4>1
    <3>3. CASE x \notin F2
      <4>1. x # HeaderSize
        BY <1>1, <3>3 DEF F2
      <4>2. ASSUME x % Unit = 0, NEW b \in F2, b < x, m2[b].n # 0, Aligned(b + m2[b].n) = x
            PROVE  FALSE
        <5>1. b # z /\ b # e
          BY <1>8, <2>3, <3>3, <4>2 DEF F2
        <5>2. b \in F /\ m2[b] = m[b]
          BY <1>10, <5>1 DEF F2
        <5>3. x \in F
          BY <2>1, <4>2, <5>2
        <5>. QED  BY <3>3, <5>3 DEF F2
      <4>. QED  BY <3>3, <4>1, <4>2
    <3>. QED  BY <3>1, <3>2, <3>3 DEF F2
  <2>. QED  BY <2>2, <2>4 DEF FieldsOf
<1>13. Listed(m2, F2, z)
  <2>1. F2 \subseteq HeaderSize .. FwdbMaxSize - 1
    <3>1. F \subseteq HeaderSize .. FwdbMaxSize - 1
      BY DEF Listed
    <3>2. z \in HeaderSize .. FwdbMaxSize - 1
      BY <1>1, <1>3, <1>4
    <3>. QED  BY <3>1, <3>2
  <2>2. z \in F2 /\ m2[z].n = 0 /\ \A b \in F2 : b <= z
    BY <1>3, <1>8, <1>11, <1>1
  <2>3. ASSUME NEW b \in F2, b # z
        PROVE  /\ m2[b].n # 0 /\ NameAt(m2, b) \in EntryNames /\ SizeIn(m2, b) \in DataSizes
               /\ Aligned(b + m2[b].n) \in F2
    <3>1. CASE b = e
      <4>1. e + (D + len) = e + D + len
        BY <1>1, <1>2
      <4>. QED  BY <1>8, <3>1, <4>1 DEF D
    <3>2. CASE b # e
      <4>1. b \in F \ {e}
        BY <2>3, <3>2
      <4>2. /\ m[b].n # 0 /\ NameAt(m, b) \in EntryNames /\ SizeIn(m, b) \in DataSizes
            /\ Aligned(b + m[b].n) \in F
        BY <4>1 DEF Listed
      <4>. QED  BY <1>9, <4>1, <4>2 DEF SameEntry
    <3>. QED  BY <3>1, <3>2
  <2>4. ASSUME NEW b \in F2, NEW c \in F2, b < c
        PROVE  b + m2[b].n <= c
    <3>1. CASE b = z
      <4>1. c \in Nat /\ c <= z
        BY <1>1, <1>3, <1>11
      <4>. QED  BY <1>3, <2>4, <3>1, <4>1
    <3>2. CASE b = e
      <4>1. c = z
        <5>1. c \in F => c <= e /\ c \in Nat
          BY <1>1
        <5>. QED  BY <1>1, <2>4, <3>2, <5>1
      <4>. QED  BY SMTT(40), <1>1, <1>2, <1>3, <1>8, <3>2, <4>1
    <3>3. CASE b # e /\ b # z
      <4>1. b \in F \ {e} /\ m2[b] = m[b] /\ b \in Nat /\ m[b].n \in Nat
        BY <1>1, <1>10, <3>3
      <4>2. CASE c = z
        <5>1. b + m[b].n <= e
          BY <4>1, ListEntries
        <5>. QED  BY SMTT(40), <1>1, <1>3, <1>4, <4>1, <4>2, <5>1
      <4>3. CASE c \in F
        BY <2>4, <4>1, <4>3 DEF Listed
      <4>. QED  BY <4>2, <4>3
    <3>. QED  BY <3>1, <3>2, <3>3
  <2>5. ASSUME NEW b \in F2 \ {z}, NEW c \in F2 \ {z}, NameAt(m2, b) = NameAt(m2, c)
        PROVE  b = c
    <3>1. b \in F /\ c \in F
      OBVIOUS
    <3>2. CASE b = e /\ c = e
      BY <3>2, Zenon
    <3>3. CASE b = e /\ c # e
      BY <1>8, <1>10, <2>5, <3>1, <3>3, Zenon
    <3>4. CASE b # e /\ c = e
      BY <1>8, <1>10, <2>5, <3>1, <3>4, Zenon
    <3>5. CASE b # e /\ c # e
      <4>1. NameAt(m, b) = NameAt(m, c) /\ b \in F \ {e} /\ c \in F \ {e}
        BY <1>10, <2>5, <3>1, <3>5
      <4>. QED  BY <4>1 DEF Listed
    <3>. QED  BY <3>2, <3>3, <3>4, <3>5
  <2>. HIDE DEF F2
  <2>. QED  BY <1>12, <2>1, <2>2, <2>3, <2>4, <2>5 DEF Listed
<1>14. \A a \in DOMAIN m : a >= FwdbMaxSize => m2[a] = m[a]
  <2>1. \A b \in DOMAIN m : b >= FwdbMaxSize =>
          /\ b # e /\ b # e + 1 /\ b # z /\ b \notin e + 2 .. e + D - 1
          /\ b \notin e + D .. e + D + len - 1
    <3>1. e < FwdbMaxSize /\ e + 1 < FwdbMaxSize /\ z < FwdbMaxSize
      BY <1>1, <1>3, <1>4
    <3>2. e + D - 1 < FwdbMaxSize /\ e + D + len - 1 < FwdbMaxSize
      BY SMTT(40), <1>1, <1>2, <1>3
    <3>3. DOMAIN m \subseteq Nat
      BY <1>1
    <3>4. e \in Nat /\ D \in Nat /\ len \in Nat /\ FwdbMaxSize \in Nat
      BY <1>1, <1>2
    <3>. QED  BY ONLY <3>1, <3>2, <3>3, <3>4
  <2>. QED  BY <1>5, <2>1
<1>15. F2 \ {z} = F /\ z \in F2
  BY <1>11
<1>. QED  BY <1>6, <1>8, <1>9, <1>13, <1>14, <1>15 DEF EntryAdded, D

\* And to what the list says: "added" says all that "table" does, and something of "name".
AlsoSays(added, table, name) ==
  /\ name \notin DOMAIN table /\ name \in DOMAIN added
  /\ added = [n \in DOMAIN table \cup {name} |-> IF n = name THEN added[name] ELSE table[n]]

\* A new entry adds its name to the table.
LEMMA TableAdded ==
  ASSUME NEW m \in Memories, NEW F, NEW e \in F, Listed(m, F, e), NEW name,
         \A a \in F \ {e} : NameAt(m, a) # name,
         NEW m2, NEW z, EntryAdded(m, m2, F, e, z, name)
  PROVE  AlsoSays(TableOf(m2), TableOf(m), name)
<1>. DEFINE T == TableOf(m)  T2 == TableOf(m2)
<1>1. /\ DOMAIN T = {NameAt(m, a) : a \in F \ {e}}
      /\ \A a \in F \ {e} : T[NameAt(m, a)] = DataAt(m, a)
  BY TableIs
<1>2. /\ m2 \in Memories /\ z \in F \cup {z} /\ Listed(m2, F \cup {z}, z) /\ (F \cup {z}) \ {z} = F
      /\ \A a \in F \ {e} : NameAt(m2, a) = NameAt(m, a) /\ DataAt(m2, a) = DataAt(m, a)
      /\ NameAt(m2, e) = name
  BY DEF EntryAdded, SameEntry
<1>3. /\ DOMAIN T2 = {NameAt(m2, a) : a \in F}
      /\ \A a \in F : T2[NameAt(m2, a)] = DataAt(m2, a)
      /\ T2 = [n \in DOMAIN T2 |-> T2[n]]
  <2>. DEFINE F2 == F \cup {z}
  <2>1. z \in F2 /\ Listed(m2, F2, z) /\ F2 \ {z} = F
    BY <1>2
  <2>. HIDE DEF F2
  <2>2. /\ DOMAIN T2 = {NameAt(m2, a) : a \in F2 \ {z}}
        /\ \A a \in F2 \ {z} : T2[NameAt(m2, a)] = DataAt(m2, a)
        /\ T2 = [n \in DOMAIN T2 |-> T2[n]]
    BY <1>2, <2>1, TableIs
  <2>. QED  BY <2>1, <2>2
<1>. HIDE DEF T, T2
<1>4. name \notin DOMAIN T /\ name \in DOMAIN T2
  BY <1>1, <1>2, <1>3
<1>5. DOMAIN T2 = DOMAIN T \cup {name}
  BY <1>1, <1>2, <1>3
<1>6. \A n \in DOMAIN T : T2[n] = T[n]
  BY <1>1, <1>2, <1>3
<1>7. T2 = [n \in DOMAIN T \cup {name} |-> T2[n]]
  BY <1>3, <1>5
<1>8. T2 = [n \in DOMAIN T \cup {name} |-> IF n = name THEN T2[name] ELSE T[n]]
  BY <1>4, <1>6, <1>7
<1>. QED  BY <1>4, <1>8 DEF T, T2, AlsoSays

\* A write to the data of one entry changes one place of the table.
LEMMA TableWritten ==
  ASSUME NEW m \in Memories, NEW F, NEW e \in F, Listed(m, F, e), NEW a \in F \ {e}, NEW i, NEW value,
         NEW m2, DataWritten(m, m2, F, e, a, i, value)
  PROVE  /\ NameAt(m, a) \in DOMAIN TableOf(m) /\ i \in DOMAIN TableOf(m)[NameAt(m, a)]
         /\ TableOf(m2) = [TableOf(m) EXCEPT ![NameAt(m, a)][i] = value]
<1>. DEFINE T == TableOf(m)  T2 == TableOf(m2)  nm == NameAt(m, a)
<1>1. /\ DOMAIN T = {NameAt(m, b) : b \in F \ {e}}
      /\ \A b \in F \ {e} : T[NameAt(m, b)] = DataAt(m, b)
      /\ T = [n \in DOMAIN T |-> T[n]]
  BY TableIs
<1>2. /\ m2 \in Memories /\ Listed(m2, F, e) /\ \A b \in F \ {e} : NameAt(m2, b) = NameAt(m, b)
      /\ \A b \in F \ {e} : b # a => DataAt(m2, b) = DataAt(m, b)
      /\ DataAt(m2, a) = [DataAt(m, a) EXCEPT ![i] = value] /\ i \in DOMAIN DataAt(m, a)
  BY DEF DataWritten, SameEntry
<1>3. /\ DOMAIN T2 = {NameAt(m2, b) : b \in F \ {e}}
      /\ \A b \in F \ {e} : T2[NameAt(m2, b)] = DataAt(m2, b)
      /\ T2 = [n \in DOMAIN T2 |-> T2[n]]
  BY <1>2, TableIs
<1>. HIDE DEF T, T2
<1>4. nm \in DOMAIN T /\ T[nm] = DataAt(m, a) /\ T2[nm] = [T[nm] EXCEPT ![i] = value]
  BY <1>1, <1>2, <1>3
<1>5. DOMAIN T2 = DOMAIN T
  BY <1>1, <1>2, <1>3
<1>6. ASSUME NEW n \in DOMAIN T, n # nm PROVE T2[n] = T[n]
  <2>1. PICK b \in F \ {e} : n = NameAt(m, b)
    BY <1>1
  <2>2. b # a
    BY <1>6, <2>1
  <2>. QED  BY <1>1, <1>2, <1>3, <2>1, <2>2
<1>. HIDE DEF nm
<1>7. T2 = [T EXCEPT ![nm] = T2[nm]]
  BY <1>1, <1>3, <1>4, <1>5, <1>6
<1>8. T2 = [T EXCEPT ![nm][i] = value]
  BY <1>4, <1>7
<1>. QED  BY <1>2, <1>4, <1>8 DEF T, T2, nm

\* Nothing is in the empty list.
LEMMA TableCreated ==
  ASSUME NEW m \in Memories, Listed(m, {HeaderSize}, HeaderSize)
  PROVE  TableOf(m) = <<>>
<1>. DEFINE T == TableOf(m)
<1>1. DOMAIN T = {} /\ T = [n \in DOMAIN T |-> T[n]]
  <2>1. DOMAIN T = {NameAt(m, a) : a \in {HeaderSize} \ {HeaderSize}} /\ T = [n \in DOMAIN T |-> T[n]]
    BY TableIs
  <2>. QED  BY <2>1
<1>. HIDE DEF T
<1>2. T \in [1 .. 0 -> Nat] /\ 1 .. 0 = {}
  BY <1>1
<1>3. T \in Seq(Nat) /\ Len(T) = 0
  BY <1>1, <1>2, LenProperties, IsASeq
<1>. QED  BY <1>3, EmptySeq DEF T

-----------------------------------------------------------------------------
\* The calls, one by one: each keeps the invariant, and is a step of FwdbTable or none.

Behind(m) == \A a \in DOMAIN m : a >= FwdbMaxSize => m[a] = Junk

\* A written or an added entry is not behind the database.
LEMMA BehindKept ==
  ASSUME NEW m \in Memories, NEW m2 \in Memories, Behind(m),
         \A a \in DOMAIN m : a >= FwdbMaxSize => m2[a] = m[a]
  PROVE  Behind(m2)
BY DEF Behind, Memories

\* fwdb_create_db() makes a list that fwdb_use_db() accepts, with an empty table.
LEMMA CreateStep ==
  ASSUME FwdbInv, CreateDb
  PROVE  FwdbInv' /\ CurrentTable' = CurrentTable
<1>1. /\ mem \in Memories /\ ~in_use /\ entries = {} /\ Behind(mem)
      /\ created' = TRUE /\ entries' = entries /\ in_use' = Accepts(mem')
      /\ mem' = [mem EXCEPT ![HeaderSize] = Cell(0)]
  BY DEF FwdbInv, CreateDb, Behind
<1>2. mem' \in Memories /\ Listed(mem', {HeaderSize}, HeaderSize)
  BY <1>1, ListCreated
<1>3. Accepts(mem')
  BY <1>2, ListAccepted
<1>4. Behind(mem')
  <2>1. HeaderSize < FwdbMaxSize /\ HeaderSize \in Nat /\ FwdbMaxSize \in Nat
    BY FwdbAssumption
  <2>2. \A a \in DOMAIN mem : a >= FwdbMaxSize => mem'[a] = mem[a]
    BY <1>1, <2>1 DEF Memories
  <2>. QED  BY <1>1, <1>2, <2>2, BehindKept
<1>5. Accepts(mem') = TRUE
  BY <1>3 DEF Accepts
<1>6. Shared(mem)'
  BY <1>1, <1>2 DEF Shared
<1>7. FwdbInv'
  BY <1>1, <1>2, <1>4, <1>5, <1>6 DEF FwdbInv, Behind
<1>8. CurrentTable' = CurrentTable
  BY <1>1, <1>2, <1>5, TableCreated DEF CurrentTable
<1>. QED  BY <1>7, <1>8

\* fwdb_access() of an entry that is there hands out an entry of the list.
LEMMA LocateStep ==
  ASSUME FwdbInv, NEW name \in EntryNames, LocateEntry(name)
  PROVE  FwdbInv' /\ CurrentTable' = CurrentTable
<1>1. /\ mem \in Memories /\ in_use /\ Behind(mem) /\ Shared(mem) /\ created \in BOOLEAN /\ in_use = created
      /\ mem' = mem /\ created' = created /\ in_use' = in_use
  BY DEF FwdbInv, LocateEntry, Behind
<1>2. PICK F : \E e \in F : Listed(mem, F, e) /\ entries \subseteq {EntryAt(mem, a) : a \in F \ {e}}
  BY <1>1 DEF Shared
<1>3. PICK e \in F : Listed(mem, F, e) /\ entries \subseteq {EntryAt(mem, a) : a \in F \ {e}}
  BY <1>2
<1>4. Found(name) \subseteq F \ {e} /\ F \subseteq Nat
  BY <1>1, <1>3, ListFields DEF Found
<1>. DEFINE a == CHOOSE a \in Found(name) : \A b \in Found(name) : a <= b
<1>5. a \in Found(name)
  <2>1. Found(name) # {} /\ Found(name) \subseteq Nat
    BY <1>4 DEF LocateEntry
  <2>2. \E x \in Found(name) : \A b \in Found(name) : x <= b
    BY ONLY <2>1, Least
  <2>. QED  BY <2>2
<1>6. entries' = entries \cup {EntryAt(mem, a)}
  BY DEF LocateEntry
<1>. HIDE DEF a
<1>7. Shared(mem)'
  <2>1. entries' \subseteq {EntryAt(mem, b) : b \in F \ {e}}
    BY <1>3, <1>4, <1>5, <1>6
  <2>. QED  BY <1>1, <1>3, <2>1 DEF Shared
<1>8. FwdbInv'
  BY <1>1, <1>7 DEF FwdbInv, Behind
<1>. QED  BY <1>1, <1>8 DEF CurrentTable

\* fwdb_access() of a new entry: every entry handed out before stays an entry.
LEMMA AddStep ==
  ASSUME FwdbInv, NEW name \in EntryNames, NEW len \in DataSizes, NEW value \in 0 .. 1,
         CreateEntry(name, len, value)
  PROVE  /\ FwdbInv' /\ name \in DOMAIN CurrentTable'
         /\ Table!Add(name, CurrentTable'[name])
<1>1. /\ mem \in Memories /\ in_use /\ Behind(mem) /\ Shared(mem) /\ created \in BOOLEAN /\ in_use = created
      /\ mem' = NewEntry(mem, name, len, value) /\ created' = created /\ in_use' = in_use
      /\ Found(name) = {} /\ HasRoom(name, len)
      /\ entries' = entries \cup {[ptr |-> ListEnd(mem) + DataOffset(name), size |-> len]}
  BY DEF FwdbInv, CreateEntry, Behind
<1>2. PICK F : \E e \in F : Listed(mem, F, e) /\ entries \subseteq {EntryAt(mem, a) : a \in F \ {e}}
  BY <1>1 DEF Shared
<1>3. PICK e \in F : Listed(mem, F, e) /\ entries \subseteq {EntryAt(mem, a) : a \in F \ {e}}
  BY <1>2
<1>4. ListEnd(mem) = e /\ EntriesIn(mem) = F \ {e}
  BY <1>1, <1>3, ListFields
<1>5. \A a \in F \ {e} : NameAt(mem, a) # name
  BY <1>1, <1>4 DEF Found, NameAt
<1>. DEFINE z == Aligned(e + DataOffset(name) + len)  F2 == F \cup {z}
<1>6. z + 1 <= FwdbMaxSize
  BY <1>1, <1>4 DEF HasRoom
<1>. HIDE DEF z
<1>7. /\ EntryAdded(mem, mem', F, e, z, name)
      /\ EntryAt(mem', e) = [ptr |-> e + DataOffset(name), size |-> len]
  BY <1>1, <1>3, <1>5, <1>6, ListAdded DEF z
<1>8. /\ mem' \in Memories /\ z \in F2 /\ Listed(mem', F2, z) /\ F2 \ {z} = F
      /\ \A a \in F \ {e} : EntryAt(mem', a) = EntryAt(mem, a)
      /\ \A a \in DOMAIN mem : a >= FwdbMaxSize => mem'[a] = mem[a]
  BY <1>7 DEF EntryAdded, SameEntry
<1>9. Shared(mem)'
  <2>1. \A c \in entries' : \E a \in F : c = EntryAt(mem', a)
    BY <1>1, <1>3, <1>4, <1>7, <1>8
  <2>2. entries' \subseteq {EntryAt(mem', a) : a \in F2 \ {z}}
    BY <1>8, <2>1
  <2>. HIDE DEF F2
  <2>. QED  BY <1>8, <2>2 DEF Shared
<1>10. FwdbInv'
  <2>1. Behind(mem')
    BY <1>1, <1>8, BehindKept
  <2>. QED  BY <1>1, <1>8, <1>9, <2>1 DEF FwdbInv, Behind
<1>11. AlsoSays(TableOf(mem'), TableOf(mem), name)
  BY <1>1, <1>3, <1>5, <1>7, TableAdded
<1>12. CurrentTable = TableOf(mem) /\ CurrentTable' = TableOf(mem')
  BY <1>1 DEF CurrentTable
<1>. QED  BY <1>10, <1>11, <1>12 DEF Table!Add, AlsoSays

\* A write to an entry that was handed out, when- and wherever that was.
LEMMA WriteStep ==
  ASSUME FwdbInv, NEW c \in entries, NEW value \in 0 .. 1, NEW ofs \in 0 .. c.size,
         WriteData(c, ofs, value)
  PROVE  /\ FwdbInv'
         /\ \E name \in DOMAIN CurrentTable : \E i \in DOMAIN CurrentTable[name] : Table!Write(name, i, value)
<1>1. /\ mem \in Memories /\ in_use /\ Behind(mem) /\ Shared(mem) /\ created \in BOOLEAN /\ in_use = created
      /\ ofs < c.size /\ mem' = [mem EXCEPT ![c.ptr + ofs] = Cell(value)]
      /\ created' = created /\ in_use' = in_use /\ entries' = entries
  BY DEF FwdbInv, WriteData, Behind
<1>2. PICK F : \E e \in F : Listed(mem, F, e) /\ entries \subseteq {EntryAt(mem, a) : a \in F \ {e}}
  BY <1>1 DEF Shared
<1>3. PICK e \in F : Listed(mem, F, e) /\ entries \subseteq {EntryAt(mem, a) : a \in F \ {e}}
  BY <1>2
<1>4. PICK a \in F \ {e} : c = EntryAt(mem, a)
  BY <1>3
<1>5. c.size = SizeIn(mem, a) /\ SizeIn(mem, a) \in Nat
  BY <1>1, <1>3, <1>4, ListEntries
<1>6. ofs \in Nat /\ ofs < SizeIn(mem, a)
  BY <1>1, <1>5
<1>7. DataWritten(mem, mem', F, e, a, ofs + 1, value)
  <2>1. mem' = [mem EXCEPT ![EntryAt(mem, a).ptr + ofs] = Cell(value)]
    BY <1>1, <1>4
  <2>. QED  BY <1>1, <1>3, <1>6, <2>1, ListWritten
<1>8. /\ mem' \in Memories /\ Listed(mem', F, e)
      /\ \A b \in F \ {e} : EntryAt(mem', b) = EntryAt(mem, b)
      /\ \A b \in DOMAIN mem : b >= FwdbMaxSize => mem'[b] = mem[b]
  BY <1>7 DEF DataWritten, SameEntry
<1>9. Shared(mem)'
  <2>1. entries' \subseteq {EntryAt(mem', b) : b \in F \ {e}}
    BY <1>1, <1>3, <1>8
  <2>. QED  BY <1>8, <2>1 DEF Shared
<1>10. FwdbInv'
  <2>1. Behind(mem')
    BY <1>1, <1>8, BehindKept
  <2>. QED  BY <1>1, <1>8, <1>9, <2>1 DEF FwdbInv, Behind
<1>11. /\ NameAt(mem, a) \in DOMAIN TableOf(mem) /\ ofs + 1 \in DOMAIN TableOf(mem)[NameAt(mem, a)]
       /\ TableOf(mem') = [TableOf(mem) EXCEPT ![NameAt(mem, a)][ofs + 1] = value]
  BY <1>1, <1>3, <1>7, TableWritten
<1>12. CurrentTable = TableOf(mem) /\ CurrentTable' = TableOf(mem')
  BY <1>1 DEF CurrentTable
<1>. QED  BY <1>10, <1>11, <1>12 DEF Table!Write

\* The next image takes over the same table.
LEMMA HandOffStep ==
  ASSUME FwdbInv, HandOff
  PROVE  FwdbInv' /\ CurrentTable' = CurrentTable
<1>1. /\ mem \in Memories /\ in_use /\ Behind(mem) /\ Shared(mem) /\ created \in BOOLEAN /\ in_use = created
      /\ mem' = mem /\ created' = created /\ in_use' = Accepts(mem) /\ entries' = {}
  BY DEF FwdbInv, HandOff, Behind
<1>2. PICK F : \E e \in F : Listed(mem, F, e)
  BY <1>1 DEF Shared
<1>3. Accepts(mem) = TRUE
  <2>1. Accepts(mem)
    BY <1>1, <1>2, ListAccepted
  <2>. QED  BY <2>1 DEF Accepts
<1>4. Shared(mem)'
  BY <1>1, <1>2 DEF Shared
<1>5. FwdbInv'
  BY <1>1, <1>3, <1>4 DEF FwdbInv, Behind
<1>. QED  BY <1>1, <1>3, <1>5 DEF CurrentTable

\* All of them together.
LEMMA FwdbStep ==
  ASSUME FwdbInv, [FwdbNext]_fwdbVars
  PROVE  FwdbInv' /\ [Table!TableNext]_CurrentTable
<1>1. CASE CreateDb
  BY <1>1, CreateStep
<1>2. CASE HandOff
  BY <1>2, HandOffStep
<1>3. CASE \E name \in EntryNames : LocateEntry(name)
  BY <1>3, LocateStep
<1>4. ASSUME NEW name \in EntryNames, NEW len \in DataSizes, NEW value \in 0 .. 1,
             CreateEntry(name, len, value)
      PROVE  FwdbInv' /\ Table!TableNext
  <2>1. FwdbInv' /\ name \in DOMAIN CurrentTable' /\ Table!Add(name, CurrentTable'[name])
    BY <1>4, AddStep
  <2>. QED  BY <2>1 DEF Table!TableNext
<1>5. ASSUME NEW c \in entries, NEW value \in 0 .. 1, NEW ofs \in 0 .. c.size,
             WriteData(c, ofs, value)
      PROVE  FwdbInv' /\ Table!TableNext
  <2>1. /\ FwdbInv'
        /\ \E name \in DOMAIN CurrentTable : \E i \in DOMAIN CurrentTable[name] : Table!Write(name, i, value)
    BY <1>5, WriteStep
  <2>. QED  BY <2>1 DEF Table!TableNext
<1>6. CASE UNCHANGED fwdbVars
  BY <1>6 DEF fwdbVars, FwdbInv, Shared, CurrentTable
<1>. QED  BY <1>1, <1>2, <1>3, <1>4, <1>5, <1>6 DEF FwdbNext

\* Before the first call nothing is there.
LEMMA FwdbStart ==
  ASSUME FwdbInit
  PROVE  FwdbInv /\ Table!TableInit
<1>1. /\ mem = [a \in 0 .. FwdbMaxSize + Unit |-> Junk] /\ created = FALSE /\ in_use = FALSE /\ entries = {}
  BY DEF FwdbInit
<1>2. mem \in Memories /\ \A a \in DOMAIN mem : mem[a] = Junk
  <2>1. Junk \in Cells
    BY FwdbAssumption DEF Junk, Cell, Cells
  <2>. QED  BY <1>1, <2>1 DEF Memories
<1>3. FwdbInv
  BY <1>1, <1>2 DEF FwdbInv
<1>4. Table!TableInit
  BY <1>1 DEF Table!TableInit, CurrentTable
<1>. QED  BY <1>3, <1>4

-----------------------------------------------------------------------------
(***************************************************************************)
(* The theorems.                                                           *)
(***************************************************************************)

\* Every variable of the MMC driver, its controller and its card holds a value of its
\* type: no transfer runs beyond the buffer or the card.
THEOREM MmcTypeCorrect == MmcSpec => []MmcTypeOK
<1>1. MmcInv => MmcTypeOK
  BY DEF MmcInv
<1> QED BY <1>1, MmcInvHolds, PTL

\* block_mmc_read() and block_mmc_write() return the count only when each block of the
\* buffer was exchanged with the block asked for, and never leave a transfer behind,
\* however answers, ends and errors of earlier commands and tries come in between.
THEOREM MmcExchanges == MmcSpec => []BufferIsExchanged
<1>1. MmcInv => BufferIsExchanged
  BY DEF MmcInv, TransferIsOurs, Exchanged, BufferIsExchanged
<1> QED BY <1>1, MmcInvHolds, PTL

\* Every variable of the update of the EC holds a value of its type.
THEOREM EcTypeCorrect == EcSpec => []EcTypeOK
<1>1. EcInv => EcTypeOK
  BY DEF EcInv
<1> QED BY <1>1, EcInvHolds, PTL

\* VbExEcUpdateRW() succeeds only with the whole image in an erased region, whatever
\* commands and answers are lost, and no erase comes late.
THEOREM EcUpdates == EcSpec => []UpdateIsWhole
<1>1. EcInv => UpdateIsWhole
  BY DEF EcInv, WholeUpTo, UpdateIsWhole
<1> QED BY <1>1, EcInvHolds, PTL

\* Every variable of the disks of USB mass storage holds a value of its type.
THEOREM MscTypeCorrect == MscSpec => []MscTypeOK
<1>1. DisksInv => MscTypeOK
  BY DEF DisksInv
<1> QED BY <1>1, DisksInvHolds, PTL

\* readwrite_blocks() succeeds only when the device has carried out every chunk.
THEOREM DisksDoIt == MscSpec => []OkMeansDone
<1>1. DisksInv => OkMeansDone
  BY DEF DisksInv, CarriedOK, OkMeansDone
<1> QED BY <1>1, DisksInvHolds, PTL

\* No loop of the driver goes on with a device that was detached below it.
THEOREM NoDetachedUse == MscSpec => []NoUseAfterDetach
<1>1. DisksInv => NoUseAfterDetach
  BY DEF DisksInv, NoUseAfterDetach
<1> QED BY <1>1, DisksInvHolds, PTL

\* Between two calls of vboot the list of disks is that of the device that is ready.
THEOREM DisksListed == MscSpec => []ListedIsReady
<1>1. DisksInv => ListedIsReady
  BY DEF DisksInv, TaskOK, ListOK, ListedIsReady
<1> QED BY <1>1, DisksInvHolds, PTL
\* The list of the firmware database is well-formed, and every entry that a client has is in
\* it.
THEOREM FwdbInvHolds == FwdbSpec => []FwdbInv
BY FwdbStart, FwdbStep, PTL DEF FwdbSpec

\* Every variable of the firmware database holds a value of its type.
THEOREM FwdbTypeCorrect == FwdbSpec => []FwdbTypeOK
<1>1. ASSUME FwdbInv PROVE FwdbTypeOK
  <2>1. /\ mem \in Memories /\ created \in BOOLEAN /\ in_use = created
        /\ IF in_use THEN Shared(mem) ELSE entries = {}
    BY <1>1 DEF FwdbInv
  <2>2. entries \subseteq [ptr : 0 .. FwdbMaxSize, size : DataSizes]
    <3>1. ASSUME in_use, NEW F, NEW e \in F, Listed(mem, F, e), NEW a \in F \ {e}
          PROVE  EntryAt(mem, a) \in [ptr : 0 .. FwdbMaxSize, size : DataSizes]
      <4>. DEFINE D == DataOffset(NameAt(mem, a))
      <4>1. /\ D \in Nat /\ SizeIn(mem, a) \in Nat /\ SizeIn(mem, a) \in DataSizes
            /\ mem[a].n = D + SizeIn(mem, a) /\ a + mem[a].n <= e
            /\ EntryAt(mem, a) = [ptr |-> a + D, size |-> SizeIn(mem, a)]
        BY <2>1, <3>1, ListEntries
      <4>2. a \in Nat /\ e \in Nat /\ FwdbMaxSize \in Nat /\ e + 1 <= FwdbMaxSize
        BY <2>1, <3>1, ListFields
      <4>. HIDE DEF D
      <4>3. a + D \in 0 .. FwdbMaxSize
        BY <4>1, <4>2
      <4>. QED  BY <4>1, <4>3
    <3>. QED  BY <2>1, <3>1 DEF Shared
  <2>. QED  BY <2>1, <2>2 DEF FwdbTypeOK, Memories, Cells
<1>. QED  BY <1>1, FwdbInvHolds, PTL

\* What the firmware database says is a table that only grows, and changes only where
\* a client writes; nothing behind the database is written.
THEOREM DatabaseIsTable == FwdbSpec => ImplementsTable
<1>1. FwdbInv => \A a \in DOMAIN mem : a >= FwdbMaxSize => mem[a] = Junk
  BY DEF FwdbInv
<1>. QED  BY <1>1, FwdbStart, FwdbStep, PTL DEF FwdbSpec, ImplementsTable, Table!TableSpec
-----------------------------------------------------------------------------
(***************************************************************************)
(* The SPI flash driver.                                                   *)
(***************************************************************************)

\* Erases go on from sector to sector, up to the size and no further.
EraseInStep ==
  call \in Calls /\ call.op = "erase" =>
    /\ size = call.size /\ size % SectorSize = 0
    /\ offset % SectorSize = 0 /\ offset <= size
    /\ step # "done" => offset < size
    /\ step = "done" => offset = size

\* Until a call fails the chip is idle but after a command, and enabled before one;
\* and the sectors behind the loop are erased.
ChipInStep ==
  /\ obeyed
  /\ step # "wait" => ~wip
  /\ step = "send" /\ call.op # "read" => wel
  /\ call \in Calls /\ call.op = "erase" =>
       /\ 0 .. offset - 1 \subseteq touched
       /\ step = "wait" => offset .. offset + SectorSize - 1 \subseteq touched

SpiInv ==
  /\ SpiTypeOK
  /\ call = NoCall => step = "done"
  /\ step \in {"enable", "wait"} => call.op # "read"
  /\ EraseInStep
  /\ ~trouble => ChipInStep

LEMMA SpiNumbers ==
  /\ RomSize \in Nat \ {0} /\ SectorSize \in Nat \ {0} /\ PageSize \in Nat \ {0}
  /\ Modulus \in Nat \ {0} /\ RomSize < Modulus
  /\ \A c \in Calls : /\ c # NoCall /\ c.op \in {"read", "write", "erase"}
                      /\ c.offset \in Nat /\ c.size \in Nat /\ c.offset + c.size <= RomSize
BY SpiAssumption

LEMMA SpiInitInv == SpiInit => SpiInv
<1> SUFFICES ASSUME SpiInit
             PROVE  SpiInv
  OBVIOUS
<1>1. 0 \in 0 .. Modulus - 1 /\ NoCall \notin Calls
  BY SpiNumbers
<1>2. SpiTypeOK
  BY <1>1 DEF SpiInit, SpiTypeOK
<1> QED BY <1>1, <1>2 DEF SpiInit, SpiInv, EraseInStep, ChipInStep

LEMMA SpiBeginInv ==
  ASSUME SpiInv, NEW c \in Calls, Begin(c)
  PROVE  SpiInv'
<1>1. /\ c.offset \in 0 .. Modulus - 1 /\ c.size \in 0 .. Modulus - 1 /\ 0 \in 0 .. Modulus - 1
      /\ c # NoCall /\ c.op \in {"read", "write", "erase"} /\ SectorSize \in Nat \ {0}
  BY SpiNumbers
<1>2. CASE c.op = "erase" /\ ((c.offset % SectorSize) # 0 \/ (c.size % SectorSize) # 0)
  BY <1>2, SpiNumbers DEF Begin, SpiInv, SpiTypeOK, EraseInStep, ChipInStep, chipVars
<1>3. CASE ~(c.op = "erase" /\ ((c.offset % SectorSize) # 0 \/ (c.size % SectorSize) # 0))
  <2>1. /\ call = NoCall /\ call' = c /\ spi_ret' = 0 /\ touched' = {} /\ obeyed' = TRUE
        /\ offset' = IF c.op = "erase" THEN 0 ELSE c.offset
        /\ size' = c.size
        /\ step' = IF c.size = 0 THEN "done" ELSE IF c.op = "read" THEN "send" ELSE "enable"
        /\ UNCHANGED <<wip, wel, trouble>>
    BY <1>3 DEF Begin, chipVars
  <2>2. 0 % SectorSize = 0
    BY <1>1
  <2>3. 0 .. 0 - 1 = {}
    OBVIOUS
  <2>4. SpiTypeOK' /\ (~wip \/ trouble)
    BY <1>1, <2>1 DEF SpiInv, SpiTypeOK, ChipInStep
  <2>5. EraseInStep'
    BY <1>1, <1>3, <2>1, <2>2 DEF EraseInStep
  <2>6. SpiTypeOK'
    BY <1>1, <2>1 DEF SpiInv, SpiTypeOK
  <2>7. ~trouble' => ChipInStep'
    BY <1>1, <2>1, <2>3, <2>4 DEF ChipInStep
  <2> QED BY <1>1, <2>1, <2>5, <2>6, <2>7 DEF SpiInv
<1> QED BY <1>2, <1>3

\* A call ends.
LEMMA SpiFinishInv ==
  ASSUME SpiInv, NEW code \in {0, 1}, Finish(code), UNCHANGED chipVars,
         \/ trouble'
         \/ UNCHANGED ghostVars /\ step # "wait"
  PROVE  SpiInv'
BY SpiNumbers DEF SpiInv, SpiTypeOK, Finish, chipVars, ghostVars, EraseInStep, ChipInStep

LEMMA WriteEnableInv ==
  ASSUME SpiInv, WriteEnable
  PROVE  SpiInv'
<1>1. CASE GiveUp /\ UNCHANGED chipVars
  BY <1>1, SpiFinishInv DEF GiveUp
<1>2. CASE /\ step = "enable" /\ step' = "send" /\ EnableCommand
           /\ UNCHANGED <<call, offset, size, spi_ret, ghostVars>>
  BY <1>2, SpiNumbers DEF SpiInv, SpiTypeOK, EnableCommand, chipVars, ghostVars, EraseInStep, ChipInStep
<1> QED BY <1>1, <1>2 DEF WriteEnable

LEMMA WriteCommandInv ==
  ASSUME SpiInv, WriteCommand
  PROVE  SpiInv'
<1>1. CASE GiveUp /\ UNCHANGED chipVars
  BY <1>1, SpiFinishInv DEF GiveUp
<1>2. CASE /\ step = "send" /\ call.op = "write" /\ step' = "wait"
           /\ ChangeCommand(Programs(offset, WriteSize))
           /\ UNCHANGED <<call, offset, size, spi_ret>>
  <2> HIDE DEF Programs, WriteSize
  <2> QED BY <1>2, SpiNumbers
     DEF SpiInv, SpiTypeOK, ChangeCommand, Obeys, chipVars, EraseInStep, ChipInStep
<1> QED BY <1>1, <1>2 DEF WriteCommand

LEMMA EraseCommandInv ==
  ASSUME SpiInv, EraseCommand
  PROVE  SpiInv'
<1>1. CASE GiveUp /\ UNCHANGED chipVars
  BY <1>1, SpiFinishInv DEF GiveUp
<1>2. CASE /\ step = "send" /\ call.op = "erase" /\ step' = "wait"
           /\ ChangeCommand(offset .. offset + SectorSize - 1)
           /\ UNCHANGED <<call, offset, size, spi_ret>>
  <2> DEFINE where == offset .. offset + SectorSize - 1
  <2> HIDE DEF where
  <2>1. ChangeCommand(where)
    BY <1>2 DEF where
  <2>2. SpiTypeOK'
    BY <1>2, <2>1 DEF SpiInv, SpiTypeOK, ChangeCommand, chipVars
  <2>3. EraseInStep'
    BY <1>2 DEF SpiInv, EraseInStep
  <2>4. ASSUME ~trouble' PROVE ChipInStep'
    <3>1. ~trouble /\ ChipInStep
      BY <2>1, <2>4 DEF ChangeCommand, SpiInv
    <3>2. Obeys
      BY <1>2, <3>1 DEF ChipInStep, Obeys
    <3>3. obeyed' /\ touched' = touched \cup where
      BY <2>1, <3>1, <3>2 DEF ChangeCommand, ChipInStep
    <3> QED BY <1>2, <3>1, <3>3 DEF ChipInStep, where
  <2> QED BY <1>2, <2>2, <2>3, <2>4 DEF SpiInv
<1> QED BY <1>1, <1>2 DEF EraseCommand

LEMMA WaitForWipInv ==
  ASSUME SpiInv, WaitForWip
  PROVE  SpiInv'
<1>1. CASE GiveUp /\ UNCHANGED chipVars
  BY <1>1, SpiFinishInv DEF GiveUp
<1>2. CASE /\ step = "wait" /\ WipClear
           /\ offset' = NextOffset /\ size' = NextSize
           /\ step' = (IF More THEN "enable" ELSE "done")
           /\ UNCHANGED <<call, spi_ret, ghostVars, chipVars>>
  <2>1. call \in Calls /\ call # NoCall /\ call.op \in {"write", "erase"}
    BY <1>2, SpiNumbers DEF SpiInv, SpiTypeOK
  <2>2. CASE call.op = "write"
    <3>1. /\ offset' = (offset + WriteSize) % Modulus
          /\ size' = (size + Modulus - WriteSize) % Modulus
      BY <1>2, <2>2 DEF NextOffset, NextSize
    <3>2. WriteSize \in 0 .. Modulus - 1
      BY SpiNumbers DEF WriteSize, SpiInv, SpiTypeOK
    <3>3. offset' \in 0 .. Modulus - 1 /\ size' \in 0 .. Modulus - 1
      BY <3>1, <3>2, SpiNumbers DEF SpiInv, SpiTypeOK
    <3>4. SpiTypeOK'
      BY <1>2, <3>3 DEF SpiInv, SpiTypeOK, chipVars
    <3> QED BY <1>2, <2>1, <2>2, <3>4
         DEF SpiInv, EraseInStep, ChipInStep, WipClear, ghostVars, chipVars
  <2>3. CASE call.op = "erase"
    <3>1. offset' = offset + SectorSize /\ size' = size /\ (More <=> offset' < size)
      BY <1>2, <2>3 DEF NextOffset, NextSize, More
    <3>2. /\ size = call.size /\ size % SectorSize = 0 /\ offset % SectorSize = 0 /\ offset < size
          /\ offset \in Nat /\ size \in Nat /\ SectorSize \in Nat \ {0} /\ size < Modulus
      BY <1>2, <2>1, <2>3, SpiNumbers DEF SpiInv, SpiTypeOK, EraseInStep
    <3>3. offset + SectorSize <= size /\ (offset + SectorSize) % SectorSize = 0
      BY <3>2, AlignedApart, AlignedNext
    <3>4. SpiTypeOK'
      BY <1>2, <3>1, <3>2, <3>3, SpiNumbers DEF SpiInv, SpiTypeOK, chipVars
    <3>5. EraseInStep'
      BY <1>2, <3>1, <3>2, <3>3 DEF EraseInStep
    <3>6. ASSUME ~trouble' PROVE ChipInStep'
      <4>1. /\ ~trouble /\ ChipInStep
            /\ 0 .. offset - 1 \subseteq touched /\ offset .. offset + SectorSize - 1 \subseteq touched
        BY <1>2, <2>1, <2>3, <3>6 DEF SpiInv, ChipInStep, ghostVars
      <4>2. 0 .. offset + SectorSize - 1 \subseteq touched
        BY <3>2, <4>1
      <4>3. ~wip' /\ obeyed' /\ touched' = touched /\ step' \in {"enable", "done"}
        BY <1>2, <4>1 DEF ChipInStep, WipClear, ghostVars, chipVars
      <4>4. 0 .. offset' - 1 \subseteq touched'
        <5>1. 0 .. offset' - 1 = 0 .. offset + SectorSize - 1
          BY <3>1, <3>2
        <5> QED BY <4>2, <4>3, <5>1
      <4> QED BY <4>3, <4>4 DEF ChipInStep
    <3> QED BY <1>2, <2>1, <2>3, <3>4, <3>5, <3>6 DEF SpiInv
  <2> QED BY <2>1, <2>2, <2>3
<1> QED BY <1>1, <1>2 DEF WaitForWip

LEMMA SpiStepInv == SpiInv /\ [SpiNext]_spiVars => SpiInv'
<1> SUFFICES ASSUME SpiInv, [SpiNext]_spiVars
             PROVE  SpiInv'
  OBVIOUS
<1>1. CASE ReadCommand
  BY <1>1, SpiFinishInv DEF ReadCommand, GiveUp
<1>2. CASE SpiReturn
  BY <1>2, SpiFinishInv DEF SpiReturn
<1>3. CASE ChipFinishes
  BY <1>3 DEF ChipFinishes, SpiInv, SpiTypeOK, EraseInStep, ChipInStep, ghostVars
<1>4. CASE UNCHANGED spiVars
  BY <1>4 DEF spiVars, chipVars, ghostVars, SpiInv, SpiTypeOK, EraseInStep, ChipInStep
<1> QED BY <1>1, <1>2, <1>3, <1>4, SpiBeginInv, WriteEnableInv, WriteCommandInv, EraseCommandInv,
     WaitForWipInv DEF SpiNext, Driver

LEMMA SpiInvHolds == SpiSpec => []SpiInv
BY SpiInitInv, SpiStepInv, PTL DEF SpiSpec

\* Every variable of the SPI flash driver holds a value of its type.
THEOREM SpiTypeCorrect == SpiSpec => []SpiTypeOK
<1>1. SpiInv => SpiTypeOK
  BY DEF SpiInv
<1> QED BY <1>1, SpiInvHolds, PTL

\* Until a call fails, the chip obeys every program and erase command: each follows its
\* own write enable, and the one before is finished.
THEOREM SpiObeyed == SpiSpec => []EveryCommandObeyed
<1>1. SpiInv => EveryCommandObeyed
  BY DEF SpiInv, ChipInStep, EveryCommandObeyed
<1> QED BY <1>1, SpiInvHolds, PTL

\* An erase from the start of the flash that returns 0 has erased every sector asked
\* for, however many there are.
THEOREM SpiErases ==
  ASSUME \A c \in Calls : c.op = "erase" => c.offset = 0
  PROVE  SpiSpec => ErasesAll
<1>1. SpiInv /\ [SpiNext]_spiVars =>
        [call # NoCall /\ call' = NoCall /\ spi_ret' = 0 /\ call.op = "erase" /\ ~trouble
           => Asked(call) \subseteq touched]_spiVars
  <2> SUFFICES ASSUME SpiInv, SpiNext, call # NoCall, call' = NoCall, spi_ret' = 0,
                      call.op = "erase", ~trouble
               PROVE  Asked(call) \subseteq touched
    OBVIOUS
  <2>1. call \in Calls
    BY DEF SpiInv, SpiTypeOK
  <2>2. SpiReturn
    <3>1. ASSUME GiveUp PROVE FALSE
      BY <3>1 DEF GiveUp, Finish
    <3>2. call' # call
      OBVIOUS
    <3> QED BY <2>1, <3>1, <3>2 DEF SpiNext, Driver, Begin, WriteEnable, ReadCommand, WriteCommand,
         EraseCommand, WaitForWip, ChipFinishes
  <2>3. step = "done" /\ offset = size /\ size = call.size /\ 0 .. offset - 1 \subseteq touched
    BY <2>1, <2>2 DEF SpiReturn, SpiInv, EraseInStep, ChipInStep
  <2>4. Asked(call) = 0 .. offset - 1
    BY <2>1, <2>3, SpiNumbers DEF Asked
  <2> QED BY <2>3, <2>4
<1> QED BY <1>1, SpiInvHolds, PTL DEF SpiSpec, ErasesAll

-----------------------------------------------------------------------------
(***************************************************************************)
(* The six parts that keep data, side by side.                             *)
(***************************************************************************)

\* In a behaviour of any of them, each keeps its types: the other five leave its
\* variables alone.
THEOREM StoragePartsTypeCorrect == MCSpec => []StoragePartsTypeOK
<1>1. MCInit => SpiInit /\ Init /\ EcInit /\ MscInit /\ MmcInit /\ FwdbInit
  <2>1. [a \in Addrs |-> Bits] \in [Addrs -> Bytes]
    BY DEF Bytes
  <2>. QED  BY <2>1 DEF MCInit, Init
<1>. DEFINE allVars == <<spiVars, allStorage, ecVars, mscVars, mmcVars, fwdbVars, part>>
<1>2. [MCNext]_allVars => [SpiNext]_spiVars
  BY DEF MCNext
<1>3. [MCNext]_allVars => [Next]_<<flash, storageVars>>
  BY DEF MCNext, allStorage
<1>4. [MCNext]_allVars => [EcNext]_ecVars
  BY DEF MCNext
<1>5. [MCNext]_allVars => [MscNext]_mscVars
  BY DEF MCNext
<1>6. [MCNext]_allVars => [MmcNext]_mmcVars
  BY DEF MCNext
<1>7. [MCNext]_allVars => [FwdbNext]_fwdbVars
  BY DEF MCNext
<1>8. SpiTypeOK /\ StorageTypeOK /\ EcTypeOK /\ MscTypeOK /\ MmcTypeOK /\ FwdbTypeOK => StoragePartsTypeOK
  BY DEF StoragePartsTypeOK
<1>9. MCSpec => []SpiTypeOK /\ []StorageTypeOK /\ []EcTypeOK
  BY <1>1, <1>2, <1>3, <1>4, SpiTypeCorrect, StorageTypeCorrect, EcTypeCorrect, PTL
     DEF MCSpec, SpiSpec, Spec, EcSpec
<1>10. MCSpec => []MscTypeOK /\ []MmcTypeOK /\ []FwdbTypeOK
  BY <1>1, <1>5, <1>6, <1>7, MscTypeCorrect, MmcTypeCorrect, FwdbTypeCorrect, PTL
     DEF MCSpec, MscSpec, MmcSpec, FwdbSpec
<1>. QED  BY <1>8, <1>9, <1>10, PTL
=============================================================================
