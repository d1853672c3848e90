-------------------------------- MODULE Mmc ---------------------------------
(***************************************************************************)
(* Reads and writes of an MMC or SD card: the block device of              *)
(* drivers/blockdev/mmc.c over an SDHCI host with ADMA,                    *)
(* drivers/blockdev/sdhci.c.                                               *)
(*                                                                         *)
(* The driver polls the interrupt status of a controller that goes on by   *)
(* itself, and gives up on anything after a while; then the command or the *)
(* transfer may still be under way.  The controller and the card are       *)
(* external.  A card is pulled and put in at any time; only sdhci_update() *)
(* sets one up.                                                            *)
(***************************************************************************)
EXTENDS Integers

CONSTANTS
  BlockCount,   \* media->dev.block_count
  BMax,         \* b_max
  NoTransfer

ASSUME MmcAssumption == {BlockCount, BMax} \subseteq Nat \ {0}

VARIABLES
  mmc_pc,       \* where the driver is: between calls, or what it waits for
  mmc_cmd,      \* the command it sends: SET_BLOCKLEN or one with data
  mmc_call,     \* the call under way: its first block and count
  done_blocks,  \* count - todo
  retries,      \* of mmc_send_cmd()
  mmc_result,   \* what the last call has returned
  int_status,   \* the bits of SDHCI_INT_STATUS: response, end, error
  on_line,      \* the command the card has not answered (SDHCI_CMD_INHIBIT), or "none"
  transfer,     \* the transfer under way (SDHCI_DATA_INHIBIT)
  card,         \* the state of the card
  mmc_media,    \* a card has been set up, and is listed
  moved         \* history: the block with which each place of the buffer was exchanged

mmcVars == <<mmc_pc, mmc_cmd, mmc_call, done_blocks, retries, mmc_result, int_status, on_line,
             transfer, card, mmc_media, moved>>
mmcDriver == <<mmc_pc, mmc_cmd, mmc_call, done_blocks, retries, mmc_result, mmc_media>>
mmcOutside == <<on_line, transfer, card, moved>>

MmcPcs == {"idle", "inhibit", "response", "end"}
CardStates == {"none", "fresh", "tran", "data"}
MmcCalls == [start : 0 .. BlockCount - 1, count : 1 .. BlockCount]
NoBlock == -1

Cur == IF mmc_call.count - done_blocks < BMax THEN mmc_call.count - done_blocks ELSE BMax

MmcInit ==
  /\ mmc_pc = "idle" /\ mmc_cmd = "blocklen" /\ mmc_call = [start |-> 0, count |-> 1]
  /\ done_blocks = 0 /\ retries = 0 /\ mmc_result = "none"
  /\ int_status = {} /\ on_line = "none" /\ transfer = NoTransfer
  /\ card = "tran" /\ mmc_media = TRUE
  /\ moved = [i \in 0 .. BlockCount - 1 |-> NoBlock]

-----------------------------------------------------------------------------
\* The driver.

\* The head of sdhci_send_command(): the status is cleared, then the inhibit bits are
\* waited for.
Send(cmd, tries) ==
  /\ mmc_cmd' = cmd /\ retries' = tries
  /\ int_status' = {} /\ mmc_pc' = "inhibit"

\* mmc_send_cmd() sends a command with data twice.
SendData == Send("data", 1)

\* block_mmc_read() and block_mmc_write(), which differ in the direction alone.
MmcCall(c) ==
  /\ mmc_pc = "idle" /\ mmc_media
  /\ c.start + c.count <= BlockCount
  /\ mmc_call' = c /\ done_blocks' = 0 /\ mmc_result' = "none"
  /\ moved' = [i \in DOMAIN moved |-> NoBlock]
  /\ Send("blocklen", 0)
  /\ UNCHANGED <<on_line, transfer, card, mmc_media>>

MmcReturn(r) ==
  /\ mmc_pc' = "idle" /\ mmc_result' = r
  /\ UNCHANGED <<mmc_cmd, mmc_call, done_blocks, retries>>

\* sdhci_send_command() has failed.
CommandFails ==
  \/ /\ retries > 0
     /\ Send("data", retries - 1)
     /\ UNCHANGED <<mmc_call, done_blocks, mmc_result>>
  \/ retries = 0 /\ MmcReturn("failed") /\ UNCHANGED int_status

Inhibited == on_line # "none" \/ transfer # NoTransfer

Issue ==
  /\ mmc_pc = "inhibit" /\ ~Inhibited
  /\ on_line' = mmc_cmd
  /\ transfer' = IF mmc_cmd = "data"
                 THEN [place |-> done_blocks, block |-> mmc_call.start + done_blocks,
                       left |-> Cur, multi |-> Cur > 1, live |-> FALSE]
                 ELSE NoTransfer
  /\ mmc_pc' = "response"
  /\ UNCHANGED <<mmc_cmd, mmc_call, done_blocks, retries, mmc_result, int_status, card,
                 mmc_media, moved>>

\* "Controller never released inhibit bit(s)": nothing is reset.
InhibitTimeout ==
  /\ mmc_pc = "inhibit" /\ Inhibited
  /\ CommandFails
  /\ UNCHANGED <<mmcOutside, mmc_media>>

\* sdhci_reset() of the command and of the data line ends what is under way.
ResetFailsMutant == CommandFails /\ UNCHANGED <<mmcOutside, mmc_media>>
ResetFails ==
  /\ CommandFails
  /\ on_line' = "none" /\ transfer' = NoTransfer
  /\ UNCHANGED <<card, mmc_media, moved>>

\* SET_BLOCKLEN has no data: a response, an error, or the time is up and the command
\* stays where it is.
BlocklenDone ==
  /\ mmc_pc = "response" /\ mmc_cmd = "blocklen"
  /\ "response" \in int_status /\ "error" \notin int_status
  /\ SendData
  /\ UNCHANGED <<mmc_call, done_blocks, mmc_result, mmc_media, mmcOutside>>

BlocklenFails ==
  /\ mmc_pc = "response" /\ mmc_cmd = "blocklen"
  /\ \/ "error" \in int_status /\ ResetFails
     \/ /\ int_status \cap {"response", "error"} = {}
        /\ MmcReturn("failed")
        /\ UNCHANGED <<int_status, mmc_media, mmcOutside>>

\* sdhci_complete_adma(): the response within 10 ms.
ResponseSeen ==
  /\ mmc_pc = "response" /\ mmc_cmd = "data"
  /\ "response" \in int_status /\ "error" \notin int_status
  /\ int_status' = int_status \ {"response"}
  /\ mmc_pc' = "end"
  /\ UNCHANGED <<mmc_cmd, mmc_call, done_blocks, retries, mmc_result, mmc_media, mmcOutside>>

ResponseFails ==
  /\ mmc_pc = "response" /\ mmc_cmd = "data"
  /\ "error" \in int_status \/ "response" \notin int_status
  /\ ResetFails

\* ... and the end of the transfer within 10 s.
EndsWell == int_status \cap {"end", "error"} = {"end"}

\* mmc_read() and mmc_write() return the count, for the host stops the transfer itself.
TransferDone ==
  /\ mmc_pc = "end" /\ EndsWell
  /\ done_blocks' = done_blocks + Cur
  /\ IF done_blocks' < mmc_call.count
     THEN SendData /\ UNCHANGED <<mmc_call, mmc_result>>
     ELSE /\ mmc_pc' = "idle" /\ mmc_result' = "ok" /\ int_status' = {}
          /\ UNCHANGED <<mmc_cmd, mmc_call, retries>>
  /\ UNCHANGED <<mmc_media, mmcOutside>>

TransferFails ==
  /\ mmc_pc = "end" /\ ~EndsWell
  /\ ResetFails

\* sdhci_update() of a removable card: present or not is all it looks at.  The set-up
\* resets the host and the card, and may fail.
MmcUpdate ==
  /\ mmc_pc = "idle"
  /\ \/ card = "none" /\ mmc_media' = FALSE
        /\ UNCHANGED <<int_status, on_line, transfer, card>>
     \/ /\ card # "none" /\ ~mmc_media
        /\ int_status' = {} /\ on_line' = "none" /\ transfer' = NoTransfer
        /\ \/ mmc_media' = TRUE /\ card' = "tran"
           \/ mmc_media' = FALSE /\ card' = "fresh"
  /\ UNCHANGED <<mmc_pc, mmc_cmd, mmc_call, done_blocks, retries, mmc_result, moved>>

MmcDriver ==
  \/ \E c \in MmcCalls : MmcCall(c)
  \/ Issue \/ InhibitTimeout
  \/ BlocklenDone \/ BlocklenFails
  \/ ResponseSeen \/ ResponseFails
  \/ TransferDone \/ TransferFails
  \/ MmcUpdate

-----------------------------------------------------------------------------
\* External: the controller and the card.

\* The card answers only when it has been set up and no transfer waits for its stop.
Answer ==
  /\ on_line # "none" /\ card = "tran"
  /\ on_line' = "none"
  /\ int_status' \in {int_status \cup {"response"}, int_status \cup {"error"}}
  /\ IF on_line = "data" /\ transfer # NoTransfer
     THEN /\ transfer' = [transfer EXCEPT !.live = "error" \notin int_status']
          /\ \/ card' = "data"
             \/ card' = "tran" /\ ~transfer.multi /\ ~transfer'.live
     ELSE UNCHANGED <<transfer, card>>
  /\ UNCHANGED <<mmcDriver, moved>>

NoAnswer ==
  /\ on_line # "none"
  /\ on_line' = "none" /\ int_status' = int_status \cup {"error"}
  /\ UNCHANGED <<mmcDriver, transfer, card, moved>>

Flowing == transfer # NoTransfer /\ transfer.live /\ card = "data"

MoveBlock ==
  /\ Flowing /\ transfer.left > 0
  /\ moved' = [moved EXCEPT ![transfer.place] = transfer.block]
  /\ transfer' = [transfer EXCEPT !.place = @ + 1, !.block = @ + 1, !.left = @ - 1]
  /\ UNCHANGED <<mmcDriver, int_status, on_line, card>>

\* After the last block the host sends the stop of a transfer of several.
EndTransfer ==
  /\ Flowing /\ transfer.left = 0
  /\ int_status' = int_status \cup {"end"}
  /\ transfer' = NoTransfer /\ card' = "tran"
  /\ UNCHANGED <<mmcDriver, on_line, moved>>

\* A bad block.  Nothing stops the card when there are several.
DataError ==
  /\ transfer # NoTransfer /\ transfer.live
  /\ int_status' = int_status \cup {"error"}
  /\ transfer' = [transfer EXCEPT !.live = FALSE]
  /\ card' = IF card = "data" /\ ~transfer.multi THEN "tran" ELSE card
  /\ UNCHANGED <<mmcDriver, on_line, moved>>

CardMoves ==
  /\ card' = IF card = "none" THEN "fresh" ELSE "none"
  /\ UNCHANGED <<mmcDriver, int_status, on_line, transfer, moved>>

MmcNext ==
  \/ MmcDriver
  \/ Answer \/ NoAnswer \/ MoveBlock \/ EndTransfer \/ DataError \/ CardMoves

MmcSpec == MmcInit /\ [][MmcNext]_mmcVars

-----------------------------------------------------------------------------
\* Properties.

\* Every variable holds a value of its type.
MmcTypeOK ==
  /\ mmc_pc \in MmcPcs /\ mmc_cmd \in {"blocklen", "data"} /\ mmc_call \in MmcCalls
  /\ done_blocks \in 0 .. BlockCount /\ retries \in 0 .. 1
  /\ mmc_result \in {"none", "ok", "failed"}
  /\ int_status \subseteq {"response", "end", "error"}
  /\ on_line \in {"none", "blocklen", "data"}
  /\ transfer = NoTransfer \/ transfer \in
       [place : 0 .. BlockCount, block : 0 .. BlockCount, left : 0 .. BMax,
        multi : BOOLEAN, live : BOOLEAN]
  /\ card \in CardStates /\ mmc_media \in BOOLEAN
  /\ moved \in [0 .. BlockCount - 1 -> -1 .. BlockCount - 1]

\* A call that returns its count has exchanged every block of its buffer with the block
\* asked for, in transfers of its own: no late answer or end of an earlier command, no
\* retry and no other card passes for it.  And whatever has failed, the host is not left
\* with a transfer to a buffer that the driver has given back.
BufferIsExchanged ==
  /\ mmc_result = "ok" => \A i \in 0 .. mmc_call.count - 1 : moved[i] = mmc_call.start + i
  /\ mmc_pc = "idle" => transfer = NoTransfer
=============================================================================
