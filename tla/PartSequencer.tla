---------------------------- MODULE PartSequencer ----------------------------
(***************************************************************************)
(* One logical CSV as a run of numbered parts (rpc/part_writer.py).  A     *)
(* batched write appends to an open part under state_dir, which is moved   *)
(* into output_dir when it is full or superseded; an atomic write puts a   *)
(* whole part there at once.  Splunk consumes and deletes whatever it      *)
(* finds in output_dir.  A counter file survives the restarts.             *)
(*                                                                         *)
(* Each durable effect is a step of its own, and the process may crash     *)
(* before any of them.                                                     *)
(***************************************************************************)
EXTENDS Integers, Sequences

CONSTANTS
  MaxParts,      \* bound: part numbers in use
  MaxBatches,    \* bound: write calls
  MaxCrashes,    \* bound: crashes
  PartCap,       \* _max_part_bytes, in batches
  RenameGap,     \* may a crash fall between os.replace and the counter's save?
  TornAppends    \* may a crash leave half an append behind?

ASSUME PartAssumption ==
  /\ MaxParts \in Nat \ {0} /\ MaxBatches \in Nat /\ MaxCrashes \in Nat
  /\ PartCap \in Nat \ {0}
  /\ {RenameGap, TornAppends} \subseteq BOOLEAN

Parts == 1..MaxParts
Batches == 1..MaxBatches
OldPart == 0                   \* stands for the rows an older layout left behind
Modes == {"batched", "atomic"}

\* What a part holds of one batch: all of its rows, or a cut-off beginning.
Piece == [batch : Batches \union {OldPart}, kind : {"whole", "torn"}]
Whole(b) == [batch |-> b, kind |-> "whole"]
Torn(b) == [batch |-> b, kind |-> "torn"]

VARIABLES
  stateParts,    \* the parts under state_dir; <<>>: no such file
  exportParts,   \* the parts under output_dir
  seqFile,       \* <name>_part_seq.csv: <<current_part, part_is_open>>, or <<>>
  part, open,    \* _current_part, _part_is_open
  pc,            \* the next step of the write call
  mode, batch,   \* the call: write_batched or write_atomic, and its rows
  returned,      \* the batches whose call has returned
  consumed,      \* the pieces Splunk has taken
  handedOff,     \* how often this program put each part number under output_dir
  crashes

durable == <<stateParts, exportParts, seqFile>>
outside == <<consumed, handedOff, crashes>>
vars == <<durable, part, open, pc, mode, batch, returned, outside>>

Existing(parts) == {p \in Parts : parts[p] # <<>>}
Highest(S) == CHOOSE p \in S : \A q \in S : q <= p

\* PartSequencer.__init__: the counter file, or else a scan of both directories.
LoadedByScan ==                        \* slip: the counter file is not read
  IF Existing(stateParts) # {} THEN <<Highest(Existing(stateParts)), TRUE>>
  ELSE IF Existing(exportParts) # {} THEN <<Highest(Existing(exportParts)), FALSE>>
  ELSE <<0, FALSE>>
Loaded ==
  IF seqFile # <<>> THEN seqFile
  ELSE IF Existing(stateParts) # {} THEN <<Highest(Existing(stateParts)), TRUE>>
  ELSE IF Existing(exportParts) # {} THEN <<Highest(Existing(exportParts)), FALSE>>
  ELSE <<0, FALSE>>

\* A fresh installation, or one whose parts an older layout wrote.
Init ==
  /\ \E s, e \in {{}, {1}} :
       /\ s = {} \/ e = {}
       /\ stateParts = [p \in Parts |-> IF p \in s THEN <<Whole(OldPart)>> ELSE <<>>]
       /\ exportParts = [p \in Parts |-> IF p \in e THEN <<Whole(OldPart)>> ELSE <<>>]
  /\ handedOff = [p \in Parts |-> 0]
  /\ seqFile = <<>>
  /\ pc = "down" /\ part = 0 /\ open = FALSE
  /\ mode = "batched" /\ batch = 0
  /\ returned = {} /\ consumed = {} /\ crashes = 0

Restart ==
  /\ pc = "down"
  /\ part' = Loaded[1] /\ open' = Loaded[2]
  /\ pc' = "idle"
  /\ UNCHANGED <<durable, mode, batch, returned, outside>>

-----------------------------------------------------------------------------
PartFull == part > 0 /\ Len(stateParts[part]) >= PartCap
NeedsNewPart(m) == m = "atomic" \/ ~open \/ PartFull

FirstStepNoClose(m) == IF ~NeedsNewPart(m) THEN "append" ELSE "advance"  \* slip: part left behind
FirstStep(m) == IF ~NeedsNewPart(m) THEN "append" ELSE IF open THEN "rename" ELSE "advance"

Write(m) ==
  /\ pc = "idle" /\ batch < MaxBatches /\ part < MaxParts
  /\ mode' = m
  /\ batch' = batch + 1
  /\ pc' = FirstStep(m)
  /\ UNCHANGED <<durable, part, open, returned, outside>>

\* _close_if_open: os.replace, if the part was ever written ...
Rename ==
  /\ pc = "rename"
  /\ IF part \in Existing(stateParts)
     THEN /\ exportParts' = [exportParts EXCEPT ![part] = stateParts[part]]
          /\ stateParts' = [stateParts EXCEPT ![part] = <<>>]
          /\ handedOff' = [handedOff EXCEPT ![part] = @ + 1]
     ELSE UNCHANGED <<exportParts, stateParts, handedOff>>
  /\ open' = FALSE
  /\ pc' = "saveClosed"
  /\ UNCHANGED <<seqFile, part, mode, batch, returned, consumed, crashes>>

\* ... and the counter is saved at once.
SaveClosedLater ==                     \* slip: the save is left to the end of the call
  /\ pc = "saveClosed"
  /\ pc' = "advance"
  /\ UNCHANGED <<durable, part, open, mode, batch, returned, outside>>

SaveClosed ==
  /\ pc = "saveClosed"
  /\ seqFile' = <<part, open>>
  /\ pc' = "advance"
  /\ UNCHANGED <<stateParts, exportParts, part, open, mode, batch, returned, outside>>

Advance ==
  /\ pc = "advance"
  /\ part' = part + 1
  /\ open' = (mode = "batched")
  /\ pc' = IF mode = "batched" THEN "append" ELSE "save"
  /\ UNCHANGED <<durable, mode, batch, returned, outside>>

AppendRows ==
  /\ pc = "append"
  /\ stateParts' = [stateParts EXCEPT ![part] = Append(@, Whole(batch))]
  /\ pc' = "save"
  /\ UNCHANGED <<exportParts, seqFile, part, open, mode, batch, returned, outside>>

Return == returned' = returned \union {batch} /\ pc' = "idle"

\* A batched write saves the counter after its rows, an atomic one before.
SaveBatchedOnly ==                     \* slip: an atomic write saves no counter
  /\ pc = "save"
  /\ seqFile' = IF mode = "batched" THEN <<part, open>> ELSE seqFile
  /\ IF mode = "batched" THEN Return ELSE pc' = "replace" /\ UNCHANGED returned
  /\ UNCHANGED <<stateParts, exportParts, part, open, mode, batch, outside>>

Save ==
  /\ pc = "save"
  /\ seqFile' = <<part, open>>
  /\ IF mode = "batched" THEN Return ELSE pc' = "replace" /\ UNCHANGED returned
  /\ UNCHANGED <<stateParts, exportParts, part, open, mode, batch, outside>>

Replace ==
  /\ pc = "replace"
  /\ exportParts' = [exportParts EXCEPT ![part] = <<Whole(batch)>>]
  /\ handedOff' = [handedOff EXCEPT ![part] = @ + 1]
  /\ Return
  /\ UNCHANGED <<stateParts, seqFile, part, open, mode, batch, consumed, crashes>>

-----------------------------------------------------------------------------
Die ==
  /\ crashes < MaxCrashes
  /\ crashes' = crashes + 1
  /\ pc' = "down"
  /\ UNCHANGED <<seqFile, part, open, mode, batch, returned, consumed, handedOff>>

Crash ==
  /\ pc # "down"
  /\ pc = "saveClosed" => RenameGap
  /\ Die
  /\ UNCHANGED <<stateParts, exportParts>>

CrashInAppend ==
  /\ TornAppends /\ pc = "append"
  /\ stateParts' = [stateParts EXCEPT ![part] = Append(@, Torn(batch))]
  /\ Die
  /\ UNCHANGED exportParts

\* Splunk's batch input: take a part, delete the file.
SplunkTakes(p) ==
  /\ p \in Existing(exportParts)
  /\ consumed' = consumed \union {exportParts[p][i] : i \in DOMAIN exportParts[p]}
  /\ exportParts' = [exportParts EXCEPT ![p] = <<>>]
  /\ UNCHANGED <<stateParts, seqFile, part, open, pc, mode, batch, returned, handedOff, crashes>>

Next ==
  \/ Restart
  \/ \E m \in Modes : Write(m)
  \/ Rename \/ SaveClosed \/ Advance \/ AppendRows \/ Save \/ Replace
  \/ Crash \/ CrashInAppend
  \/ \E p \in Parts : SplunkTakes(p)

Spec == Init /\ [][Next]_vars

-----------------------------------------------------------------------------
TypeOK ==
  /\ stateParts \in [Parts -> Seq(Piece)] /\ exportParts \in [Parts -> Seq(Piece)]
  /\ seqFile \in {<<>>} \union ((0..MaxParts) \X BOOLEAN)
  /\ part \in 0..MaxParts /\ open \in BOOLEAN
  /\ pc \in {"down", "idle", "rename", "saveClosed", "advance", "append", "save", "replace"}
  /\ mode \in Modes /\ batch \in 0..MaxBatches
  /\ returned \subseteq Batches /\ consumed \subseteq Piece
  /\ handedOff \in [Parts -> Nat] /\ crashes \in Nat
  /\ open => part > 0
  /\ pc \in {"rename", "saveClosed", "append", "replace"} => part > 0

\* A part number is handed off once: a consumer that took and deleted a part
\* never meets its number again, and no part is replaced before it is taken
\* (PartSequencer, part_writer.py:77-80 and 126-135).
HandedOffOnce == \A p \in Parts : handedOff[p] <= 1

\* What output_dir shows of a part never changes until Splunk takes it.
ExportedNeverChanges ==
  [][\A p \in Parts : exportParts[p] # <<>> => exportParts'[p] \in {exportParts[p], <<>>}]_exportParts

Pieces(parts) == UNION {{parts[p][i] : i \in DOMAIN parts[p]} : p \in Parts}

\* The rows of every write call that returned are still somewhere: with
\* Splunk, under output_dir, or in the one part the counter will close; none is
\* stranded in a part nobody moves any more.
NothingLost ==
  /\ \A b \in returned : Whole(b) \in consumed \union Pieces(stateParts) \union Pieces(exportParts)
  /\ \A p \in Existing(stateParts) : \A i \in DOMAIN stateParts[p] :
       stateParts[p][i].batch \in returned => seqFile[1] = p /\ seqFile[2]

=============================================================================
