------------------------- MODULE PartSequencer_proofs -------------------------
(***************************************************************************)
(* The part writer's safety for any number of parts, batches and crashes:  *)
(* a part number is handed off once, an exported part stays as it is, and  *)
(* no returned batch is lost or stranded.  All of it needs ~RenameGap: no  *)
(* crash between os.replace and the counter's save.                        *)
(* PartSequencer_v_reuse.cfg shows what happens with one.                  *)
(***************************************************************************)
EXTENDS PartSequencer, SequenceTheorems, TLAPS

\* A number no consumer has seen yet.
Virgin(p) == handedOff[p] = 0 /\ exportParts[p] = <<>>

\* Where a call is, and what it has in hand.
Shape ==
  /\ pc \in {"rename", "saveClosed", "advance"} => part < MaxParts
  /\ pc = "rename" => open
  /\ pc \in {"saveClosed", "advance", "replace"} => ~open
  /\ pc = "append" => open /\ mode = "batched"
  /\ pc = "save" => part > 0 /\ (open <=> mode = "batched")
  /\ pc = "replace" => mode = "atomic" /\ seqFile = <<part, FALSE>>
  /\ pc \notin {"idle", "down"} => batch \in Batches /\ batch \notin returned
  /\ returned \subseteq 1..batch
  /\ seqFile = <<>> => returned = {}

\* In memory: no number above the current one is taken, nor an open part's own.
Unseen ==
  pc # "down" =>
    /\ \A p \in Parts : p > part => Virgin(p)
    /\ open \/ pc = "replace" \/ (pc = "save" /\ mode = "atomic") => Virgin(part)

\* The counter file says the same after any crash ...
Settled ==
  seqFile # <<>> /\ pc # "saveClosed" =>
    /\ \A p \in Parts : p > seqFile[1] => Virgin(p)
    /\ seqFile[2] => seqFile[1] > 0 /\ Virgin(seqFile[1])

\* ... and before there is one, the scan of the directories does.
Scannable ==
  seqFile = <<>> /\ pc # "saveClosed" =>
    /\ \A p \in Parts : handedOff[p] = 0
    /\ \A p \in Parts : exportParts[p] # <<>> => p = 1 /\ stateParts[p] = <<>>
    /\ \E q \in Parts : \A p \in Parts : stateParts[p] # <<>> => p = q
    /\ pc # "down" => \A p \in Parts : stateParts[p] # <<>> => p = part /\ open

Numbering == Shape /\ Unseen /\ Settled /\ Scannable

-----------------------------------------------------------------------------

LEMMA Numbers ==
  MaxParts \in Nat \ {0} /\ MaxBatches \in Nat /\ MaxCrashes \in Nat /\ PartCap \in Nat \ {0}
  BY PartAssumption DEF PartAssumption

LEMMA Counter ==
  ASSUME NEW p \in 0..MaxParts, NEW o \in BOOLEAN
  PROVE  /\ <<p, o>> # <<>> /\ <<p, o>>[1] = p /\ <<p, o>>[2] = o
         /\ <<p, o>> \in {<<>>} \union ((0..MaxParts) \X BOOLEAN)
  OBVIOUS

LEMMA RowAppended ==
  ASSUME NEW s \in Seq(Piece), NEW e \in Piece
  PROVE  /\ Append(s, e) \in Seq(Piece) /\ Append(s, e) # <<>>
         /\ \A i \in DOMAIN Append(s, e) : Append(s, e)[i] = e
              \/ (i \in DOMAIN s /\ Append(s, e)[i] = s[i])
         /\ \A i \in DOMAIN s : i \in DOMAIN Append(s, e) /\ Append(s, e)[i] = s[i]
         /\ \E i \in DOMAIN Append(s, e) : Append(s, e)[i] = e
  <1>1. /\ Append(s, e) \in Seq(Piece) /\ Append(s, e) # <<>> /\ Len(s) \in Nat
        /\ Len(Append(s, e)) = Len(s) + 1 /\ Append(s, e)[Len(s) + 1] = e
        /\ \A i \in 1..Len(s) : Append(s, e)[i] = s[i]
        /\ DOMAIN s = 1..Len(s) /\ DOMAIN Append(s, e) = 1..Len(s) + 1
    BY AppendProperties, LenProperties
  <1>2. QED BY <1>1

LEMMA OneRow ==
  ASSUME NEW e \in Piece
  PROVE  <<e>> \in Seq(Piece) /\ <<e>> # <<>> /\ DOMAIN <<e>> = {1} /\ <<e>>[1] = e
  OBVIOUS

LEMMA NoRow ==
  <<>> \in Seq(Piece) /\ DOMAIN <<>> = {}
  OBVIOUS

LEMMA PieceType ==
  /\ \A b \in Batches : Whole(b) \in Piece /\ Torn(b) \in Piece
                        /\ Whole(b).batch = b /\ Torn(b).batch = b
  /\ Whole(OldPart) \in Piece /\ Whole(OldPart).batch = 0
  BY DEF Whole, Torn, Piece, OldPart

LEMMA HighestOfOne ==
  ASSUME NEW q \in Parts
  PROVE  Highest({q}) = q
  BY DEF Highest, Parts

\* __init__ yields a part number and a flag, and an open part has a number.
LEMMA LoadedType ==
  ASSUME TypeOK, Settled, Scannable, pc = "down"
  PROVE  /\ Loaded[1] \in 0..MaxParts /\ Loaded[2] \in BOOLEAN
         /\ Loaded[2] => Loaded[1] > 0 /\ Virgin(Loaded[1])
         /\ \A p \in Parts : p > Loaded[1] => Virgin(p)
         /\ seqFile = <<>> => \A p \in Parts : stateParts[p] # <<>> => p = Loaded[1] /\ Loaded[2]
  <1>1. CASE seqFile # <<>>
    BY <1>1 DEF Loaded, TypeOK, Settled
  <1>2. CASE seqFile = <<>> /\ Existing(stateParts) # {}
    <2>1. PICK q \in Parts : \A p \in Parts : stateParts[p] # <<>> => p = q
      BY <1>2 DEF Scannable
    <2>2. Existing(stateParts) = {q}
      BY <1>2, <2>1 DEF Existing
    <2>3. Loaded = <<q, TRUE>>
      BY <1>2, <2>2, HighestOfOne DEF Loaded
    <2>4. stateParts[q] # <<>> /\ q \in 1..MaxParts
      BY <2>2 DEF Existing, Parts
    <2>5. \A p \in Parts : p >= q => Virgin(p)
      BY <1>2, <2>4, Numbers DEF Scannable, Virgin, Parts
    <2>6. QED BY <2>1, <2>3, <2>4, <2>5, Numbers DEF Parts
  <1>3. CASE seqFile = <<>> /\ Existing(stateParts) = {} /\ Existing(exportParts) # {}
    <2>1. Existing(exportParts) = {1} /\ 1 \in Parts
      BY <1>3, Numbers DEF Scannable, Existing, Parts
    <2>2. Loaded = <<1, FALSE>>
      BY <1>3, <2>1, HighestOfOne DEF Loaded
    <2>3. \A p \in Parts : p > 1 => Virgin(p)
      BY <1>3, Numbers DEF Scannable, Virgin, Parts
    <2>4. QED BY <1>3, <2>2, <2>3, Numbers DEF Existing
  <1>4. CASE seqFile = <<>> /\ Existing(stateParts) = {} /\ Existing(exportParts) = {}
    <2>1. Loaded = <<0, FALSE>>
      BY <1>4 DEF Loaded
    <2>2. \A p \in Parts : Virgin(p)
      BY <1>4 DEF Scannable, Virgin, Existing
    <2>3. QED BY <1>4, <2>1, <2>2, Numbers DEF Existing
  <1>5. QED BY <1>1, <1>2, <1>3, <1>4

-----------------------------------------------------------------------------
(* The numbers, step by step.                                              *)

Inv == TypeOK /\ Numbering

LEMMA InitInv == Init => Inv
  <1> SUFFICES ASSUME Init PROVE Inv
    OBVIOUS
  <1>1. PICK s \in {{}, {1}}, e \in {{}, {1}} :
          /\ s = {} \/ e = {}
          /\ stateParts = [p \in Parts |-> IF p \in s THEN <<Whole(OldPart)>> ELSE <<>>]
          /\ exportParts = [p \in Parts |-> IF p \in e THEN <<Whole(OldPart)>> ELSE <<>>]
    BY DEF Init
  <1>2. <<Whole(OldPart)>> \in Seq(Piece) /\ <<Whole(OldPart)>> # <<>>
    BY PieceType, OneRow
  <1>3. /\ stateParts \in [Parts -> Seq(Piece)] /\ exportParts \in [Parts -> Seq(Piece)]
        /\ \A p \in Parts : exportParts[p] # <<>> => p = 1 /\ stateParts[p] = <<>>
        /\ \A p \in Parts : stateParts[p] # <<>> => p = 1
    BY <1>1, <1>2, NoRow
  <1>4. /\ handedOff = [p \in Parts |-> 0] /\ seqFile = <<>> /\ pc = "down" /\ part = 0
        /\ mode = "batched" /\ batch = 0 /\ returned = {} /\ consumed = {} /\ crashes = 0
    BY DEF Init
  <1>5. open = FALSE
    BY DEF Init
  <1>6. handedOff \in [Parts -> Nat] /\ part \in 0..MaxParts /\ batch \in 0..MaxBatches
    BY <1>4, Numbers
  <1>7. open \in BOOLEAN
    BY <1>5
  <1>8. TypeOK
    BY <1>3, <1>4, <1>5, <1>6, <1>7 DEF TypeOK, Modes
  <1>9. 1 \in Parts
    BY Numbers DEF Parts
  <1>10. Numbering
    BY <1>3, <1>4, <1>5, <1>9 DEF Numbering, Shape, Unseen, Settled, Scannable
  <1>11. QED BY <1>8, <1>10 DEF Inv

\* What a step that touches no part and no counter has to keep.
LEMMA RestartOK ==
  ASSUME Inv, Restart
  PROVE  Inv'
  <1>1. /\ pc = "down" /\ pc' = "idle" /\ part' = Loaded[1] /\ open' = Loaded[2]
        /\ UNCHANGED <<stateParts, exportParts, seqFile, mode, batch, returned, consumed,
                       handedOff, crashes>>
    BY DEF Restart, durable, outside
  <1>2. /\ part' \in 0..MaxParts /\ open' \in BOOLEAN
        /\ open' => part' > 0 /\ Virgin(part')
        /\ \A p \in Parts : p > part' => Virgin(p)
        /\ seqFile = <<>> => \A p \in Parts : stateParts[p] # <<>> => p = part' /\ open'
    BY <1>1, LoadedType DEF Inv, Numbering
  <1>3. TypeOK'
    BY <1>1, <1>2 DEF Inv, TypeOK
  <1>4. Shape' /\ Unseen'
    BY <1>1, <1>2 DEF Inv, Numbering, Shape, Unseen, Virgin
  <1>5. Settled' /\ Scannable'
    BY <1>1, <1>2 DEF Inv, Numbering, Settled, Scannable, Virgin
  <1>6. QED BY <1>3, <1>4, <1>5 DEF Inv, Numbering

LEMMA WriteOK ==
  ASSUME Inv, NEW m \in Modes, Write(m)
  PROVE  Inv'
  <1>1. /\ pc = "idle" /\ batch < MaxBatches /\ part < MaxParts /\ mode' = m
        /\ batch' = batch + 1 /\ pc' = FirstStep(m)
        /\ UNCHANGED <<stateParts, exportParts, seqFile, part, open, returned, consumed,
                       handedOff, crashes>>
    BY DEF Write, durable, outside
  <1>2. /\ pc' \in {"append", "rename", "advance"}
        /\ pc' = "append" => open /\ m = "batched"
        /\ pc' = "rename" => open
        /\ pc' = "advance" => ~open
    BY <1>1 DEF FirstStep, NeedsNewPart, Modes
  <1>3. batch' \in Batches /\ batch' \in 0..MaxBatches /\ batch' \notin returned
        /\ returned \subseteq 1..batch'
    BY <1>1, Numbers DEF Inv, TypeOK, Numbering, Shape, Batches
  <1>4. TypeOK'
    BY <1>1, <1>2, <1>3 DEF Inv, TypeOK
  <1>5. Shape'
    BY <1>1, <1>2, <1>3 DEF Inv, Numbering, Shape
  <1>6. Unseen' /\ Settled' /\ Scannable'
    BY <1>1, <1>2 DEF Inv, Numbering, Unseen, Settled, Scannable, Virgin
  <1>7. QED BY <1>4, <1>5, <1>6 DEF Inv, Numbering

LEMMA RenameOK ==
  ASSUME Inv, Rename
  PROVE  Inv'
  <1>1. /\ pc = "rename" /\ pc' = "saveClosed" /\ open' = FALSE /\ open
        /\ part \in Parts /\ Virgin(part)
        /\ UNCHANGED <<seqFile, part, mode, batch, returned, consumed, crashes>>
    BY Numbers DEF Rename, Inv, TypeOK, Numbering, Shape, Unseen, Parts
  <1>2. /\ stateParts' \in [Parts -> Seq(Piece)] /\ exportParts' \in [Parts -> Seq(Piece)]
        /\ handedOff' \in [Parts -> Nat]
        /\ \A p \in Parts : p # part => exportParts'[p] = exportParts[p]
                                        /\ handedOff'[p] = handedOff[p]
    <2>1. CASE part \in Existing(stateParts)
      <3>1. stateParts[part] \in Seq(Piece) /\ <<>> \in Seq(Piece) /\ handedOff[part] + 1 \in Nat
        BY <1>1, NoRow DEF Inv, TypeOK
      <3>2. /\ exportParts' = [exportParts EXCEPT ![part] = stateParts[part]]
            /\ stateParts' = [stateParts EXCEPT ![part] = <<>>]
            /\ handedOff' = [handedOff EXCEPT ![part] = @ + 1]
        BY <2>1 DEF Rename
      <3>3. QED BY <1>1, <3>1, <3>2 DEF Inv, TypeOK
    <2>2. CASE part \notin Existing(stateParts)
      BY <2>2 DEF Rename, Inv, TypeOK
    <2>3. QED BY <2>1, <2>2
  <1>3. open' \in BOOLEAN
    BY <1>1
  <1>4. TypeOK'
    BY <1>1, <1>2, <1>3 DEF Inv, TypeOK
  <1>5. Shape'
    BY <1>1 DEF Inv, Numbering, Shape
  <1>6. Unseen'
    BY <1>1, <1>2 DEF Inv, TypeOK, Numbering, Unseen, Virgin, Parts
  <1>7. Settled' /\ Scannable'
    BY <1>1 DEF Settled, Scannable
  <1>8. QED BY <1>4, <1>5, <1>6, <1>7 DEF Inv, Numbering

LEMMA SaveClosedOK ==
  ASSUME Inv, SaveClosed
  PROVE  Inv'
  <1>1. /\ pc = "saveClosed" /\ pc' = "advance" /\ seqFile' = <<part, open>> /\ ~open
        /\ UNCHANGED <<stateParts, exportParts, part, open, mode, batch, returned, consumed,
                       handedOff, crashes>>
    BY DEF SaveClosed, outside, Inv, Numbering, Shape
  <1>2. /\ seqFile' # <<>> /\ seqFile'[1] = part /\ seqFile'[2] = open
        /\ seqFile' \in {<<>>} \union ((0..MaxParts) \X BOOLEAN)
    BY <1>1, Counter DEF Inv, TypeOK
  <1>3. TypeOK'
    BY <1>1, <1>2 DEF Inv, TypeOK
  <1>4. Shape' /\ Unseen'
    BY <1>1, <1>2 DEF Inv, Numbering, Shape, Unseen, Virgin
  <1>5. Settled' /\ Scannable'
    BY <1>1, <1>2 DEF Inv, Numbering, Unseen, Settled, Scannable, Virgin
  <1>6. QED BY <1>3, <1>4, <1>5 DEF Inv, Numbering

LEMMA AdvanceOK ==
  ASSUME Inv, Advance
  PROVE  Inv'
  <1>1. /\ pc = "advance" /\ part' = part + 1 /\ part' \in Parts /\ Virgin(part') /\ ~open
        /\ UNCHANGED <<stateParts, exportParts, seqFile, mode, batch, returned, consumed,
                       handedOff, crashes>>
    BY Numbers DEF Advance, durable, outside, Inv, TypeOK, Numbering, Shape, Unseen, Parts
  <1>2. /\ open' \in BOOLEAN /\ (open' <=> mode = "batched")
        /\ mode = "batched" => pc' = "append"
        /\ mode # "batched" => pc' = "save"
    <2>1. /\ open' = (mode = "batched")
          /\ mode = "batched" => pc' = "append"
          /\ mode # "batched" => pc' = "save"
      BY DEF Advance
    <2>2. QED BY <2>1
  <1>3. part' \in 0..MaxParts /\ part' > 0 /\ part' > part
    BY <1>1, Numbers DEF Inv, TypeOK, Parts
  <1>4. TypeOK'
    BY <1>1, <1>2, <1>3 DEF Inv, TypeOK
  <1>5. Shape'
    BY <1>1, <1>2, <1>3 DEF Inv, Numbering, Shape
  <1>6. Unseen'
    BY <1>1, <1>2, <1>3 DEF Inv, TypeOK, Numbering, Unseen, Virgin, Parts
  <1>7. Settled' /\ Scannable'
    BY <1>1, <1>2 DEF Inv, Numbering, Settled, Scannable, Virgin
  <1>8. QED BY <1>4, <1>5, <1>6, <1>7 DEF Inv, Numbering

\* An append touches the open part under state_dir, which nobody has seen yet.
LEMMA PartGrows ==
  ASSUME Inv, pc = "append", NEW e \in Piece, UNCHANGED <<exportParts, seqFile, handedOff>>,
         stateParts' = [stateParts EXCEPT ![part] = Append(@, e)],
         pc' \in {"save", "down"}, UNCHANGED <<part, open>>
  PROVE  /\ stateParts' \in [Parts -> Seq(Piece)] /\ part \in Parts
         /\ \A p \in Parts : p # part => stateParts'[p] = stateParts[p]
         /\ stateParts'[part] = Append(stateParts[part], e)
         /\ Settled' /\ Scannable'
  <1>1. part \in Parts /\ open /\ Virgin(part)
    BY Numbers DEF Inv, TypeOK, Numbering, Shape, Unseen, Parts
  <1>2. stateParts[part] \in Seq(Piece) /\ Append(stateParts[part], e) \in Seq(Piece)
    BY <1>1, RowAppended DEF Inv, TypeOK
  <1>3. /\ stateParts' \in [Parts -> Seq(Piece)]
        /\ \A p \in Parts : p # part => stateParts'[p] = stateParts[p]
        /\ stateParts'[part] = Append(stateParts[part], e)
    BY <1>1, <1>2 DEF Inv, TypeOK
  <1>4. Settled'
    BY DEF Inv, Numbering, Settled, Virgin
  <1>5. Scannable'
    BY <1>1, <1>3 DEF Inv, Numbering, Scannable, Virgin
  <1>6. QED BY <1>1, <1>3, <1>4, <1>5

LEMMA AppendRowsOK ==
  ASSUME Inv, AppendRows
  PROVE  Inv'
  <1>1. /\ pc = "append" /\ pc' = "save"
        /\ stateParts' = [stateParts EXCEPT ![part] = Append(@, Whole(batch))]
        /\ UNCHANGED <<exportParts, seqFile, part, open, mode, batch, returned, consumed,
                       handedOff, crashes>>
    BY DEF AppendRows, outside
  <1>2. Whole(batch) \in Piece /\ part > 0
    BY <1>1, PieceType DEF Inv, TypeOK, Numbering, Shape
  <1>3. stateParts' \in [Parts -> Seq(Piece)] /\ Settled' /\ Scannable'
    BY <1>1, <1>2, PartGrows
  <1>4. TypeOK'
    BY <1>1, <1>3 DEF Inv, TypeOK
  <1>5. Shape' /\ Unseen'
    BY <1>1, <1>2 DEF Inv, Numbering, Shape, Unseen, Virgin
  <1>6. QED BY <1>3, <1>4, <1>5 DEF Inv, Numbering

LEMMA SaveOK ==
  ASSUME Inv, Save
  PROVE  Inv'
  <1>1. /\ pc = "save" /\ seqFile' = <<part, open>> /\ part > 0 /\ (open <=> mode = "batched")
        /\ batch \in Batches
        /\ UNCHANGED <<stateParts, exportParts, part, open, mode, batch, consumed, handedOff,
                       crashes>>
    BY DEF Save, outside, Inv, Numbering, Shape
  <1>2. /\ seqFile' # <<>> /\ seqFile'[1] = part /\ seqFile'[2] = open
        /\ seqFile' \in {<<>>} \union ((0..MaxParts) \X BOOLEAN)
    BY <1>1, Counter DEF Inv, TypeOK
  <1>3. \/ pc' = "idle" /\ returned' = returned \union {batch} /\ mode = "batched"
        \/ pc' = "replace" /\ returned' = returned /\ mode = "atomic"
    BY DEF Save, Return, Inv, TypeOK, Modes
  <1>4. TypeOK'
    BY <1>1, <1>2, <1>3 DEF Inv, TypeOK
  <1>5. Shape'
    <2>1. returned' \subseteq 1..batch'
      <3>1. batch' = batch /\ batch \in 1..batch /\ returned \subseteq 1..batch
        BY <1>1, Numbers DEF Inv, Numbering, Shape, Batches
      <3>2. returned' \subseteq returned \union {batch}
        BY <1>3
      <3>3. QED BY <3>1, <3>2
    <2>2. pc' = "replace" => seqFile' = <<part', FALSE>>
      <3>1. mode = "atomic" => open = FALSE
        BY <1>1 DEF Inv, TypeOK
      <3>2. part' = part
        BY <1>1
      <3>3. QED BY <1>1, <1>3, <3>1, <3>2
    <2>3. QED BY <1>1, <1>2, <1>3, <2>1, <2>2 DEF Inv, Numbering, Shape
  <1>6. Unseen' /\ Settled' /\ Scannable'
    BY <1>1, <1>2, <1>3 DEF Inv, Numbering, Unseen, Settled, Scannable, Virgin
  <1>7. QED BY <1>4, <1>5, <1>6 DEF Inv, Numbering

LEMMA ReplaceOK ==
  ASSUME Inv, Replace
  PROVE  Inv'
  <1>1. /\ pc = "replace" /\ pc' = "idle" /\ part \in Parts /\ ~open /\ batch \in Batches
        /\ seqFile = <<part, FALSE>> /\ returned' = returned \union {batch}
        /\ exportParts' = [exportParts EXCEPT ![part] = <<Whole(batch)>>]
        /\ handedOff' = [handedOff EXCEPT ![part] = @ + 1]
        /\ UNCHANGED <<stateParts, seqFile, part, open, mode, batch, consumed, crashes>>
    <2>1. pc = "replace" /\ ~open /\ batch \in Batches /\ seqFile = <<part, FALSE>>
      BY DEF Replace, Inv, Numbering, Shape
    <2>2. part \in Parts
      BY <2>1, Numbers DEF Inv, TypeOK, Parts
    <2>3. QED BY <2>1, <2>2 DEF Replace, Return
  <1>2. <<Whole(batch)>> \in Seq(Piece)
    BY <1>1, PieceType, OneRow
  <1>3. /\ exportParts' \in [Parts -> Seq(Piece)] /\ handedOff' \in [Parts -> Nat]
        /\ \A p \in Parts : p # part => exportParts'[p] = exportParts[p]
                                        /\ handedOff'[p] = handedOff[p]
    BY <1>1, <1>2 DEF Inv, TypeOK
  <1>4. seqFile # <<>> /\ seqFile[1] = part /\ ~seqFile[2]
    BY <1>1, Counter DEF Inv, TypeOK
  <1>5. TypeOK'
    BY <1>1, <1>3 DEF Inv, TypeOK
  <1>6. Shape'
    BY <1>1, <1>4 DEF Inv, Numbering, Shape, Batches
  <1>7. Unseen' /\ Settled'
    BY <1>1, <1>3, <1>4 DEF Inv, TypeOK, Numbering, Unseen, Settled, Virgin, Parts
  <1>8. Scannable'
    BY <1>1, <1>4 DEF Scannable
  <1>9. QED BY <1>5, <1>6, <1>7, <1>8 DEF Inv, Numbering

LEMMA CrashOK ==
  ASSUME ~RenameGap, Inv, Crash \/ CrashInAppend
  PROVE  Inv'
  <1>1. /\ pc # "down" /\ pc # "saveClosed" /\ pc' = "down" /\ crashes' = crashes + 1
        /\ UNCHANGED <<exportParts, seqFile, part, open, mode, batch, returned, consumed,
                       handedOff>>
    BY DEF Crash, CrashInAppend, Die
  <1>2. stateParts' \in [Parts -> Seq(Piece)] /\ Settled' /\ Scannable'
    <2>1. CASE Crash
      <3>1. stateParts' = stateParts
        BY <2>1 DEF Crash
      <3>2. QED BY <1>1, <3>1 DEF Inv, TypeOK, Numbering, Settled, Scannable, Virgin
    <2>2. CASE CrashInAppend
      <3>1. Torn(batch) \in Piece /\ pc = "append"
        BY <2>2, PieceType DEF CrashInAppend, Inv, Numbering, Shape
      <3>2. QED BY <1>1, <2>2, <3>1, PartGrows DEF CrashInAppend
    <2>3. QED BY <2>1, <2>2
  <1>3. TypeOK'
    BY <1>1, <1>2 DEF Inv, TypeOK
  <1>4. Shape' /\ Unseen'
    BY <1>1 DEF Inv, Numbering, Shape, Unseen
  <1>5. QED BY <1>2, <1>3, <1>4 DEF Inv, Numbering

LEMMA SplunkOK ==
  ASSUME Inv, NEW p \in Parts, SplunkTakes(p)
  PROVE  Inv'
  <1>1. /\ consumed' = consumed \union {exportParts[p][i] : i \in DOMAIN exportParts[p]}
        /\ exportParts' = [exportParts EXCEPT ![p] = <<>>]
        /\ UNCHANGED <<stateParts, seqFile, part, open, pc, mode, batch, returned, handedOff,
                       crashes>>
    BY DEF SplunkTakes
  <1>2. exportParts[p] \in Seq(Piece)
    BY DEF Inv, TypeOK
  <1>3. {exportParts[p][i] : i \in DOMAIN exportParts[p]} \subseteq Piece
    BY <1>2, LenProperties, ElementOfSeq
  <1>4. /\ exportParts' \in [Parts -> Seq(Piece)]
        /\ \A q \in Parts : exportParts'[q] \in {exportParts[q], <<>>}
    BY <1>1, NoRow DEF Inv, TypeOK
  <1>5. TypeOK'
    BY <1>1, <1>3, <1>4 DEF Inv, TypeOK
  <1>6. part \in Parts \/ ~(open \/ pc = "replace" \/ (pc = "save" /\ mode = "atomic"))
    BY Numbers DEF Inv, TypeOK, Numbering, Shape, Parts
  <1>7. seqFile # <<>> /\ seqFile[2] /\ seqFile[1] > 0 => seqFile[1] \in Parts
    BY Numbers DEF Inv, TypeOK, Parts
  <1>8. Shape' /\ Unseen'
    BY <1>1, <1>4, <1>6 DEF Inv, Numbering, Shape, Unseen, Virgin
  <1>9. Settled' /\ Scannable'
    BY <1>1, <1>4, <1>7 DEF Inv, Numbering, Settled, Scannable, Virgin
  <1>10. QED BY <1>5, <1>8, <1>9 DEF Inv, Numbering

LEMMA StepInv ==
  ASSUME ~RenameGap, Inv, [Next]_vars
  PROVE  Inv'
  <1>1. CASE UNCHANGED vars
    BY <1>1 DEF vars, durable, outside, Inv, TypeOK, Numbering, Shape, Unseen, Settled, Scannable,
                Virgin
  <1>2. CASE Next
    BY <1>2, RestartOK, WriteOK, RenameOK, SaveClosedOK, AdvanceOK, AppendRowsOK, SaveOK,
       ReplaceOK, CrashOK, SplunkOK DEF Next
  <1>3. QED BY <1>1, <1>2

\* The numbers hold together through every crash the code allows for.
THEOREM Numbered ==
  ASSUME ~RenameGap
  PROVE  Spec => []Inv
  BY InitInv, StepInv, PTL DEF Spec

\* Type correctness; a part number never leaves 1..MaxParts.
THEOREM TypeCorrect ==
  ASSUME ~RenameGap
  PROVE  Spec => []TypeOK
  BY Numbered, PTL DEF Inv

\* No consumer meets a part number twice (part_writer.py:77-80, 126-135).
THEOREM HandsOffOnce ==
  ASSUME ~RenameGap
  PROVE  Spec => []HandedOffOnce
  <1> DEFINE Once == Inv /\ HandedOffOnce
  <1>1. Init => HandedOffOnce
    BY DEF Init, HandedOffOnce
  <1>2. ASSUME Inv, HandedOffOnce, [Next]_vars PROVE HandedOffOnce'
    <2>1. CASE handedOff' = handedOff
      BY <1>2, <2>1 DEF HandedOffOnce
    <2>2. CASE handedOff' # handedOff
      <3>1. Rename \/ Replace
        BY <1>2, <2>2 DEF Next, vars, outside, Restart, Write, SaveClosed, Advance, AppendRows,
           Save, Crash, CrashInAppend, Die, SplunkTakes
      <3>2. part \in Parts /\ handedOff[part] = 0
        BY <1>2, <3>1, Numbers DEF Rename, Replace, Inv, TypeOK, Numbering, Shape, Unseen, Virgin,
           Parts
      <3>3. handedOff' = [handedOff EXCEPT ![part] = @ + 1]
        BY <2>2, <3>1 DEF Rename, Replace
      <3>4. QED BY <1>2, <3>2, <3>3 DEF HandedOffOnce, Inv, TypeOK
    <2>3. QED BY <2>1, <2>2
  <1>3. QED BY <1>1, <1>2, Numbered, PTL DEF Spec

\* An exported part is only ever taken as it is (part_writer.py:52-70).
THEOREM ExportedStays ==
  ASSUME ~RenameGap
  PROVE  Spec => ExportedNeverChanges
  <1> DEFINE Stays == \A p \in Parts : exportParts[p] # <<>> =>
                        exportParts'[p] \in {exportParts[p], <<>>}
  <1>1. ASSUME Inv, [Next]_vars PROVE Stays
    <2>1. CASE exportParts' = exportParts
      BY <2>1
    <2>2. CASE Rename \/ Replace
      <3>1. part \in Parts /\ exportParts[part] = <<>>
        BY <1>1, <2>2, Numbers DEF Rename, Replace, Inv, TypeOK, Numbering, Shape, Unseen, Virgin,
           Parts
      <3>2. \A p \in Parts : p # part => exportParts'[p] = exportParts[p]
        BY <1>1, <2>2, <3>1 DEF Rename, Replace, Inv, TypeOK
      <3>3. QED BY <3>1, <3>2
    <2>3. ASSUME NEW p \in Parts, SplunkTakes(p) PROVE Stays
      BY <1>1, <2>3 DEF SplunkTakes, Inv, TypeOK
    <2>4. QED BY <1>1, <2>1, <2>2, <2>3 DEF Next, vars, durable, Restart, Write, SaveClosed,
             Advance, AppendRows, Save, Crash, CrashInAppend, Die
  <1>2. Inv /\ [Next]_vars => [Stays]_exportParts
    BY <1>1
  <1>3. QED BY <1>2, Numbered, PTL DEF Spec, ExportedNeverChanges

-----------------------------------------------------------------------------
(* The rows, step by step.                                                 *)

AllPieces == consumed \union Pieces(stateParts) \union Pieces(exportParts)
IsReturned(p) == \E i \in DOMAIN stateParts[p] : stateParts[p][i].batch \in returned

\* Rows of a returned batch are under state_dir only in the open part; rows of
\* the batch at hand only once its append is done.
RowsAtHand ==
  /\ pc # "down" => \A p \in Parts : IsReturned(p) => p = part /\ open
  /\ \A p \in Parts : \A i \in DOMAIN stateParts[p] :
       /\ stateParts[p][i].batch <= batch
       /\ pc \notin {"idle", "down"} /\ stateParts[p][i].batch = batch
            => pc = "save" /\ open /\ p = part
  /\ pc = "save" /\ open => \E i \in DOMAIN stateParts[part] : stateParts[part][i] = Whole(batch)

RInv == RowsAtHand /\ NothingLost

LEMMA PieceOf ==
  ASSUME NEW parts \in [Parts -> Seq(Piece)], NEW p \in Parts, NEW i \in DOMAIN parts[p]
  PROVE  parts[p][i] \in Piece /\ parts[p][i].batch \in Nat /\ parts[p][i] \in Pieces(parts)
  <1>1. parts[p] \in Seq(Piece) /\ parts[p][i] \in Piece
    BY LenProperties, ElementOfSeq
  <1>2. Batches \subseteq Nat /\ OldPart \in Nat
    BY Numbers DEF Batches, OldPart
  <1>3. parts[p][i].batch \in Batches \union {OldPart}
    BY <1>1 DEF Piece
  <1>4. parts[p][i] \in Pieces(parts)
    BY DEF Pieces
  <1>5. QED BY <1>1, <1>2, <1>3, <1>4

\* What stays in the parts or goes to Splunk is not lost.
LEMMA KeepsPieces ==
  ASSUME \A p \in Parts : /\ \A i \in DOMAIN stateParts[p] : stateParts[p][i] \in AllPieces'
                          /\ \A i \in DOMAIN exportParts[p] : exportParts[p][i] \in AllPieces',
         consumed \subseteq consumed'
  PROVE  AllPieces \subseteq AllPieces'
  BY DEF AllPieces, Pieces

LEMMA StillThere ==
  ASSUME NothingLost, AllPieces \subseteq AllPieces', returned' = returned
  PROVE  \A b \in returned' : Whole(b) \in AllPieces'
  BY DEF NothingLost, AllPieces

LEMMA InitRows == Init => RInv
  <1> SUFFICES ASSUME Init PROVE RInv
    OBVIOUS
  <1>1. \A p \in Parts : stateParts[p] \in {<<>>, <<Whole(OldPart)>>}
    BY DEF Init
  <1>2. \A p \in Parts : \A i \in DOMAIN stateParts[p] : stateParts[p][i].batch = 0
    BY <1>1, PieceType, OneRow, NoRow
  <1>3. returned = {} /\ pc = "down" /\ batch = 0
    BY DEF Init
  <1>4. QED BY <1>2, <1>3 DEF RInv, RowsAtHand, NothingLost, IsReturned

\* Steps that move no rows and save no counter.
LEMMA QuietRows ==
  ASSUME Inv, RInv,
         Restart \/ (\E m \in Modes : Write(m)) \/ SaveClosed \/ Advance \/ Crash \/ Save
  PROVE  RInv'
  <1>1. UNCHANGED <<stateParts, exportParts, consumed>>
    BY DEF Restart, Write, SaveClosed, Advance, Crash, Die, Save, durable, outside
  <1>2. AllPieces' = AllPieces
    BY <1>1 DEF AllPieces, Pieces
  <1>3. \A p \in Parts : \A i \in DOMAIN stateParts[p] : stateParts[p][i].batch \in Nat
    BY PieceOf DEF Inv, TypeOK
  <1>4. CASE Restart
    <2>1. /\ pc = "down" /\ pc' = "idle" /\ part' = Loaded[1] /\ open' = Loaded[2]
          /\ UNCHANGED <<seqFile, batch, returned>>
      BY <1>4 DEF Restart, durable, outside
    <2>2. ASSUME NEW p \in Parts, IsReturned(p) PROVE p = part' /\ open'
      <3>1. seqFile # <<>>
        BY <2>2 DEF IsReturned, Inv, Numbering, Shape
      <3>2. Loaded = seqFile
        BY <3>1 DEF Loaded
      <3>3. QED BY <2>1, <2>2, <3>2 DEF IsReturned, RInv, NothingLost, Existing
    <2>3. RowsAtHand'
      BY <1>1, <2>1, <2>2 DEF RInv, RowsAtHand, IsReturned
    <2>4. QED BY <1>1, <1>2, <2>1, <2>3 DEF RInv, NothingLost, AllPieces, Existing
  <1>5. CASE \E m \in Modes : Write(m)
    <2>1. /\ pc = "idle" /\ batch' = batch + 1 /\ batch \in Nat
          /\ pc' \in {"append", "rename", "advance"}
          /\ UNCHANGED <<seqFile, part, open, returned>>
      BY <1>5 DEF Write, FirstStep, NeedsNewPart, durable, outside, Inv, TypeOK
    <2>2. RowsAtHand'
      BY <1>1, <1>3, <2>1 DEF RInv, RowsAtHand, IsReturned
    <2>3. QED BY <1>1, <1>2, <2>1, <2>2 DEF RInv, NothingLost, AllPieces, Existing
  <1>6. CASE SaveClosed
    <2>1. /\ pc = "saveClosed" /\ pc' = "advance" /\ seqFile' = <<part, open>> /\ ~open
          /\ UNCHANGED <<part, open, batch, returned>>
      BY <1>6 DEF SaveClosed, outside, Inv, Numbering, Shape
    <2>2. RowsAtHand' /\ \A p \in Parts : ~IsReturned(p)
      BY <1>1, <2>1 DEF RInv, RowsAtHand, IsReturned
    <2>3. QED BY <1>1, <1>2, <2>1, <2>2 DEF RInv, NothingLost, AllPieces, Existing, IsReturned
  <1>7. CASE Advance
    <2>1. /\ pc = "advance" /\ ~open /\ pc' \in {"append", "save"}
          /\ (pc' = "save" => ~open') /\ UNCHANGED <<seqFile, batch, returned>>
      BY <1>7 DEF Advance, durable, outside, Inv, Numbering, Shape
    <2>2. RowsAtHand'
      BY <1>1, <2>1 DEF RInv, RowsAtHand, IsReturned
    <2>3. QED BY <1>1, <1>2, <2>1, <2>2 DEF RInv, NothingLost, AllPieces, Existing
  <1>8. CASE Crash
    <2>1. pc' = "down" /\ UNCHANGED <<seqFile, part, open, batch, returned>>
      BY <1>8 DEF Crash, Die
    <2>2. RowsAtHand'
      BY <1>1, <2>1 DEF RInv, RowsAtHand
    <2>3. QED BY <1>1, <1>2, <2>1, <2>2 DEF RInv, NothingLost, AllPieces, Existing
  <1>9. CASE Save
    <2>1. /\ pc = "save" /\ seqFile' = <<part, open>> /\ (open <=> mode = "batched")
          /\ part \in Parts /\ open \in BOOLEAN /\ part \in 0..MaxParts
          /\ UNCHANGED <<part, open, batch>>
      BY <1>9, Numbers DEF Save, outside, Inv, TypeOK, Numbering, Shape, Parts
    <2>2. seqFile'[1] = part /\ seqFile'[2] = open
      BY <2>1, Counter
    <2>3. CASE open
      <3>1. pc' = "idle" /\ returned' = returned \union {batch}
        BY <1>9, <2>1, <2>3 DEF Save, Return
      <3>2. \A p \in Parts : IsReturned(p)' => p = part
        BY <1>1, <2>1, <3>1 DEF RInv, RowsAtHand, IsReturned
      <3>3. RowsAtHand'
        BY <1>1, <2>1, <2>3, <3>1, <3>2 DEF RInv, RowsAtHand
      <3>4. Whole(batch) \in AllPieces
        BY <2>1, <2>3 DEF RInv, RowsAtHand, AllPieces, Pieces
      <3>5. QED BY <1>1, <1>2, <2>1, <2>2, <2>3, <3>1, <3>2, <3>3, <3>4
            DEF RInv, NothingLost, AllPieces, Existing, IsReturned
    <2>4. CASE ~open
      <3>1. pc' = "replace" /\ returned' = returned
        BY <1>9, <2>1, <2>4 DEF Save
      <3>2. RowsAtHand' /\ \A p \in Parts : ~IsReturned(p)
        BY <1>1, <2>1, <2>4, <3>1 DEF RInv, RowsAtHand, IsReturned
      <3>3. QED BY <1>1, <1>2, <2>1, <3>1, <3>2
            DEF RInv, NothingLost, AllPieces, Existing, IsReturned
    <2>5. QED BY <2>3, <2>4
  <1>10. QED BY <1>4, <1>5, <1>6, <1>7, <1>8, <1>9

LEMMA RenameRows ==
  ASSUME Inv, RInv, Rename
  PROVE  RInv'
  <1>1. /\ pc = "rename" /\ pc' = "saveClosed" /\ part \in Parts /\ exportParts[part] = <<>>
        /\ UNCHANGED <<seqFile, part, batch, returned, consumed>>
    BY Numbers DEF Rename, Inv, TypeOK, Numbering, Shape, Unseen, Virgin, Parts
  <1>2. /\ stateParts'[part] = <<>> /\ exportParts'[part] = stateParts[part]
        /\ \A p \in Parts : p # part => /\ stateParts'[p] = stateParts[p]
                                        /\ exportParts'[p] = exportParts[p]
    BY <1>1 DEF Rename, Inv, TypeOK, Existing
  <1>3. AllPieces \subseteq AllPieces'
    <2>1. ASSUME NEW p \in Parts, NEW i \in DOMAIN stateParts[p]
          PROVE  stateParts[p][i] \in AllPieces'
      BY <1>1, <1>2, <2>1 DEF AllPieces, Pieces
    <2>2. ASSUME NEW p \in Parts, NEW i \in DOMAIN exportParts[p]
          PROVE  exportParts[p][i] \in AllPieces'
      BY <1>1, <1>2, <2>2, NoRow DEF AllPieces, Pieces
    <2>3. QED BY <1>1, <2>1, <2>2, KeepsPieces
  <1>4. \A p \in Parts : ~IsReturned(p)'
    BY <1>1, <1>2, NoRow DEF RInv, RowsAtHand, IsReturned
  <1>5. RowsAtHand'
    BY <1>1, <1>2, <1>4, NoRow DEF RInv, RowsAtHand
  <1>6. NothingLost'
    BY <1>1, <1>3, <1>4, StillThere DEF RInv, NothingLost, AllPieces, Existing, IsReturned
  <1>7. QED BY <1>5, <1>6 DEF RInv

\* Rows of the batch at hand join the open part, all of them or cut off.
LEMMA GrowsRows ==
  ASSUME Inv, RInv, AppendRows \/ CrashInAppend
  PROVE  RInv'
  <1>1. /\ pc = "append" /\ open /\ batch \in Batches /\ batch \notin returned
        /\ UNCHANGED <<exportParts, seqFile, part, open, batch, returned, consumed, handedOff>>
    BY DEF AppendRows, CrashInAppend, Die, outside, Inv, Numbering, Shape
  <1>2. PICK e \in {Whole(batch), Torn(batch)} :
          /\ stateParts' = [stateParts EXCEPT ![part] = Append(@, e)]
          /\ \/ pc' = "save" /\ e = Whole(batch)
             \/ pc' = "down"
    BY DEF AppendRows, CrashInAppend, Die
  <1>3. e \in Piece /\ e.batch = batch /\ batch \in Nat
    BY <1>1, <1>2, PieceType, Numbers DEF Batches
  <1>4. /\ part \in Parts /\ stateParts[part] \in Seq(Piece)
        /\ stateParts'[part] = Append(stateParts[part], e)
        /\ \A p \in Parts : p # part => stateParts'[p] = stateParts[p]
    BY <1>1, <1>2, <1>3, PartGrows DEF Inv, TypeOK
  <1>5. /\ \A i \in DOMAIN stateParts'[part] : stateParts'[part][i] = e
             \/ (i \in DOMAIN stateParts[part] /\ stateParts'[part][i] = stateParts[part][i])
        /\ \A i \in DOMAIN stateParts[part] :
             i \in DOMAIN stateParts'[part] /\ stateParts'[part][i] = stateParts[part][i]
        /\ \E i \in DOMAIN stateParts'[part] : stateParts'[part][i] = e
    BY <1>3, <1>4, RowAppended
  <1>6. AllPieces \subseteq AllPieces'
    <2>1. ASSUME NEW p \in Parts, NEW i \in DOMAIN stateParts[p]
          PROVE  stateParts[p][i] \in AllPieces'
      BY <1>4, <1>5, <2>1 DEF AllPieces, Pieces
    <2>2. ASSUME NEW p \in Parts, NEW i \in DOMAIN exportParts[p]
          PROVE  exportParts[p][i] \in AllPieces'
      BY <1>1, <2>2 DEF AllPieces, Pieces
    <2>3. QED BY <1>1, <2>1, <2>2, KeepsPieces
  <1>7. \A p \in Parts : IsReturned(p)' => IsReturned(p)
    BY <1>1, <1>3, <1>4, <1>5 DEF IsReturned
  <1>8. RowsAtHand'
    <2>1. \A p \in Parts : \A i \in DOMAIN stateParts'[p] :
            /\ stateParts'[p][i].batch <= batch
            /\ stateParts'[p][i].batch = batch => p = part
      BY <1>1, <1>3, <1>4, <1>5 DEF RInv, RowsAtHand
    <2>2. QED BY <1>1, <1>2, <1>5, <1>7, <2>1 DEF RInv, RowsAtHand
  <1>9. NothingLost'
    <2>1. ASSUME NEW p \in Parts, NEW i \in DOMAIN stateParts'[p],
                 stateParts'[p][i].batch \in returned
          PROVE  seqFile[1] = p /\ seqFile[2]
      <3>1. i \in DOMAIN stateParts[p] /\ stateParts'[p][i] = stateParts[p][i]
        BY <1>1, <1>3, <1>4, <1>5, <2>1
      <3>2. p \in Existing(stateParts)
        BY <3>1, NoRow DEF Existing
      <3>3. QED BY <2>1, <3>1, <3>2 DEF RInv, NothingLost
    <2>2. QED BY <1>1, <1>6, <2>1, StillThere DEF RInv, NothingLost, AllPieces, Existing
  <1>10. QED BY <1>8, <1>9 DEF RInv

LEMMA ReplaceRows ==
  ASSUME Inv, RInv, Replace
  PROVE  RInv'
  <1>1. /\ pc = "replace" /\ pc' = "idle" /\ part \in Parts /\ ~open
        /\ exportParts[part] = <<>> /\ batch \in Batches
        /\ exportParts' = [exportParts EXCEPT ![part] = <<Whole(batch)>>]
        /\ returned' = returned \union {batch}
        /\ UNCHANGED <<stateParts, seqFile, part, open, batch, consumed>>
    <2>1. pc = "replace" /\ ~open /\ batch \in Batches
      BY DEF Replace, Inv, Numbering, Shape
    <2>2. part \in Parts /\ exportParts[part] = <<>>
      BY <2>1, Numbers DEF Inv, TypeOK, Numbering, Unseen, Virgin, Parts
    <2>3. QED BY <2>1, <2>2 DEF Replace, Return
  <1>2. /\ exportParts'[part] = <<Whole(batch)>>
        /\ \A p \in Parts : p # part => exportParts'[p] = exportParts[p]
    BY <1>1 DEF Inv, TypeOK
  <1>3. AllPieces \subseteq AllPieces'
    <2>1. ASSUME NEW p \in Parts, NEW i \in DOMAIN stateParts[p]
          PROVE  stateParts[p][i] \in AllPieces'
      BY <1>1, <2>1 DEF AllPieces, Pieces
    <2>2. ASSUME NEW p \in Parts, NEW i \in DOMAIN exportParts[p]
          PROVE  exportParts[p][i] \in AllPieces'
      BY <1>1, <1>2, <2>2, NoRow DEF AllPieces, Pieces
    <2>3. QED BY <1>1, <2>1, <2>2, KeepsPieces
  <1>4. Whole(batch) \in AllPieces'
    <2>1. Whole(batch) \in Piece
      BY <1>1, PieceType
    <2>2. 1 \in DOMAIN exportParts'[part] /\ exportParts'[part][1] = Whole(batch)
      BY <1>2, <2>1, OneRow
    <2>3. QED BY <1>1, <2>2 DEF AllPieces, Pieces
  <1>5. \A p \in Parts : ~IsReturned(p)'
    BY <1>1 DEF RInv, RowsAtHand, IsReturned
  <1>6. RowsAtHand'
    BY <1>1, <1>5 DEF RInv, RowsAtHand
  <1>7. NothingLost'
    BY <1>1, <1>3, <1>4, <1>5 DEF RInv, NothingLost, AllPieces, Existing, IsReturned
  <1>8. QED BY <1>6, <1>7 DEF RInv

LEMMA SplunkRows ==
  ASSUME Inv, RInv, NEW p \in Parts, SplunkTakes(p)
  PROVE  RInv'
  <1>1. /\ consumed' = consumed \union {exportParts[p][i] : i \in DOMAIN exportParts[p]}
        /\ exportParts' = [exportParts EXCEPT ![p] = <<>>]
        /\ UNCHANGED <<stateParts, seqFile, part, open, pc, batch, returned>>
    BY DEF SplunkTakes
  <1>2. \A q \in Parts : q # p => exportParts'[q] = exportParts[q]
    BY <1>1 DEF Inv, TypeOK
  <1>3. AllPieces \subseteq AllPieces'
    <2>1. ASSUME NEW q \in Parts, NEW i \in DOMAIN stateParts[q]
          PROVE  stateParts[q][i] \in AllPieces'
      BY <1>1, <2>1 DEF AllPieces, Pieces
    <2>2. ASSUME NEW q \in Parts, NEW i \in DOMAIN exportParts[q]
          PROVE  exportParts[q][i] \in AllPieces'
      BY <1>1, <1>2, <2>2 DEF AllPieces, Pieces
    <2>3. QED BY <1>1, <2>1, <2>2, KeepsPieces
  <1>4. RowsAtHand'
    BY <1>1 DEF RInv, RowsAtHand, IsReturned
  <1>5. NothingLost'
    BY <1>1, <1>3, StillThere DEF RInv, NothingLost, AllPieces, Existing
  <1>6. QED BY <1>4, <1>5 DEF RInv

\* No returned batch is lost, nor stranded in a part that nobody moves any more
\* (part_writer.py:111-135, 156-172, 212-224).
THEOREM NeverLost ==
  ASSUME ~RenameGap
  PROVE  Spec => []NothingLost
  <1>1. ASSUME Inv, RInv, [Next]_vars PROVE RInv'
    <2>1. CASE UNCHANGED vars
      BY <1>1, <2>1 DEF vars, durable, outside, RInv, RowsAtHand, NothingLost, IsReturned, Existing,
                        Pieces
    <2>2. CASE Next
      BY <1>1, <2>2, QuietRows, RenameRows, GrowsRows, ReplaceRows, SplunkRows DEF Next
    <2>3. QED BY <1>1, <2>1, <2>2
  <1>2. QED BY <1>1, InitRows, Numbered, PTL DEF Spec, RInv

=============================================================================
