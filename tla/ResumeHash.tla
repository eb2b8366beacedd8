----------------------------- MODULE ResumeHash -----------------------------
(***************************************************************************)
(* The tree hash of a resource that is downloaded in several attempts:     *)
(* HashBuilder cuts the chunks into blocks, save_checkpoint stores its     *)
(* digests through the codec, and the next attempt builds a HashBuilder    *)
(* from what it decodes and from the tail it reads again.                  *)
(*                                                                         *)
(* Abstractions.  The resource does not change and .part holds what was    *)
(* written (module Haul is about both), so the bytes are those of Resource.*)
(* Finalize removes the control file in the same step.                     *)
(***************************************************************************)
EXTENDS CheckpointCodec, SequencesExt

CONSTANTS
    Resource,       \* the bytes of the resource
    BlockSizes,     \* values of HaulState.block_size the caller may pass
    DefaultBlock,   \* block size without a checkpoint
    Etags,          \* lengths of the ETag, 0 for none
    MaxChunk,       \* bound: bytes in one chunk
    IoChunk         \* bytes hash_file reads at a time

Total == Len(Resource)

ASSUME ResumeHashAssumption ==
    /\ Resource \in Seq(Range(Resource)) /\ Resource # <<>>
    /\ BlockSizes \subseteq Nat \ {0} /\ DefaultBlock \in BlockSizes
    /\ Etags \subseteq Nat /\ 0 \in Etags
    /\ MaxChunk \in Nat \ {0} /\ IoChunk \in Nat \ {0}

VARIABLES
    pc,         \* "idle", "stream" or "hash_file"
    plan,       \* what of the StreamPlan goes into a checkpoint
    block,      \* bytes in _current_hash
    pending,    \* bytes update() has not processed yet
    ctrl,       \* .part.ctrl
    saved,      \* the checkpoint that was last saved
    result      \* the tree hash of the last attempt that completed

vars == <<pc, plan, block, pending, ctrl, saved, result>>

NoFile == [cut |-> "missing"]
NoResult == [block |-> 0, hashes |-> <<>>]

(* Of the StreamPlan: cursor, extent, etag, reported_length; of its        *)
(* HashBuilder: block_size and completed_hashes.                           *)
NoPlan == [cursor |-> 0, block |-> CHOOSE b \in BlockSizes : TRUE, extent |-> NoLength,
           etag |-> CHOOSE e \in Etags : TRUE, reported |-> NoLength, hashes |-> <<>>]

Init ==
    /\ pc = "idle" /\ plan = NoPlan /\ block = <<>> /\ pending = <<>>
    /\ ctrl = NoFile /\ saved = NoFile /\ result = NoResult

Stop == pc' = "idle" /\ plan' = NoPlan /\ block' = <<>> /\ pending' = <<>>

-----------------------------------------------------------------------------
(* An attempt begins.                                                      *)

Loads == ctrl # NoFile /\ Decodable(ctrl)

(* The whole body, into a HashBuilder of the caller's block size.          *)
Begin200(b, e, total) ==
    /\ pc = "idle" /\ (ctrl # NoFile => ~Raises(ctrl))
    /\ pc' = "stream" /\ result' = NoResult
    /\ plan' = [cursor |-> 0, block |-> b, extent |-> total, etag |-> e,
                reported |-> total, hashes |-> <<>>]
    /\ block' = <<>> /\ pending' = <<>>
    /\ UNCHANGED <<ctrl, saved>>

(* What prepare_haul makes of the control file.                            *)
Prepared ==
    IF Loads THEN Decode(ctrl)
    ELSE [cursor |-> 0, block |-> DefaultBlock, etag |-> 0, tail |-> <<>>, hashes |-> <<>>]

(* The bytes behind the last block that has a digest.                      *)
Reread(cp) == SubSeq(Resource, Len(cp.hashes) * cp.block + 1, cp.cursor)

(* Mutant: the tail is not given to the builder.                           *)
Begin206Cold(e, total) ==
    /\ pc = "idle" /\ (ctrl # NoFile => ~Raises(ctrl))
    /\ Prepared.cursor < Total
    /\ 0 \in {e, Prepared.etag} \/ e = Prepared.etag
    /\ <<>> \notin {Prepared.tail, Reread(Prepared)} => Prepared.tail = Reread(Prepared)
    /\ pc' = "stream" /\ result' = NoResult
    /\ plan' = [cursor |-> Prepared.cursor, block |-> Prepared.block, extent |-> total,
                etag |-> IF e # 0 THEN e ELSE Prepared.etag, reported |-> total,
                hashes |-> Prepared.hashes]
    /\ block' = <<>> /\ pending' = <<>>
    /\ UNCHANGED <<ctrl, saved>>

(* 206: the digests of the checkpoint, and the tail for update(), once it  *)
(* has been compared with tail_hash.  Otherwise ControlFileError.          *)
Begin206(e, total) ==
    /\ pc = "idle" /\ (ctrl # NoFile => ~Raises(ctrl))
    /\ Prepared.cursor < Total
    /\ 0 \in {e, Prepared.etag} \/ e = Prepared.etag
    /\ <<>> \notin {Prepared.tail, Reread(Prepared)} => Prepared.tail = Reread(Prepared)
    /\ pc' = "stream" /\ result' = NoResult
    /\ plan' = [cursor |-> Prepared.cursor, block |-> Prepared.block, extent |-> total,
                etag |-> IF e # 0 THEN e ELSE Prepared.etag, reported |-> total,
                hashes |-> Prepared.hashes]
    /\ block' = <<>> /\ pending' = Reread(Prepared)
    /\ UNCHANGED <<ctrl, saved>>

(* 416 at the end of the resource: hash_file with the block size of the    *)
(* checkpoint.                                                             *)
Begin416 ==
    /\ pc = "idle" /\ Loads /\ Prepared.cursor = Total
    /\ pc' = "hash_file" /\ result' = NoResult
    /\ plan' = [cursor |-> 0, block |-> Prepared.block, extent |-> NoLength,
                etag |-> Prepared.etag, reported |-> NoLength, hashes |-> <<>>]
    /\ block' = <<>> /\ pending' = <<>>
    /\ UNCHANGED <<ctrl, saved>>

(* Any other 416: _reset_checkpoint keeps nothing but the block size.      *)
Reset416 ==
    /\ pc = "idle" /\ (ctrl # NoFile => ~Raises(ctrl))
    /\ saved' = [cursor |-> 0, block |-> Prepared.block, extent |-> NoLength, etag |-> 0,
                 reported |-> NoLength, tail |-> <<>>, hashes |-> <<>>]
    /\ ctrl' = Encode(saved')
    /\ UNCHANGED <<pc, plan, block, pending, result>>

(* load raises something other than ControlFileError, and haul() with it.  *)
LoadRaises == pc = "idle" /\ ctrl # NoFile /\ Raises(ctrl) /\ UNCHANGED vars

-----------------------------------------------------------------------------
(* HashBuilder.                                                            *)

(* update() is called with the next chunk of the body, or of the file.     *)
Update(n) ==
    /\ pc # "idle" /\ pending = <<>> /\ plan.cursor + n <= Total
    /\ pc = "hash_file" => n = IoChunk \/ (n < IoChunk /\ plan.cursor + n = Total)
    /\ pending' = SubSeq(Resource, plan.cursor + 1, plan.cursor + n)
    /\ plan' = [plan EXCEPT !.cursor = @ + n]
    /\ UNCHANGED <<pc, block, ctrl, saved, result>>

Shorter(m, n) == IF m < n THEN m ELSE n

(* Mutant: every turn of the loop may fill a block of its own.             *)
TakeWhole ==
    /\ pending # <<>>
    /\ LET take == Shorter(Len(pending), plan.block)
           fed == block \o SubSeq(pending, 1, take)
       IN /\ pending' = SubSeq(pending, take + 1, Len(pending))
          /\ IF Len(fed) >= plan.block
             THEN block' = <<>> /\ plan' = [plan EXCEPT !.hashes = Append(@, fed)]
             ELSE block' = fed /\ UNCHANGED plan
    /\ UNCHANGED <<pc, ctrl, saved, result>>

(* One turn of the loop of update().                                       *)
Take ==
    /\ pending # <<>>
    /\ LET take == Shorter(Len(pending), plan.block - Len(block))
           fed == block \o SubSeq(pending, 1, take)
       IN /\ pending' = SubSeq(pending, take + 1, Len(pending))
          /\ IF Len(fed) = plan.block
             THEN block' = <<>> /\ plan' = [plan EXCEPT !.hashes = Append(@, fed)]
             ELSE block' = fed /\ UNCHANGED plan
    /\ UNCHANGED <<pc, ctrl, saved, result>>

(* finalize() and the removal of the control file.                         *)
Finish ==
    /\ pc # "idle" /\ pending = <<>> /\ plan.cursor = Total
    /\ result' = [block |-> plan.block,
                  hashes |-> IF block = <<>> THEN plan.hashes ELSE Append(plan.hashes, block)]
    /\ ctrl' = NoFile /\ saved' = NoFile
    /\ Stop

-----------------------------------------------------------------------------
(* save_checkpoint: current_digest is None at a block boundary.            *)
Checkpoint == [cursor |-> plan.cursor, block |-> plan.block, extent |-> plan.extent,
               etag |-> plan.etag, reported |-> plan.reported,
               tail |-> block, hashes |-> plan.hashes]

(* After a chunk; module Haul says after which.                            *)
Save ==
    /\ pc = "stream" /\ pending = <<>> /\ plan.cursor > 0
    /\ saved' = Checkpoint /\ ctrl' = Encode(Checkpoint)
    /\ UNCHANGED <<pc, plan, block, pending, result>>

(* The attempt ends for whatever reason.                                   *)
Interrupt == pc # "idle" /\ Stop /\ UNCHANGED <<ctrl, saved, result>>

(* The control file is damaged between two attempts.                       *)
Damage ==
    /\ pc = "idle" /\ ctrl # NoFile /\ ctrl = Encode(saved)
    /\ ctrl' \in Damaged(ctrl)
    /\ UNCHANGED <<pc, plan, block, pending, saved, result>>

Next ==
    \/ \E b \in BlockSizes, e \in Etags, total \in {NoLength, Total} : Begin200(b, e, total)
    \/ \E e \in Etags, total \in {NoLength, Total} : Begin206(e, total)
    \/ Begin416 \/ Reset416 \/ LoadRaises
    \/ \E n \in 1 .. (MaxChunk + IoChunk) : Update(n)
    \/ Take \/ Finish \/ Save \/ Interrupt \/ Damage

Spec == Init /\ [][Next]_vars
-----------------------------------------------------------------------------
TypeOK ==
    /\ pc \in {"idle", "stream", "hash_file"}
    /\ plan.cursor \in 0 .. Total /\ plan.block \in BlockSizes /\ plan.etag \in Etags
    /\ {plan.extent, plan.reported} \subseteq {NoLength, Total}
    /\ plan.hashes \in Seq(Seq(Range(Resource)))
    /\ {block, pending} \subseteq Seq(Range(Resource))

(* At every turn of update()'s loop the digests and the open block are the *)
(* bytes up to the cursor that are not pending, cut at multiples of the    *)
(* block size, however the bytes came: in chunks, from the tail of an      *)
(* earlier attempt, or from a checkpoint that lost digests.                *)
BuilderFollows ==
    pc # "idle" =>
        /\ FlattenSeq(plan.hashes) \o block \o pending = SubSeq(Resource, 1, plan.cursor)
        /\ \A i \in 1 .. Len(plan.hashes) : Len(plan.hashes[i]) = plan.block
        /\ Len(block) < plan.block

(* What hash_file computes of a file that is read as a whole.              *)
TreeHash(bytes, size) ==
    [i \in 1 .. ((Len(bytes) + size - 1) \div size) |->
        SubSeq(bytes, (i - 1) * size + 1, Shorter(i * size, Len(bytes)))]

(* "Compute the tree hash of a complete file on disk" (_types.py:368): the *)
(* sha256 of a download in several attempts is the one hash_file gives.    *)
HashIsOfFile == result # NoResult => result.hashes = TreeHash(Resource, result.block)

(* A control file that loads holds the checkpoint that was saved, except   *)
(* that digests at the end may be missing: damage never yields another     *)
(* cursor, ETag, length or tail hash.                                      *)
LoadedIsSaved ==
    Loads => /\ [Decode(ctrl) EXCEPT !.hashes = <<>>] = [saved EXCEPT !.hashes = <<>>]
             /\ IsPrefix(Decode(ctrl).hashes, saved.hashes)

Intact == ctrl # NoFile /\ ctrl = Encode(saved)

(* A saved checkpoint can be loaded, with the one exception of a tail hash *)
(* behind extensions that need no padding.                                 *)
LoadsUnlessAligned ==
    Intact => Decodable(ctrl) \/ (saved.tail # <<>> /\ Padding(saved) = 0)

=============================================================================
