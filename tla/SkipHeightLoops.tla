--------------------------- MODULE SkipHeightLoops ---------------------------
(***************************************************************************)
(* omniledger/skipchain/skipchain.go, StoreSkipBlock: the two loops that   *)
(* compute the height of a new block and the blocks its back-links name,   *)
(* run step by step against the definitions of module SkipHeights for      *)
(* every base, maximum height and index within the bounds.  Every block's  *)
(* BackLinkIDs[0] is the block before it.                                  *)
(***************************************************************************)
EXTENDS SkipHeights, Sequences

CONSTANTS MaxBase,   \* bound on BaseHeight
          MaxIndex   \* bound on the index of the new block

VARIABLES base,     \* prop.BaseHeight
          max,      \* prop.MaximumHeight
          index,    \* prop.Index
          pc,       \* "height", "links" or "done"
          rest,     \* the loop variable index
          height,   \* prop.Height
          links,    \* prop.BackLinkIDs, as far as filled
          pointer   \* the block the second loop looks at

vars == <<base, max, index, pc, rest, height, links, pointer>>

(* verifyBlock has checked 0 < MaximumHeight <= BaseHeight on the genesis  *)
(* block; an appended block has Index >= 1.                                *)
Init ==
    /\ base \in 1..MaxBase
    /\ max \in 1..base
    /\ index \in 1..MaxIndex
    /\ pc = "height"
    /\ rest = index
    /\ height = 1
    /\ links = <<>>
    /\ pointer = index - 1

(* mutant: break one round late *)
HeightLoopLate ==
    /\ pc = "height"
    /\ IF rest % base = 0
       THEN /\ rest' = rest \div base
            /\ IF height > max
               THEN pc' = "links" /\ UNCHANGED height
               ELSE height' = height + 1 /\ UNCHANGED pc
       ELSE pc' = "links" /\ UNCHANGED <<rest, height>>
    /\ UNCHANGED <<base, max, index, links, pointer>>

(* for prop.Height = 1; index % prop.BaseHeight == 0; prop.Height++ *)
HeightLoop ==
    /\ pc = "height"
    /\ IF rest % base = 0
       THEN /\ rest' = rest \div base
            /\ IF height >= max
               THEN pc' = "links" /\ UNCHANGED height
               ELSE height' = height + 1 /\ UNCHANGED pc
       ELSE pc' = "links" /\ UNCHANGED <<rest, height>>
    /\ UNCHANGED <<base, max, index, links, pointer>>

(* mutant: accept a block one too low *)
LinkLoopLow ==
    /\ pc = "links"
    /\ IF Len(links) = height
       THEN pc' = "done" /\ UNCHANGED <<links, pointer>>
       ELSE /\ UNCHANGED pc
            /\ IF Height(pointer, base, max) < Len(links)
               THEN pointer' = pointer - 1 /\ UNCHANGED links
               ELSE links' = Append(links, pointer) /\ UNCHANGED pointer
    /\ UNCHANGED <<base, max, index, rest, height>>

(* for h := range prop.BackLinkIDs: go back while the block is too low     *)
LinkLoop ==
    /\ pc = "links"
    /\ IF Len(links) = height
       THEN pc' = "done" /\ UNCHANGED <<links, pointer>>
       ELSE /\ UNCHANGED pc
            /\ IF Height(pointer, base, max) < Len(links) + 1
               THEN pointer' = pointer - 1 /\ UNCHANGED links
               ELSE links' = Append(links, pointer) /\ UNCHANGED pointer
    /\ UNCHANGED <<base, max, index, rest, height>>

(* No call computes anything. *)
Idle ==
    /\ pc = "done"
    /\ base = 1 /\ max = 1 /\ index = 1
    /\ rest = 1 /\ height = 1 /\ links = <<0>> /\ pointer = 0

Next == HeightLoop \/ LinkLoop

-----------------------------------------------------------------------------
(* The first loop computes the reference height, at the limit MaximumHeight *)
(* too.                                                                    *)
HeightIsReference == pc # "height" => height = Height(index, base, max)

(* The second loop fills every level with the nearest block that is high   *)
(* enough, and never walks past the genesis block.                         *)
LinksAreNearest ==
    /\ pointer >= 0
    /\ \A h \in DOMAIN links : links[h] = BackLink(index, h - 1, base, max)
=============================================================================
