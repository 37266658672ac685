------------------------------- MODULE Relay --------------------------------
(***************************************************************************)
(* What a streaming relay promises of a block: what it has sent is always  *)
(* a beginning of the transformed text received so far, and all of it once *)
(* the block has ended.                                                    *)
(***************************************************************************)
EXTENDS Sequences, SequencesExt

CONSTANT Block
VARIABLES
    received,   \* per block: the transform of all the text received
    sent,       \* per block: what was passed on
    ended       \* the blocks that ended in order

rvars == <<received, sent, ended>>

RelayInit ==
    /\ received = [b \in Block |-> <<>>] /\ sent = received
    /\ ended = {}

\* More text arrives and some of it is passed on; a block that ends owes nothing.
Pass ==
    /\ ended \subseteq ended'
    /\ \A b \in Block :
           /\ IsPrefix(sent[b], sent'[b]) /\ IsPrefix(sent'[b], received'[b])
           /\ b \in ended => UNCHANGED <<received[b], sent[b]>>
           /\ b \in ended' => sent'[b] = received'[b]

RelaySpec == RelayInit /\ [][Pass]_rvars
=============================================================================
