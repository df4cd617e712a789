----------------------------- MODULE Reassembly -----------------------------
(***************************************************************************)
(* Fragments of IKE messages: struct Reassembler of                        *)
(* ikev2/src/message/mod.rs, and how messages are cut.  A message is a     *)
(* record with its id, whether it is a response, and the number of its     *)
(* fragments, total; a fragment is the message it was cut from and its     *)
(* number.  Only what a fragment carries in its own header, id, total and  *)
(* number, is looked at.                                                   *)
(***************************************************************************)
EXTENDS Naturals, Sequences

CONSTANTS
  MaxFragments,   \* MAX_FRAGMENTS
  NoMessage       \* a model value

ASSUME MaxFragmentsAssumption == MaxFragments \in Nat \ {0}

\* Reassembler::default.  parts maps numbers to the messages the fragments are
\* of; first is the one whose first fragment gave next_payload.
EmptyReassembler == [id |-> NoMessage, total |-> 0, first |-> NoMessage, parts |-> <<>>]

\* encode_encrypted: the fragments a message of this size goes out in.
Fragments(m) == 1 .. m.total

\* Bad numbering is an error that changes nothing.
Numbered(m, number) ==
  number # 0 /\ m.total # 0 /\ number <= m.total /\ m.total <= MaxFragments

\* A fragment of another message, by id and total, begins anew.
Started(r, m) ==
  IF r.id = m.id /\ r.total = m.total THEN r
  ELSE [r EXCEPT !.id = m.id, !.total = m.total, !.parts = <<>>]

\* add, once the numbering is right: the fragment joins the others.
Inserted(r, m, number) ==
  LET s == Started(r, m)
  IN  [s EXCEPT !.first = IF number = 1 THEN m ELSE @,
                !.parts = [n \in DOMAIN s.parts \cup {number} |->
                             IF n = number THEN m ELSE s.parts[n]]]

\* A chain of payloads is the fragments it was made of and the message whose
\* first fragment says how to read it.
NoChain == [first |-> NoMessage, parts |-> <<>>]

\* add: the reassembler and the chain, if the fragment completes one.
Added(r, m, number) ==
  LET s == Inserted(r, m, number)
  IN  CASE ~Numbered(m, number) -> [reassembler |-> r, chain |-> NoChain]
        [] DOMAIN s.parts # 1 .. m.total -> [reassembler |-> s, chain |-> NoChain]
        [] OTHER -> [reassembler |-> EmptyReassembler,
                     chain |-> [first |-> s.first, parts |-> s.parts]]

\* Packet::decrypt: a message that came in one piece is its own chain.
Opened(r, m, number) ==
  IF m.total = 1
  THEN [reassembler |-> r, chain |-> [first |-> m, parts |-> <<m>>]]
  ELSE Added(r, m, number)
=============================================================================
