----------------------------- MODULE Proposals -----------------------------
(***************************************************************************)
(* The choice of algorithms: ikev2/src/proposals.rs.  What the settings    *)
(* ask for becomes a list of algorithm sets; the list becomes proposals;   *)
(* a proposal, the gateway's choice or its own offer, is matched against   *)
(* the list.                                                               *)
(*                                                                         *)
(* A cipher is a record: two key lengths share a transform id, and bits is *)
(* 0 for a cipher without a key length attribute.  The other algorithms    *)
(* are names; a PRF has the name of the hash its integrity algorithm uses. *)
(***************************************************************************)
EXTENDS Naturals, SequencesExt

None == "none"
NoCipher == [id |-> None, bits |-> 0, aead |-> FALSE]

\* An algorithm set; an ESP set has no PRF.  NoSet stands for an error.
AlgorithmSet(cipher, prf, integrity, group) ==
  [cipher |-> cipher, prf |-> prf, integrity |-> integrity, group |-> group]
NoSet == AlgorithmSet(NoCipher, None, None, None)

-----------------------------------------------------------------------------
\* The settings: a spec is the list of its words, each with the kind of
\* algorithm it names.

Word(kind, is) == [kind |-> kind, is |-> is]

\* parts: the last word of a kind counts.
Part(spec, kind, default) ==
  LET i == SelectLastInSeq(spec, LAMBDA w : w.kind = kind)
  IN  IF i = 0 THEN default ELSE spec[i].is

Known(spec) == \A i \in DOMAIN spec : spec[i].kind # "unknown"

\* parse_ike, one spec.  With an AEAD cipher the integrity algorithm only
\* names the PRF.
IkeSet(spec) ==
  LET cipher == Part(spec, "cipher", NoCipher)
      integrity == Part(spec, "integrity", None)
      prf == Part(spec, "prf", integrity)
      group == Part(spec, "group", None)
  IN  IF \/ ~Known(spec) \/ cipher = NoCipher \/ group = None \/ prf = None
         \/ ~cipher.aead /\ integrity = None
      THEN NoSet
      ELSE AlgorithmSet(cipher, prf, IF cipher.aead THEN None ELSE integrity, group)

\* parse_esp, one spec.
EspSet(spec) ==
  LET cipher == Part(spec, "cipher", NoCipher)
      integrity == Part(spec, "integrity", None)
  IN  IF ~Known(spec) \/ cipher = NoCipher \/ (~cipher.aead /\ integrity = None)
      THEN NoSet
      ELSE AlgorithmSet(cipher, None, IF cipher.aead THEN None ELSE integrity,
                        Part(spec, "group", None))

\* parse_ike and parse_esp: one bad spec, or none at all, is an error.
ParseIke(specs) == [i \in DOMAIN specs |-> IkeSet(specs[i])]
ParseEsp(specs) == [i \in DOMAIN specs |-> EspSet(specs[i])]
Usable(sets) == sets # <<>> /\ \A i \in DOMAIN sets : sets[i] # NoSet

-----------------------------------------------------------------------------
\* Proposals.

Transform(kind, id, bits) == [kind |-> kind, id |-> id, bits |-> bits]

\* foreign: some transform is of an unknown type.  spi: it has the right size.
Proposal(protocol, transforms) ==
  [protocol |-> protocol, spi |-> TRUE, foreign |-> FALSE, transforms |-> transforms]

Integrity(set) ==
  IF set.cipher.aead THEN {} ELSE {Transform("integrity", set.integrity, 0)}

\* ike_proposals and esp_proposals, of one set.
IkeProposal(set) ==
  Proposal("ike", {Transform("cipher", set.cipher.id, set.cipher.bits),
                   Transform("prf", set.prf, 0), Transform("group", set.group, 0)}
                    \cup Integrity(set))

EspProposal(set, withGroups) ==
  Proposal("esp", {Transform("cipher", set.cipher.id, set.cipher.bits),
                   Transform("esn", "no", 0)}
                    \cup Integrity(set)
                    \cup IF withGroups /\ set.group # None
                         THEN {Transform("group", set.group, 0)} ELSE {})

TransformsOf(p, kind) == {t \in p.transforms : t.kind = kind}

\* A plausible mistake: the key length is not compared.
OffersAnyLength(p, kind, id, bits) == \E t \in TransformsOf(p, kind) : t.id = id

\* offers.
Offers(p, kind, id, bits) ==
  \E t \in TransformsOf(p, kind) : t.id = id /\ (bits = 0 \/ t.bits = bits)

\* offers_cipher.
OffersCipher(p, set) ==
  /\ Offers(p, "cipher", set.cipher.id, set.cipher.bits)
  /\ set.cipher.aead \/ Offers(p, "integrity", set.integrity, 0)

\* A group given restricts the choice to it.
Permits(group, ours) == group = None \/ ours = group

\* select_ike: the first of our sets that the proposal offers.
SelectIke(p, sets, group) ==
  LET i == SelectInSeq(sets, LAMBDA set :
             /\ Permits(group, set.group)
             /\ OffersCipher(p, set)
             /\ Offers(p, "prf", set.prf, 0)
             /\ Offers(p, "group", set.group, 0))
  IN  IF p.protocol # "ike" \/ p.foreign \/ i = 0 THEN NoSet ELSE sets[i]

\* select_esp: the group is the negotiated one, and a proposal without a group
\* matches a set with one.
SelectEsp(p, sets, group) ==
  LET pfs == TransformsOf(p, "group") # {}
      i == SelectInSeq(sets, LAMBDA set :
             /\ OffersCipher(p, set)
             /\ pfs => /\ set.group # None /\ Permits(group, set.group)
                       /\ Offers(p, "group", set.group, 0))
      extended == TransformsOf(p, "esn") # {} /\ ~Offers(p, "esn", "no", 0)
  IN  IF p.protocol # "esp" \/ p.foreign \/ ~p.spi \/ extended \/ i = 0 THEN NoSet
      ELSE [sets[i] EXCEPT !.group = IF pfs THEN @ ELSE None]

\* The handlers of a rekey by the gateway look at its proposals in order: the
\* first acceptable one, 0 if there is none.
FirstIke(ps, sets, group) == SelectInSeq(ps, LAMBDA p : SelectIke(p, sets, group) # NoSet)
FirstEsp(ps, sets, group) == SelectInSeq(ps, LAMBDA p : SelectEsp(p, sets, group) # NoSet)
=============================================================================
