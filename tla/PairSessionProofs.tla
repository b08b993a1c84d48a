--------------------------- MODULE PairSessionProofs ---------------------------
(***************************************************************************)
(* The two pages keep their types, seal what they send with the key of the *)
(* link it goes to, and get connected with consent only: for any number of *)
(* links and any number of faults.                                         *)
(***************************************************************************)
EXTENDS PairSession, SequenceTheorems, TLAPS

Switched == "switched" \in crossed

\* The page's id, secret and key are those of its mailbox, and it has one from
\* its first subscription on.
PageHasLink ==
    /\ page.mailbox \in Links => page.local = InitLocal(page.mailbox)
    /\ page.sub \in {None, page.mailbox}
    /\ (page.prompts # <<>> \/ page.accepted \/ page.offer # "none" \/ page.iceOut \/ page.answer)
       => page.mailbox \in Links

\* A responder that has joined has its link's key; before, it has nothing.
PeerHasKey ==
    \A l \in Links :
        /\ peer[l].at # "out" => peer[l].key = KeyOf(l)
        /\ (peer[l].offer \/ peer[l].owes \/ peer[l].iceOut) => peer[l].at # "out"

\* The page has sent its one offer, to the link l.
OfferTo(l) == page.offer = "sent" /\ page.to = l

\* Where an offer or an answer lies, page.to says who the offer was for ...
MailOffers ==
    \A l \in Links :
        /\ \A n \in 1..Len(mail[l]["r"]) : mail[l]["r"][n].type = "offer" => OfferTo(l)
        /\ \A n \in 1..Len(mail[l]["i"]) : mail[l]["i"][n].type = "answer" => OfferTo(l)

\* ... and so it does at a responder that has read it.
PeerOffers == \A l \in Links : (peer[l].offer \/ peer[l].owes) => OfferTo(l)

\* What the responder has fetched is in its mailbox.
FetchedThere == \A l \in Links : peer[l].fetched <= Len(mail[l]["r"])

\* An answer is only read while the request of the link it comes from counts
\* as accepted.
PageOffers ==
    /\ page.answer => page.offer = "sent" /\ (page.to \in consented \/ Switched)
    /\ up # None => page.answer /\ page.to = up

\* While the page counts as accepted, it is the request of its present link
\* that was accepted, unless the prompt had outlived its link.
AcceptedHere == page.accepted => page.mailbox \in consented \/ Switched

PairInv ==
    /\ TypeOK
    /\ PageHasLink
    /\ PeerHasKey
    /\ SealedForItsLink
    /\ MailOffers
    /\ PeerOffers
    /\ FetchedThere
    /\ PageOffers
    /\ AcceptedHere

-----------------------------------------------------------------------------
(* Operators.                                                              *)

\* Keys, sealed messages and the records of a link.
LEMMA SealType ==
  ASSUME NEW l \in Links,
         NEW type \in {"join", "connect_request", "offer", "answer", "ice", "disconnect"}
  PROVE  /\ Seal(KeyOf(l), type) \in SignalRecord /\ Seal(KeyOf(l), type).type = type
         /\ Seal(KeyOf(l), type).key = KeyOf(l)
         /\ JoinMessage \in SignalRecord /\ JoinMessage.type = "join"
         /\ InitLocal(l).k_sig = KeyOf(l) /\ l # None
         /\ DeriveKeys(LinkOf(InitLocal(l)).fragment).k_sig = KeyOf(l)
         /\ LinkOf(InitLocal(l)).token = l
BY NoneAssumption DEF Seal, SignalRecord, JoinMessage, InitLocal, DeriveKeys, LinkOf, Links

\* A message may be added to one mailbox, at its end; all else stays.
Adds(l, side, m) ==
    /\ mail' \in [Links -> [i: Seq(SignalRecord), r: Seq(SignalRecord)]]
    /\ \A k \in Links : \A other \in Sides : \A n \in 1..Len(mail'[k][other]) :
         \/ n \in 1..Len(mail[k][other]) /\ mail'[k][other][n] = mail[k][other][n]
         \/ k = l /\ other = side /\ mail'[k][other][n] = m
    /\ \A k \in Links : Len(mail[k]["r"]) <= Len(mail'[k]["r"])

LEMMA AppendAdds ==
  ASSUME mail \in [Links -> [i: Seq(SignalRecord), r: Seq(SignalRecord)]],
         NEW l \in Links, NEW side \in Sides, NEW m \in SignalRecord,
         mail' = [mail EXCEPT ![l][side] = Append(@, m)]
  PROVE  Adds(l, side, m)
<1>1. mail[l][side] \in Seq(SignalRecord)
  BY DEF Sides
<1>2. /\ Append(mail[l][side], m) \in Seq(SignalRecord)
      /\ Len(Append(mail[l][side], m)) = Len(mail[l][side]) + 1 /\ Len(mail[l][side]) \in Nat
      /\ \A n \in 1..Len(mail[l][side]) : Append(mail[l][side], m)[n] = mail[l][side][n]
      /\ Append(mail[l][side], m)[Len(mail[l][side]) + 1] = m
  BY <1>1, AppendProperties, LenProperties
<1>3. mail' \in [Links -> [i: Seq(SignalRecord), r: Seq(SignalRecord)]]
  BY <1>2 DEF Sides
<1>4. /\ mail'[l][side] = Append(mail[l][side], m)
      /\ \A k \in Links : \A other \in Sides :
           (k # l \/ other # side) => mail'[k][other] = mail[k][other]
  BY DEF Sides
<1>5. ASSUME NEW k \in Links, NEW other \in Sides, NEW n \in 1..Len(mail'[k][other])
      PROVE  \/ n \in 1..Len(mail[k][other]) /\ mail'[k][other][n] = mail[k][other][n]
             \/ k = l /\ other = side /\ mail'[k][other][n] = m
  <2>1. CASE k = l /\ other = side
    <3>1. n \in 1..Len(mail[l][side]) \/ n = Len(mail[l][side]) + 1
      BY <1>2, <1>4, <2>1
    <3>2. QED
      BY <1>2, <1>4, <2>1, <3>1
  <2>2. CASE k # l \/ other # side
    BY <1>4, <2>2
  <2>3. QED
    BY <2>1, <2>2
<1>6. ASSUME NEW k \in Links
      PROVE  Len(mail[k]["r"]) <= Len(mail'[k]["r"])
  <2>1. Len(mail[k]["r"]) \in Nat
    BY LenProperties
  <2>2. CASE k = l /\ side = "r"
    BY <1>2, <1>4, <2>2
  <2>3. CASE k # l \/ side # "r"
    BY <1>4, <2>1, <2>3 DEF Sides
  <2>4. QED
    BY <2>2, <2>3
<1>7. QED
  BY <1>3, <1>5, <1>6 DEF Adds

\* What Send does to the mailboxes.
LEMMA SendAdds ==
  ASSUME TypeOK, NEW l \in Links, NEW side \in Sides, NEW m \in SignalRecord, Send(l, side, m)
  PROVE  Adds(l, side, m)
<1>1. CASE CanSend(l)
  BY <1>1, AppendAdds DEF Send, TypeOK
<1>2. CASE ~CanSend(l)
  <2>1. \A k \in Links : Len(mail[k]["r"]) \in Nat
    BY LenProperties DEF TypeOK
  <2>2. QED
    BY <1>2, <2>1 DEF Send, Adds, TypeOK
<1>3. QED
  BY <1>1, <1>2
-----------------------------------------------------------------------------
(* The parts of the invariant that are about the mailboxes.                *)

\* A message that is sealed with its link's key and is an offer or an answer
\* only where there was an offer.
LEMMA AddsKeepsMail ==
  ASSUME SealedForItsLink, MailOffers, NEW l \in Links, NEW side \in Sides, NEW m, Adds(l, side, m),
         m = JoinMessage \/ Opens(KeyOf(l), m),
         m.type \in {"offer", "answer"} => OfferTo(l)',
         \A k \in Links : OfferTo(k) => OfferTo(k)',
         TypeOK, peer' \in [Links -> PeerRecord],
         \A k \in Links : peer'[k].fetched <= Len(mail[k]["r"])
  PROVE  SealedForItsLink' /\ MailOffers' /\ FetchedThere'
<1>1. SealedForItsLink'
  BY DEF SealedForItsLink, Adds
<1>2. ASSUME NEW k \in Links, NEW other \in Sides, NEW n \in 1..Len(mail'[k][other])
      PROVE  \/ n \in 1..Len(mail[k][other]) /\ mail'[k][other][n] = mail[k][other][n]
             \/ k = l /\ mail'[k][other][n] = m
  BY DEF Adds
<1>3. ASSUME NEW k \in Links, NEW n \in 1..Len(mail'[k]["r"]), mail'[k]["r"][n].type = "offer"
      PROVE  OfferTo(k)'
  BY <1>2, <1>3 DEF MailOffers, Sides
<1>4. ASSUME NEW k \in Links, NEW n \in 1..Len(mail'[k]["i"]), mail'[k]["i"][n].type = "answer"
      PROVE  OfferTo(k)'
  BY <1>2, <1>4 DEF MailOffers, Sides
<1>5. FetchedThere'
  <2>1. SUFFICES ASSUME NEW k \in Links
                 PROVE  peer'[k].fetched <= Len(mail'[k]["r"])
    BY DEF FetchedThere
  <2>2. peer'[k].fetched \in Nat /\ Len(mail[k]["r"]) \in Nat /\ Len(mail'[k]["r"]) \in Nat
    BY LenProperties DEF PeerRecord, TypeOK, Adds
  <2>3. QED
    BY <2>2 DEF Adds
<1>6. QED
  BY <1>1, <1>3, <1>4, <1>5 DEF MailOffers

\* Nothing is said of the mailboxes that a step which leaves them could break,
\* as long as no offer is taken back.
LEMMA SameMail ==
  ASSUME SealedForItsLink, MailOffers, UNCHANGED mail, \A k \in Links : OfferTo(k) => OfferTo(k)',
         \A k \in Links : peer'[k].fetched <= Len(mail[k]["r"])
  PROVE  SealedForItsLink' /\ MailOffers' /\ FetchedThere'
BY DEF SealedForItsLink, MailOffers, FetchedThere

-----------------------------------------------------------------------------
LEMMA PairInit == Init => PairInv
<1> SUFFICES ASSUME Init PROVE PairInv
  OBVIOUS
<1> USE NoneAssumption, EmptySeq DEF Init, Links
<1>1. PageInit \in PageRecord
  BY DEF PageInit, PageRecord
<1>2. PeerInit \in PeerRecord
  BY DEF PeerInit, PeerRecord
<1>3. TypeOK
  BY <1>1, <1>2, SessionBounds DEF TypeOK
<1>4. PageHasLink /\ PeerHasKey /\ PeerOffers /\ PageOffers /\ AcceptedHere
  BY DEF PageHasLink, PageInit, PeerHasKey, PeerInit, PeerOffers, PageOffers, AcceptedHere
<1>5. SealedForItsLink /\ MailOffers /\ FetchedThere
  BY DEF SealedForItsLink, MailOffers, FetchedThere, PeerInit, Sides
<1>6. QED
  BY <1>3, <1>4, <1>5 DEF PairInv

-----------------------------------------------------------------------------
(* The steps of the initiator's page that leave the mailboxes.             *)

\* What such a step has to keep: the rest of the invariant is about others.
LEMMA PageStep ==
  ASSUME PairInv, UNCHANGED <<expired, mail, peer, up>>, page' \in PageRecord,
         box' \in [Links -> {"none", "open", "joined", "gone"}],
         told' \subseteq Sides, lostIce' \subseteq Sides, faults' \in 0..MaxFaults,
         closing' \subseteq Links, consented \subseteq consented', consented' \subseteq Links,
         crossed \subseteq crossed', crossed' \subseteq {"switched", "switching"},
         page.offer = "sent" => page'.offer = "sent" /\ page'.to = page.to,
         PageHasLink', AcceptedHere',
         page'.answer => page.answer \/ (\E l \in Links : OfferTo(l) /\ (l \in consented \/ Switched)),
         page.answer => page'.answer
  PROVE  PairInv'
<1> USE DEF PairInv
<1>1. TypeOK'
  BY DEF TypeOK
<1>2. \A k \in Links : OfferTo(k) => OfferTo(k)'
  BY DEF OfferTo
<1>3. SealedForItsLink' /\ MailOffers' /\ FetchedThere'
  BY <1>2, SameMail DEF FetchedThere
<1>4. PeerHasKey' /\ PeerOffers'
  BY <1>2 DEF PeerHasKey, PeerOffers
<1>5. PageOffers'
  BY DEF PageOffers, OfferTo, Switched
<1>6. QED
  BY <1>1, <1>3, <1>4, <1>5

LEMMA LinkInv ==
  ASSUME PairInv, NEW l \in Links, CreateLink(l) \/ LinkCreated(l) \/ LinkFails(l)
  PROVE  PairInv'
<1> USE NoneAssumption DEF PairInv
<1>1. page \in PageRecord /\ l # None
  BY DEF TypeOK, Links
<1>2. CASE CreateLink(l)
  <2>1. page' = [page EXCEPT !.busy = l, !.ticking = FALSE, !.sub = None]
        /\ UNCHANGED <<server, closing, peer, up, told, faults, consented, crossed, lostIce>>
    BY <1>2 DEF CreateLink
  <2>2. page' \in PageRecord
    BY <1>1, <2>1 DEF PageRecord
  <2>3. PageHasLink' /\ AcceptedHere'
    BY <1>1, <2>1 DEF PageHasLink, AcceptedHere, PageRecord, Switched
  <2>4. QED
    BY <1>1, <2>1, <2>2, <2>3, PageStep DEF TypeOK, server, PageRecord
<1>3. CASE LinkFails(l)
  <2>1. /\ page' = [page EXCEPT !.busy = None] /\ faults' \in 0..MaxFaults
        /\ UNCHANGED <<server, closing, peer, up, told, consented, crossed, lostIce>>
    BY <1>3, SessionBounds DEF LinkFails, Fault, TypeOK
  <2>2. page' \in PageRecord
    BY <1>1, <2>1 DEF PageRecord
  <2>3. PageHasLink' /\ AcceptedHere'
    BY <1>1, <2>1 DEF PageHasLink, AcceptedHere, PageRecord, Switched
  <2>4. QED
    BY <1>1, <2>1, <2>2, <2>3, PageStep DEF TypeOK, server, PageRecord
<1>4. CASE LinkCreated(l)
  <2>1. /\ page' = [page EXCEPT !.local = InitLocal(l), !.mailbox = l, !.busy = None,
                                !.sub = l, !.read = 0, !.ticking = TRUE,
                                !.accepted = FALSE, !.pending = FALSE]
        /\ box' = [box EXCEPT ![l] = "open"]
        /\ closing' = closing \cup ({page.mailbox} \ {None})
        /\ UNCHANGED <<expired, mail, peer, up, told, faults, consented, crossed, lostIce>>
    BY <1>4 DEF LinkCreated
  <2>2. page' \in PageRecord
    BY <1>1, <2>1 DEF PageRecord
  <2>3. closing' \subseteq Links /\ box' \in [Links -> {"none", "open", "joined", "gone"}]
    BY <1>1, <2>1 DEF PageRecord, TypeOK
  <2>4. PageHasLink' /\ AcceptedHere'
    BY <1>1, <2>1 DEF PageHasLink, AcceptedHere, PageRecord
  <2>5. QED
    BY ZenonT(60), <1>1, <2>1, <2>2, <2>3, <2>4, PageStep DEF TypeOK, PageRecord
<1>5. QED
  BY <1>2, <1>3, <1>4

LEMMA RequestInv ==
  ASSUME PairInv, Accept \/ Reject
  PROVE  PairInv'
<1> USE NoneAssumption DEF PairInv
<1>1. page \in PageRecord /\ page.prompts # <<>> /\ page.mailbox \in Links
  BY DEF TypeOK, Accept, Reject, PageHasLink
<1>2. /\ page.prompts \in Seq(Links) /\ Len(page.prompts) \in 1..Len(page.prompts)
      /\ page.prompts[Len(page.prompts)] \in Links /\ Dismissed \in Seq(Links)
  <2>1. page.prompts \in Seq(Links)
    BY <1>1 DEF PageRecord
  <2>2. Len(page.prompts) \in Nat /\ Len(page.prompts) # 0
    BY <1>1, <2>1, EmptySeq, LenProperties
  <2>3. Len(page.prompts) \in 1..Len(page.prompts)
    BY <2>2
  <2>4. page.prompts[Len(page.prompts)] \in Links
    BY <2>1, <2>3, ElementOfSeq
  <2>5. SubSeq(page.prompts, 1, Len(page.prompts) - 1) \in Seq(Links)
    BY <2>1, <2>2, SubSeqProperties
  <2>6. QED
    BY <2>1, <2>3, <2>4, <2>5 DEF Dismissed
<1>3. CASE Reject
  <2>1. /\ page' = [page EXCEPT !.prompts = Dismissed, !.pending = FALSE]
        /\ UNCHANGED <<server, closing, peer, up, told, faults, consented, crossed, lostIce>>
    BY <1>3 DEF Reject
  <2>2. page' \in PageRecord
    BY <1>1, <1>2, <2>1 DEF PageRecord
  <2>3. PageHasLink' /\ AcceptedHere'
    BY <1>1, <2>1 DEF PageHasLink, AcceptedHere, PageRecord, Switched
  <2>4. QED
    BY <1>1, <2>1, <2>2, <2>3, PageStep DEF TypeOK, server, PageRecord
<1>4. CASE Accept
  <2> DEFINE l == page.prompts[Len(page.prompts)]
  <2>1. /\ page' = [page EXCEPT !.prompts = Dismissed, !.pending = FALSE, !.accepted = TRUE,
                                !.offer = "creating", !.iceOut = TRUE]
        /\ page.offer = "none"
        /\ consented' = consented \cup {l}
        /\ crossed \subseteq crossed' /\ crossed' \subseteq crossed \cup {"switched", "switching"}
        /\ page.mailbox # l => "switched" \in crossed'
        /\ UNCHANGED <<server, closing, peer, up, told, faults, lostIce>>
    BY <1>4 DEF Accept
  <2>2. page' \in PageRecord
    BY <1>1, <1>2, <2>1 DEF PageRecord
  <2>3. PageHasLink'
    BY <1>1, <2>1 DEF PageHasLink, PageRecord
  <2>4. AcceptedHere'
    BY <1>1, <2>1 DEF AcceptedHere, PageRecord, Switched
  <2>5. /\ consented' \subseteq Links /\ consented \subseteq consented'
        /\ crossed' \subseteq {"switched", "switching"}
    BY <1>2, <2>1 DEF TypeOK
  <2>6. QED
    BY <1>1, <2>1, <2>2, <2>3, <2>4, <2>5, PageStep DEF TypeOK, server, PageRecord
<1>5. QED
  BY <1>3, <1>4

LEMMA EventInv ==
  ASSUME PairInv, NEW l \in Links, Event(l)
  PROVE  PairInv'
<1> USE NoneAssumption DEF PairInv
<1> DEFINE m == mail[l].i[page.read + 1]
<1>1. /\ page \in PageRecord /\ page.sub = l /\ page.mailbox = l /\ l # None
      /\ page.local = InitLocal(l) /\ page.prompts \in Seq(Links) /\ page.read \in Nat
  BY DEF Event, TypeOK, PageHasLink, PageRecord, Links
<1>2. m = mail[l]["i"][page.read + 1] /\ page.read + 1 \in 1..Len(mail[l]["i"])
  <2>1. mail[l].i = mail[l]["i"] /\ mail[l].i \in Seq(SignalRecord)
    BY DEF TypeOK
  <2>2. Len(mail[l].i) \in Nat /\ page.read < Len(mail[l].i)
    BY <2>1, LenProperties DEF Event
  <2>3. QED
    BY <1>1, <2>1, <2>2
<1>3. UNCHANGED <<server, closing, peer, up, told, faults, consented, crossed>>
  BY DEF Event
\* The page has read on and, perhaps, taken an answer while it was accepted.
<1>4. /\ page' \in PageRecord /\ lostIce' \subseteq Sides /\ PageHasLink' /\ AcceptedHere'
      /\ page'.offer = page.offer /\ page'.to = page.to
      /\ page.answer => page'.answer
      /\ page'.answer => page.answer \/ (page.accepted /\ m.type = "answer")
  <2>1. CASE Prompt(l)
    <3>1. Append(page.prompts, l) \in Seq(Links) /\ page.read + 1 \in Nat
      BY <1>1, AppendProperties
    <3>2. page' = [page EXCEPT !.read = @ + 1, !.pending = TRUE, !.prompts = Append(@, l)]
          /\ UNCHANGED lostIce
      BY <2>1 DEF Prompt
    <3>3. page' \in PageRecord
      BY <1>1, <3>1, <3>2 DEF PageRecord
    <3>4. PageHasLink' /\ AcceptedHere'
      BY <1>1, <1>3, <3>2 DEF PageRecord, PageHasLink, AcceptedHere, Switched
    <3>5. QED
      BY <1>1, <3>2, <3>3, <3>4 DEF PageRecord, TypeOK
  <2>2. CASE Drop
    <3>1. page' = [page EXCEPT !.read = @ + 1] /\ UNCHANGED lostIce
      BY <2>2 DEF Drop
    <3>2. page' \in PageRecord
      BY <1>1, <3>1 DEF PageRecord
    <3>3. PageHasLink' /\ AcceptedHere'
      BY <1>1, <1>3, <3>1 DEF PageRecord, PageHasLink, AcceptedHere, Switched
    <3>4. QED
      BY <1>1, <3>1, <3>2, <3>3 DEF PageRecord, TypeOK
  <2>3. CASE page.accepted /\ HandleSignal(m)
    <3>1. PICK fields \in {"read", "answer", "iceIn", "ended"} :
               /\ page' = CASE fields = "read" -> [page EXCEPT !.read = @ + 1]
                            [] fields = "answer" -> [page EXCEPT !.read = @ + 1, !.answer = TRUE]
                            [] fields = "iceIn" -> [page EXCEPT !.read = @ + 1, !.iceIn = TRUE]
                            [] fields = "ended" -> [page EXCEPT !.read = @ + 1, !.rtc = "ended"]
               /\ fields = "answer" => m.type = "answer"
      BY <2>3 DEF HandleSignal, TakeIce
    <3>2. lostIce' \subseteq Sides
      BY <2>3 DEF HandleSignal, TakeIce, TypeOK, Sides
    <3>3. page' \in PageRecord
      <4>1. page.read + 1 \in Nat
        BY <1>1
      <4>2. CASE fields = "read"
        BY <1>1, <3>1, <4>1, <4>2 DEF PageRecord
      <4>3. CASE fields = "answer"
        BY <1>1, <3>1, <4>1, <4>3 DEF PageRecord
      <4>4. CASE fields = "iceIn"
        BY <1>1, <3>1, <4>1, <4>4 DEF PageRecord
      <4>5. CASE fields = "ended"
        BY ZenonT(60), <1>1, <3>1, <4>1, <4>5 DEF PageRecord
      <4>6. QED
        BY <4>2, <4>3, <4>4, <4>5
    <3>4. QED
      BY <1>1, <1>3, <2>3, <3>1, <3>2, <3>3 DEF PageRecord, PageHasLink, AcceptedHere, Switched
  <2>4. QED
    BY <2>1, <2>2, <2>3 DEF Event
<1>5. page.accepted /\ m.type = "answer" => OfferTo(l) /\ (l \in consented \/ Switched)
  BY <1>1, <1>2 DEF MailOffers, AcceptedHere
<1>6. QED
  BY <1>3, <1>4, <1>5, PageStep DEF TypeOK, server

\* The page learns that it is connected, or that its session is over.
LEMMA PageRtcInv ==
  ASSUME PairInv, PageConnected \/ PageEnds
  PROVE  PairInv'
<1> USE NoneAssumption DEF PairInv
<1>1. page \in PageRecord /\ page.mailbox \in Links
  BY DEF TypeOK, PageConnected, PageEnds, PageOffers, PageHasLink
<1>2. CASE PageConnected
  <2>1. /\ page' = [page EXCEPT !.rtc = "connected", !.signalingClosed = TRUE,
                                !.iceOut = FALSE, !.sub = None]
        /\ closing' \subseteq Links
        /\ UNCHANGED <<server, peer, up, told, faults, consented, crossed, lostIce>>
    BY <1>1, <1>2 DEF PageConnected, TypeOK
  <2>2. page' \in PageRecord
    BY <1>1, <2>1 DEF PageRecord
  <2>3. PageHasLink' /\ AcceptedHere'
    BY <1>1, <2>1 DEF PageHasLink, AcceptedHere, PageRecord, Switched
  <2>4. QED
    BY <1>1, <2>1, <2>2, <2>3, PageStep DEF TypeOK, server, PageRecord
<1>3. CASE PageEnds
  <2>1. /\ page' = [page EXCEPT !.rtc = "ended"]
        /\ UNCHANGED <<server, closing, peer, up, told, faults, consented, crossed, lostIce>>
    BY <1>3 DEF PageEnds
  <2>2. page' \in PageRecord
    BY <1>1, <2>1 DEF PageRecord
  <2>3. PageHasLink' /\ AcceptedHere'
    BY <1>1, <2>1 DEF PageHasLink, AcceptedHere, PageRecord, Switched
  <2>4. QED
    BY <1>1, <2>1, <2>2, <2>3, PageStep DEF TypeOK, server, PageRecord
<1>4. QED
  BY <1>2, <1>3

-----------------------------------------------------------------------------
(* What the page sends.                                                    *)

LEMMA PageSendsInv ==
  ASSUME PairInv, SendOffer \/ SendIce \/ PageLeaves
  PROVE  PairInv'
<1> USE NoneAssumption DEF PairInv
<1>1. page \in PageRecord
  BY DEF TypeOK
<1>2. ASSUME page.mailbox \in Links
      PROVE  page.local.k_sig = KeyOf(page.mailbox)
  BY <1>2, SealType DEF PageHasLink
\* Everything that is sent is sealed with the key of the mailbox it goes to.
<1>3. ASSUME NEW l \in Links, page.mailbox = l, NEW type \in {"offer", "ice", "disconnect"},
             Send(l, "r", Seal(page.local.k_sig, type)),
             type = "offer" /\ CanSend(l) => OfferTo(l)',
             \A k \in Links : OfferTo(k) => OfferTo(k)', UNCHANGED peer
      PROVE  /\ mail' \in [Links -> [i: Seq(SignalRecord), r: Seq(SignalRecord)]]
             /\ SealedForItsLink' /\ MailOffers' /\ FetchedThere'
  <2>1. page.local.k_sig = KeyOf(l)
    BY <1>2, <1>3
  <2> DEFINE m == Seal(KeyOf(l), type)
  <2>2. m \in SignalRecord /\ m.type = type /\ Opens(KeyOf(l), m)
    BY <1>3, SealType DEF Opens
  <2>3. CASE CanSend(l)
    <3>1. Adds(l, "r", m)
      BY <1>3, <2>1, <2>2, SendAdds DEF Sides
    <3>2. m.type \in {"offer", "answer"} => OfferTo(l)'
      BY <1>3, <2>2, <2>3
    <3> HIDE DEF m
    <3>3. SealedForItsLink' /\ MailOffers' /\ FetchedThere'
      BY <1>3, <2>2, <3>1, <3>2, AddsKeepsMail DEF Sides, FetchedThere, TypeOK
    <3>4. QED
      BY <3>1, <3>3 DEF Adds
  <2>4. CASE ~CanSend(l)
    BY <1>3, <2>4, SameMail DEF Send, TypeOK, FetchedThere
  <2>5. QED
    BY <2>3, <2>4
<1>4. CASE SendOffer
  <2>1. /\ page.offer = "creating" /\ page.mailbox \in Links
        /\ page' = [page EXCEPT !.offer = "sent",
                                !.to = IF CanSend(page.mailbox) THEN page.mailbox ELSE None]
        /\ Send(page.mailbox, "r", Seal(page.local.k_sig, "offer"))
        /\ UNCHANGED <<box, expired, closing, peer, up, told, faults, consented, crossed, lostIce>>
    BY <1>4 DEF SendOffer, PageHasLink
  <2>2. page' \in PageRecord
    BY <1>1, <2>1 DEF PageRecord
  <2>3. \A k \in Links : ~OfferTo(k)
    BY <2>1 DEF OfferTo
  <2>4. \A l \in Links : page.mailbox = l /\ CanSend(l) => OfferTo(l)'
    BY <1>1, <2>1 DEF OfferTo, PageRecord
  <2>5. mail' \in [Links -> [i: Seq(SignalRecord), r: Seq(SignalRecord)]]
        /\ SealedForItsLink' /\ MailOffers' /\ FetchedThere'
    BY <1>3, <2>1, <2>3, <2>4
  <2>6. TypeOK'
    BY <2>1, <2>2, <2>5 DEF TypeOK
  <2>7. PageHasLink' /\ AcceptedHere'
    BY <1>1, <2>1 DEF PageHasLink, AcceptedHere, PageRecord, Switched
  <2>8. PeerHasKey' /\ PeerOffers'
    BY <2>1, <2>3 DEF PeerHasKey, PeerOffers
  <2>9. PageOffers'
    BY <1>1, <2>1 DEF PageOffers, PageRecord
  <2>10. QED
    BY <2>5, <2>6, <2>7, <2>8, <2>9
<1>5. CASE SendIce
  <2>1. /\ page.mailbox \in Links /\ page' = [page EXCEPT !.iceOut = FALSE]
        /\ Send(page.mailbox, "r", Seal(page.local.k_sig, "ice"))
        /\ UNCHANGED <<box, expired, closing, peer, up, told, faults, consented, crossed, lostIce>>
    BY <1>5 DEF SendIce, PageHasLink
  <2>2. page' \in PageRecord /\ page'.offer = page.offer /\ page'.to = page.to
    BY <1>1, <2>1 DEF PageRecord
  <2>3. \A k \in Links : OfferTo(k) => OfferTo(k)'
    BY <2>2 DEF OfferTo
  <2>4. mail' \in [Links -> [i: Seq(SignalRecord), r: Seq(SignalRecord)]]
        /\ SealedForItsLink' /\ MailOffers' /\ FetchedThere'
    BY <1>3, <2>1, <2>3
  <2>5. TypeOK'
    BY <2>1, <2>2, <2>4 DEF TypeOK
  <2>6. PageHasLink' /\ AcceptedHere' /\ PageOffers'
    BY <1>1, <2>1 DEF PageHasLink, AcceptedHere, PageOffers, PageRecord, Switched
  <2>7. PeerHasKey' /\ PeerOffers'
    BY <2>1, <2>3 DEF PeerHasKey, PeerOffers
  <2>8. QED
    BY <2>4, <2>5, <2>6, <2>7
<1>6. CASE PageLeaves
  <2>1. /\ page' = [page EXCEPT !.left = TRUE] /\ faults' \in 0..MaxFaults /\ told' \subseteq Sides
        /\ \/ UNCHANGED mail
           \/ page.mailbox \in Links /\ Send(page.mailbox, "r", Seal(page.local.k_sig, "disconnect"))
        /\ UNCHANGED <<box, expired, closing, peer, up, consented, crossed, lostIce>>
    BY <1>6, SessionBounds DEF PageLeaves, Fault, TypeOK, PageHasLink, Sides
  <2>2. page' \in PageRecord /\ page'.offer = page.offer /\ page'.to = page.to
    BY <1>1, <2>1 DEF PageRecord
  <2>3. \A k \in Links : OfferTo(k) => OfferTo(k)'
    BY <2>2 DEF OfferTo
  <2>4. mail' \in [Links -> [i: Seq(SignalRecord), r: Seq(SignalRecord)]]
        /\ SealedForItsLink' /\ MailOffers' /\ FetchedThere'
    <3>1. CASE UNCHANGED mail
      BY <2>1, <2>3, <3>1, SameMail DEF TypeOK, FetchedThere
    <3>2. CASE page.mailbox \in Links /\ Send(page.mailbox, "r", Seal(page.local.k_sig, "disconnect"))
      BY <1>3, <2>1, <2>3, <3>2
    <3>3. QED
      BY <2>1, <3>1, <3>2
  <2>5. TypeOK'
    BY <2>1, <2>2, <2>4 DEF TypeOK
  <2>6. PageHasLink' /\ AcceptedHere' /\ PageOffers'
    BY <1>1, <2>1 DEF PageHasLink, AcceptedHere, PageOffers, PageRecord, Switched
  <2>7. PeerHasKey' /\ PeerOffers'
    BY <2>1, <2>3 DEF PeerHasKey, PeerOffers
  <2>8. QED
    BY <2>4, <2>5, <2>6, <2>7
<1>7. QED
  BY <1>4, <1>5, <1>6

-----------------------------------------------------------------------------
(* The responder's page.                                                   *)

\* A step of the responder at l that sends nothing but what its key seals: the
\* page is left alone, and an answer needs an offer.
LEMMA PeerStep ==
  ASSUME PairInv, NEW l \in Links, UNCHANGED <<expired, page, up, consented, crossed>>,
         box' \in [Links -> {"none", "open", "joined", "gone"}],
         told' \subseteq Sides, lostIce' \subseteq Sides, faults' \in 0..MaxFaults,
         closing' \subseteq Links, NEW now \in PeerRecord, peer' = [peer EXCEPT ![l] = now],
         now.at # "out" => now.key = KeyOf(l),
         now.offer \/ now.owes \/ now.iceOut => now.at # "out",
         now.offer \/ now.owes => OfferTo(l),
         now.fetched <= Len(mail[l]["r"]),
         \/ UNCHANGED mail
         \/ \E m \in SignalRecord :
              /\ Adds(l, "i", m) /\ (m = JoinMessage \/ Opens(KeyOf(l), m))
              /\ m.type \in {"offer", "answer"} => OfferTo(l)
  PROVE  PairInv'
<1> USE DEF PairInv
<1>1. \A k \in Links : OfferTo(k)' = OfferTo(k)
  BY DEF OfferTo
<1>2. /\ peer' \in [Links -> PeerRecord] /\ peer'[l] = now
      /\ \A k \in Links : k # l => peer'[k] = peer[k]
  BY DEF TypeOK
<1>3. mail' \in [Links -> [i: Seq(SignalRecord), r: Seq(SignalRecord)]]
      /\ SealedForItsLink' /\ MailOffers' /\ FetchedThere'
  <2>0. \A k \in Links : peer'[k].fetched <= Len(mail[k]["r"])
    BY <1>2 DEF FetchedThere
  <2>1. CASE UNCHANGED mail
    BY <1>1, <2>0, <2>1, SameMail DEF TypeOK
  <2>2. ASSUME NEW m \in SignalRecord, Adds(l, "i", m), m = JoinMessage \/ Opens(KeyOf(l), m),
               m.type \in {"offer", "answer"} => OfferTo(l)
        PROVE  mail' \in [Links -> [i: Seq(SignalRecord), r: Seq(SignalRecord)]]
               /\ SealedForItsLink' /\ MailOffers' /\ FetchedThere'
    <3>1. SealedForItsLink' /\ MailOffers' /\ FetchedThere'
      BY <1>1, <1>2, <2>0, <2>2, AddsKeepsMail DEF Sides
    <3>2. QED
      BY <2>2, <3>1 DEF Adds
  <2>3. QED
    BY <2>1, <2>2
<1>4. TypeOK'
  BY <1>2, <1>3 DEF TypeOK
<1>5. PeerHasKey' /\ PeerOffers'
  BY <1>1, <1>2 DEF PeerHasKey, PeerOffers
<1>6. PageHasLink' /\ AcceptedHere' /\ PageOffers'
  BY DEF PageHasLink, AcceptedHere, PageOffers, Switched
<1>7. QED
  BY <1>3, <1>4, <1>5, <1>6

\* The responder joins, says hello, fetches and subscribes.
LEMMA PeerStartsInv ==
  ASSUME PairInv, NEW l \in Links,
         Join(l) \/ Hello(l) \/ HelloFails(l) \/ Fetch(l) \/ Subscribe(l)
  PROVE  PairInv'
<1> USE DEF PairInv
<1>1. /\ peer \in [Links -> PeerRecord] /\ peer[l] \in PeerRecord
      /\ mail \in [Links -> [i: Seq(SignalRecord), r: Seq(SignalRecord)]]
      /\ Len(mail[l].r) \in Nat
  BY LenProperties DEF TypeOK
<1>2. CASE Join(l)
  <2> DEFINE now == [peer[l] EXCEPT !.at = "joined", !.key = KeyOf(l)]
  <2>1. /\ peer[l].at = "out" /\ box' = [box EXCEPT ![l] = "joined"]
        /\ mail' = [mail EXCEPT ![l]["i"] = Append(@, JoinMessage)]
        /\ peer' = [peer EXCEPT ![l] = now]
        /\ UNCHANGED <<expired, closing, page, up, told, faults, consented, crossed, lostIce>>
    BY ZenonT(60), <1>1, <1>2, SealType DEF Join, PeerAt
  <2>2. now \in PeerRecord
    BY <1>1 DEF PeerRecord
  <2>3. Adds(l, "i", JoinMessage)
    BY <1>1, <2>1, AppendAdds, SealType DEF Sides
  <2>4. /\ now.at = "joined" /\ now.key = KeyOf(l)
        /\ ~now.offer /\ ~now.owes /\ now.fetched <= Len(mail[l]["r"])
    BY <1>1, <2>1 DEF PeerRecord, PeerHasKey, FetchedThere
  <2>5. box' \in [Links -> {"none", "open", "joined", "gone"}]
    BY <2>1 DEF TypeOK
  <2> HIDE DEF now
  <2>6. QED
    BY <2>1, <2>2, <2>3, <2>4, <2>5, SealType, PeerStep DEF TypeOK
<1>3. CASE Hello(l)
  <2> DEFINE now == [peer[l] EXCEPT !.at = IF CanSend(l) THEN "waiting" ELSE "failed"]
  <2>1. /\ peer[l].at = "joined" /\ Send(l, "i", Seal(peer[l].key, "connect_request"))
        /\ peer' = [peer EXCEPT ![l] = now]
        /\ UNCHANGED <<box, expired, closing, page, up, told, faults, consented, crossed, lostIce>>
    BY <1>1, <1>3 DEF Hello, PeerAt
  <2>2. now \in PeerRecord
    BY <1>1 DEF PeerRecord
  <2>3. peer[l].key = KeyOf(l)
    BY <2>1 DEF PeerHasKey
  <2>4. /\ Seal(KeyOf(l), "connect_request") \in SignalRecord
        /\ Seal(KeyOf(l), "connect_request").type = "connect_request"
        /\ Opens(KeyOf(l), Seal(KeyOf(l), "connect_request"))
    BY SealType DEF Opens
  <2>5. Adds(l, "i", Seal(KeyOf(l), "connect_request"))
    BY <2>1, <2>3, <2>4, SendAdds DEF Sides
  <2>6. /\ now.at # "out" /\ now.key = KeyOf(l)
        /\ (now.offer \/ now.owes) => OfferTo(l)
        /\ now.fetched <= Len(mail[l]["r"])
    BY <1>1, <2>1, <2>3 DEF PeerRecord, PeerOffers, FetchedThere
  <2> HIDE DEF now
  <2>7. QED
    BY <2>1, <2>2, <2>4, <2>5, <2>6, PeerStep DEF TypeOK
<1>4. CASE HelloFails(l) \/ Fetch(l) \/ Subscribe(l)
  <2>1. PICK now \in PeerRecord :
             /\ peer' = [peer EXCEPT ![l] = now]
             /\ now.at # "out" /\ now.key = peer[l].key
             /\ now.offer = peer[l].offer /\ now.owes = peer[l].owes
             /\ now.fetched \in {peer[l].fetched, 0, Len(mail[l]["r"])}
    <3>1. CASE HelloFails(l)
      <4> DEFINE now == [peer[l] EXCEPT !.at = "failed"]
      <4>1. now \in PeerRecord /\ peer' = [peer EXCEPT ![l] = now]
        BY <1>1, <3>1 DEF HelloFails, PeerRecord
      <4>2. QED
        BY <1>1, <4>1 DEF PeerRecord
    <3>2. CASE Fetch(l)
      <4> DEFINE now == [peer[l] EXCEPT !.at = "fetched",
                                        !.fetched = IF box[l] = "joined" THEN Len(mail[l].r) ELSE 0]
      <4>1. now \in PeerRecord /\ peer' = [peer EXCEPT ![l] = now]
        BY <1>1, <3>2 DEF Fetch, PeerRecord
      <4>2. QED
        BY <1>1, <4>1 DEF PeerRecord
    <3>3. CASE Subscribe(l)
      <4> DEFINE now == [peer[l] EXCEPT !.at = "subscribed",
                                        !.read = IF box[l] = "joined" THEN 0 ELSE Len(mail[l].r)]
      <4>1. now \in PeerRecord /\ peer' = [peer EXCEPT ![l] = now]
        BY <1>1, <3>3 DEF Subscribe, PeerRecord
      <4>2. QED
        BY <1>1, <4>1 DEF PeerRecord
    <3>4. QED
      BY <1>4, <3>1, <3>2, <3>3
  <2>2. /\ peer[l].at # "out" /\ faults' \in 0..MaxFaults
        /\ UNCHANGED <<server, closing, page, up, told, consented, crossed, lostIce>>
    BY <1>4, SessionBounds DEF HelloFails, Fetch, Subscribe, PeerAt, Fault, TypeOK
  <2>3. now.key = KeyOf(l) /\ ((now.offer \/ now.owes) => OfferTo(l))
    BY <2>1, <2>2 DEF PeerHasKey, PeerOffers
  <2>4. now.fetched <= Len(mail[l]["r"])
    <3>1. Len(mail[l]["r"]) \in Nat
      BY <1>1
    <3>2. QED
      BY <2>1, <3>1 DEF FetchedThere
  <2>5. QED
    BY <2>1, <2>2, <2>3, <2>4, PeerStep DEF TypeOK, server
<1>5. QED
  BY <1>2, <1>3, <1>4

\* The responder reads a signal.
LEMMA SignalInv ==
  ASSUME PairInv, NEW l \in Links, Signal(l)
  PROVE  PairInv'
<1> USE DEF PairInv
<1> DEFINE m == mail[l].r[peer[l].read + 1]
<1>1. /\ peer \in [Links -> PeerRecord] /\ peer[l] \in PeerRecord /\ peer[l].read + 1 \in Nat
      /\ peer[l].at # "out" /\ peer[l].key = KeyOf(l)
      /\ UNCHANGED <<server, closing, page, up, told, faults, consented, crossed>>
  <2>1. peer \in [Links -> PeerRecord] /\ peer[l] \in PeerRecord
    BY DEF TypeOK
  <2>2. peer[l].read + 1 \in Nat
    BY <2>1 DEF PeerRecord
  <2>3. peer[l].at # "out"
    BY DEF Signal, Unread, PeerAt
  <2>4. peer[l].key = KeyOf(l)
    BY <2>3 DEF PeerHasKey
  <2>5. UNCHANGED <<server, closing, page, up, told, faults, consented, crossed>>
    BY DEF Signal
  <2>6. QED
    BY <2>1, <2>2, <2>3, <2>4, <2>5
<1>2. m.type = "offer" => OfferTo(l)
  <2>1. mail[l].r = mail[l]["r"] /\ Len(mail[l].r) \in Nat
    BY LenProperties DEF TypeOK
  <2>2. peer[l].fetched <= Len(mail[l].r) /\ peer[l].fetched \in Nat
    BY <1>1, <2>1 DEF FetchedThere, PeerRecord
  <2>3. peer[l].read + 1 \in 1..Len(mail[l]["r"])
    <3>1. CASE PeerAt(l, "subscribed") /\ peer[l].read < Len(mail[l].r)
      BY <1>1, <2>1, <3>1 DEF PeerRecord
    <3>2. CASE PeerAt(l, "fetched") /\ peer[l].read < peer[l].fetched
      BY <1>1, <2>1, <2>2, <3>2 DEF PeerRecord
    <3>3. QED
      BY <3>1, <3>2 DEF Signal, Unread
  <2>4. QED
    BY <2>1, <2>3 DEF MailOffers
<1>3. PICK now \in PeerRecord :
           /\ peer' = [peer EXCEPT ![l] = now]
           /\ now.at = peer[l].at /\ now.key = peer[l].key /\ now.fetched = peer[l].fetched
           /\ now.offer \/ now.owes => peer[l].offer \/ peer[l].owes \/ m.type = "offer"
  <2> DEFINE pass == [peer[l] EXCEPT !.read = @ + 1]
  <2>1. pass \in PeerRecord
    BY <1>1 DEF PeerRecord
  <2> DEFINE answering == [pass EXCEPT !.offer = TRUE, !.owes = TRUE,
                                       !.iceOut = @ \/ ~peer[l].offer]
  <2>2. answering \in PeerRecord /\ [pass EXCEPT !.iceIn = TRUE] \in PeerRecord
        /\ [pass EXCEPT !.rtc = "ended"] \in PeerRecord
    BY <1>1, <2>1 DEF PeerRecord
  <2>3. \/ peer' = [peer EXCEPT ![l] = pass]
        \/ peer' = [peer EXCEPT ![l] = answering] /\ m.type = "offer"
        \/ peer' = [peer EXCEPT ![l] = [pass EXCEPT !.iceIn = TRUE]]
        \/ peer' = [peer EXCEPT ![l] = [pass EXCEPT !.rtc = "ended"]]
    BY <1>1 DEF Signal, PeerRecord
  <2>4. /\ pass.at = peer[l].at /\ pass.key = peer[l].key /\ pass.fetched = peer[l].fetched
        /\ pass.offer = peer[l].offer /\ pass.owes = peer[l].owes
    BY <1>1 DEF PeerRecord
  <2>5. /\ answering.at = peer[l].at /\ answering.key = peer[l].key
        /\ answering.fetched = peer[l].fetched
    BY <1>1 DEF PeerRecord
  <2>6. \A now \in {[pass EXCEPT !.iceIn = TRUE], [pass EXCEPT !.rtc = "ended"]} :
          /\ now.at = peer[l].at /\ now.key = peer[l].key /\ now.fetched = peer[l].fetched
          /\ now.offer = peer[l].offer /\ now.owes = peer[l].owes
    BY <1>1 DEF PeerRecord
  <2> HIDE DEF pass, answering
  <2>7. QED
    BY <2>1, <2>2, <2>3, <2>4, <2>5, <2>6
<1>4. lostIce' \subseteq Sides
  BY DEF Signal, TypeOK, Sides
<1>5. now.key = KeyOf(l) /\ (now.offer \/ now.owes => OfferTo(l)) /\ now.fetched <= Len(mail[l]["r"])
  BY <1>1, <1>2, <1>3 DEF PeerOffers, FetchedThere
<1>6. QED
  BY <1>1, <1>3, <1>4, <1>5, PeerStep DEF TypeOK, server

\* What the responder sends later, and how its session begins and ends.
LEMMA PeerSendsInv ==
  ASSUME PairInv, NEW l \in Links,
         SendAnswer(l) \/ SendPeerIce(l) \/ PeerConnected(l) \/ PeerLeaves(l) \/ PeerEnds(l)
  PROVE  PairInv'
<1> USE DEF PairInv
<1>1. /\ peer \in [Links -> PeerRecord] /\ peer[l] \in PeerRecord
      /\ peer[l].fetched <= Len(mail[l]["r"])
  BY DEF TypeOK, FetchedThere
<1>2. /\ (peer[l].at # "out") => peer[l].key = KeyOf(l)
      /\ (peer[l].offer \/ peer[l].owes \/ peer[l].iceOut) => peer[l].at # "out"
      /\ (peer[l].offer \/ peer[l].owes) => OfferTo(l)
  BY DEF PeerHasKey, PeerOffers
\* What it sends is sealed with its key, and an answer follows an offer.
<1>3. ASSUME NEW type \in {"answer", "ice", "disconnect"}, peer[l].at # "out",
             Send(l, "i", Seal(peer[l].key, type)), type = "answer" => OfferTo(l)
      PROVE  \E m \in SignalRecord :
               /\ Adds(l, "i", m) /\ (m = JoinMessage \/ Opens(KeyOf(l), m))
               /\ m.type \in {"offer", "answer"} => OfferTo(l)
  <2> DEFINE m == Seal(KeyOf(l), type)
  <2>1. m \in SignalRecord /\ m.type = type /\ Opens(KeyOf(l), m)
    BY <1>3, SealType DEF Opens
  <2>2. Adds(l, "i", m)
    BY <1>2, <1>3, <2>1, SendAdds DEF Sides
  <2>3. QED
    BY <1>3, <2>1, <2>2
\* The fields that the invariant is about stay or are reset.
<1>4. \E now \in PeerRecord :
           /\ peer' = [peer EXCEPT ![l] = now]
           /\ now.at = peer[l].at /\ now.key = peer[l].key /\ now.fetched = peer[l].fetched
           /\ now.offer = peer[l].offer /\ (now.owes => peer[l].owes)
           /\ (now.iceOut => peer[l].iceOut)
  <2>1. CASE SendAnswer(l)
    <3> DEFINE now == [peer[l] EXCEPT !.owes = FALSE]
    <3>1. now \in PeerRecord /\ peer' = [peer EXCEPT ![l] = now]
      BY <1>1, <2>1 DEF SendAnswer, PeerRecord
    <3>2. QED
      BY <1>1, <3>1 DEF PeerRecord
  <2>2. CASE SendPeerIce(l)
    <3> DEFINE now == [peer[l] EXCEPT !.iceOut = FALSE]
    <3>1. now \in PeerRecord /\ peer' = [peer EXCEPT ![l] = now]
      BY <1>1, <2>2 DEF SendPeerIce, PeerRecord
    <3>2. QED
      BY <1>1, <3>1 DEF PeerRecord
  <2>3. CASE PeerConnected(l)
    <3> DEFINE now == [peer[l] EXCEPT !.rtc = "connected", !.signalingClosed = TRUE, !.iceOut = FALSE]
    <3>1. now \in PeerRecord /\ peer' = [peer EXCEPT ![l] = now]
      BY <1>1, <2>3 DEF PeerConnected, PeerRecord
    <3>2. QED
      BY <1>1, <3>1 DEF PeerRecord
  <2>4. CASE PeerLeaves(l)
    <3> DEFINE now == [peer[l] EXCEPT !.left = TRUE]
    <3>1. now \in PeerRecord /\ peer' = [peer EXCEPT ![l] = now]
      BY <1>1, <2>4 DEF PeerLeaves, PeerRecord
    <3>2. QED
      BY <1>1, <3>1 DEF PeerRecord
  <2>5. CASE PeerEnds(l)
    <3> DEFINE now == [peer[l] EXCEPT !.rtc = "ended"]
    <3>1. now \in PeerRecord /\ peer' = [peer EXCEPT ![l] = now]
      BY <1>1, <2>5 DEF PeerEnds, PeerRecord
    <3>2. QED
      BY ZenonT(60), <1>1, <3>1 DEF PeerRecord
  <2>6. QED
    BY <2>1, <2>2, <2>3, <2>4, <2>5
<1>5. \/ UNCHANGED mail
      \/ \E m \in SignalRecord :
           /\ Adds(l, "i", m) /\ (m = JoinMessage \/ Opens(KeyOf(l), m))
           /\ m.type \in {"offer", "answer"} => OfferTo(l)
  <2>1. CASE SendAnswer(l)
    BY <1>2, <1>3, <2>1 DEF SendAnswer
  <2>2. CASE SendPeerIce(l)
    BY <1>2, <1>3, <2>2 DEF SendPeerIce
  <2>3. CASE PeerLeaves(l)
    BY <1>3, <2>3 DEF PeerLeaves
  <2>4. CASE PeerConnected(l) \/ PeerEnds(l)
    BY <2>4 DEF PeerConnected, PeerEnds, server
  <2>5. QED
    BY <2>1, <2>2, <2>3, <2>4
<1>6. /\ UNCHANGED <<box, expired, page, up, consented, crossed, lostIce>>
      /\ closing' \subseteq Links /\ told' \subseteq Sides /\ faults' \in 0..MaxFaults
  BY SessionBounds DEF SendAnswer, SendPeerIce, PeerConnected, PeerLeaves, PeerEnds, server, Fault,
     TypeOK, Sides
<1>7. box' \in [Links -> {"none", "open", "joined", "gone"}] /\ lostIce' \subseteq Sides
  BY <1>6 DEF TypeOK
<1>8. PICK now \in PeerRecord :
           /\ peer' = [peer EXCEPT ![l] = now]
           /\ now.at = peer[l].at /\ now.key = peer[l].key /\ now.fetched = peer[l].fetched
           /\ now.offer = peer[l].offer /\ (now.owes => peer[l].owes)
           /\ (now.iceOut => peer[l].iceOut)
  BY <1>4
<1>9. /\ now.at # "out" => now.key = KeyOf(l)
      /\ (now.offer \/ now.owes \/ now.iceOut) => now.at # "out"
      /\ (now.offer \/ now.owes) => OfferTo(l)
      /\ now.fetched <= Len(mail[l]["r"])
  BY <1>1, <1>2, <1>8
<1>10. QED
  BY <1>5, <1>6, <1>7, <1>8, <1>9, PeerStep

-----------------------------------------------------------------------------
(* The server, the connection and the network.                             *)

LEMMA WorldInv ==
  ASSUME PairInv, NEW l \in Links, Expire(l) \/ Close(l) \/ Connect(l)
  PROVE  PairInv'
<1> USE DEF PairInv
<1>1. CASE Expire(l) \/ Close(l)
  <2>1. /\ UNCHANGED <<mail, page, peer, up, told, consented, crossed, lostIce>>
        /\ expired' \subseteq Links /\ closing' \subseteq Links /\ faults' \in 0..MaxFaults
        /\ box' \in [Links -> {"none", "open", "joined", "gone"}]
    <3>1. CASE Expire(l)
      BY <3>1, SessionBounds DEF Expire, Fault, TypeOK
    <3>2. CASE Close(l)
      BY <3>2 DEF Close, TypeOK
    <3>3. QED
      BY <1>1, <3>1, <3>2
  <2>2. TypeOK'
    BY <2>1 DEF TypeOK
  <2>3. QED
    BY <2>1, <2>2 DEF PageHasLink, PeerHasKey, SealedForItsLink, MailOffers, OfferTo, PeerOffers,
       FetchedThere, PageOffers, AcceptedHere, Switched
<1>2. CASE Connect(l)
  <2>1. /\ up' = l /\ page.answer /\ page.to = l
        /\ UNCHANGED <<server, closing, page, peer, told, faults, consented, crossed, lostIce>>
    BY <1>2 DEF Connect
  <2>2. TypeOK'
    BY <2>1 DEF TypeOK, server
  <2>3. QED
    BY <2>1, <2>2 DEF PageHasLink, PeerHasKey, SealedForItsLink, MailOffers, OfferTo, PeerOffers,
       FetchedThere, PageOffers, AcceptedHere, Switched, server
<1>3. QED
  BY <1>1, <1>2

LEMMA SilenceInv == ASSUME PairInv, Silence PROVE PairInv'
<1> USE NoneAssumption DEF PairInv
<1>1. /\ up \in Links /\ page \in PageRecord /\ peer \in [Links -> PeerRecord]
      /\ faults' \in 0..MaxFaults
      /\ UNCHANGED <<server, closing, up, told, consented, crossed, lostIce>>
  BY SessionBounds DEF Silence, TypeOK, Fault
<1>2. CASE page' = [page EXCEPT !.rtc = "ended"] /\ UNCHANGED peer
  <2>1. page' \in PageRecord
    BY <1>1, <1>2 DEF PageRecord
  <2>2. PageHasLink' /\ AcceptedHere'
    BY <1>1, <1>2 DEF PageHasLink, AcceptedHere, PageRecord, Switched
  <2>3. QED
    BY <1>1, <1>2, <2>1, <2>2, PageStep DEF TypeOK, server, PageRecord
<1>3. CASE peer' = [peer EXCEPT ![up].rtc = "ended"] /\ UNCHANGED page
  <2>1. PICK l \in Links : l = up
    BY <1>1
  <2> DEFINE now == [peer[l] EXCEPT !.rtc = "ended"]
  <2>2. now \in PeerRecord /\ peer' = [peer EXCEPT ![l] = now]
    BY <1>1, <1>3, <2>1 DEF PeerRecord
  <2>3. /\ now.at = peer[l].at /\ now.key = peer[l].key /\ now.fetched = peer[l].fetched
        /\ now.offer = peer[l].offer /\ now.owes = peer[l].owes /\ now.iceOut = peer[l].iceOut
    BY <1>1 DEF PeerRecord
  <2> HIDE DEF now
  <2>4. /\ now.at # "out" => now.key = KeyOf(l)
        /\ (now.offer \/ now.owes \/ now.iceOut) => now.at # "out"
        /\ (now.offer \/ now.owes) => OfferTo(l)
        /\ now.fetched <= Len(mail[l]["r"])
    BY <2>3 DEF PeerHasKey, PeerOffers, FetchedThere
  <2>5. QED
    BY <1>1, <1>3, <2>2, <2>4, PeerStep DEF TypeOK, server
<1>4. QED
  BY <1>2, <1>3 DEF Silence

-----------------------------------------------------------------------------
(* The theorems.                                                           *)

LEMMA PairStep == PairInv /\ [Next]_vars => PairInv'
<1> SUFFICES ASSUME PairInv, [Next]_vars PROVE PairInv'
  OBVIOUS
<1>1. CASE UNCHANGED vars
  <2>1. UNCHANGED <<server, closing, page, peer, up, told, faults, consented, crossed, lostIce>>
    BY <1>1 DEF vars, server
  <2>2. TypeOK'
    BY <2>1 DEF PairInv, TypeOK, server
  <2>3. QED
    BY <2>1, <2>2 DEF PairInv, PageHasLink, PeerHasKey, SealedForItsLink, MailOffers, OfferTo,
       PeerOffers, FetchedThere, PageOffers, AcceptedHere, Switched, server
<1>2. CASE Progress
  BY <1>2, WorldInv, LinkInv, EventInv, PeerStartsInv, SignalInv, PeerSendsInv, PageSendsInv,
     PageRtcInv DEF Progress
<1>3. CASE Environment
  BY <1>3, WorldInv, LinkInv, PeerStartsInv, PeerSendsInv, RequestInv, PageSendsInv, SilenceInv
     DEF Environment
<1>4. QED
  BY <1>1, <1>2, <1>3 DEF Next

\* The invariant holds in every state.
LEMMA PairInvariant == Spec => []PairInv
BY PairInit, PairStep, PTL DEF Spec

\* Pages, mailboxes and the connection keep their types.
THEOREM PairTypes == Spec => []TypeOK
BY PairInvariant, PTL DEF PairInv

\* No side is given a signal that it cannot open, whatever links the page makes.
THEOREM EverythingIsSealed == Spec => []SealedForItsLink
BY PairInvariant, PTL DEF PairInv

\* Nobody is connected whose request the user did not accept, unless a prompt
\* outlived its link.
THEOREM ConnectedOnlyWithConsent == Spec => []ConnectedWithConsent
<1>1. PairInv => ConnectedWithConsent
  BY DEF PairInv, PageOffers, ConnectedWithConsent, Switched
<1>2. QED
  BY <1>1, PairInvariant, PTL
=============================================================================
