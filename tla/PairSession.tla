----------------------------- MODULE PairSession -----------------------------
(***************************************************************************)
(* How two pages become a pair: the initiator's page makes a link (and a   *)
(* new one when it expires), asks its user about whoever joins it, and     *)
(* then offers a WebRTC connection; the responder's page joins by a link   *)
(* and answers.  Offer, answer and ICE candidates are sealed with a key    *)
(* derived from the link's secret and go through the link's two mailboxes  *)
(* until the connection is up.  After that the control channel carries     *)
(* session_closed and the heartbeat (session_control_protocol.dart).       *)
(* initiator_page.dart, responder_page.dart, api/connection.rs and         *)
(* connection.rs.                                                          *)
(*                                                                         *)
(* A request to the server is one step here, and a subscription gives      *)
(* every message once and in order: what can happen inside is in           *)
(* Rendezvous and in MailboxDelivery.  A link is joined at most once, so a *)
(* responder's page is named by its link.  Each manager of a peer          *)
(* connection gathers one ICE candidate.  Screen sharing and its           *)
(* renegotiation are left out.                                             *)
(***************************************************************************)
EXTENDS Naturals, Sequences

CONSTANTS
    MaxLinks,    \* bound: links the page makes, numbered in order
    None,        \* Dart's null
    MaxFaults    \* bound: links that expire, pages left, requests that fail,
                 \*   silences of the network

ASSUME SessionBounds == MaxLinks \in Nat \ {0} /\ MaxFaults \in Nat
ASSUME NoneAssumption == None \notin 1..MaxLinks

VARIABLES
    box,        \* the server: the link's two mailboxes
    expired,    \* links whose expires_at_epoch_ms has passed
    mail,       \* the messages of the initiator's ("i") and the responder's
                \*   ("r") mailbox of each link
    closing,    \* links whose closeConnection request is under way
    page,       \* InitiatorPage
    peer,       \* ResponderPage, by the link it joins
    up,         \* WebRTC: the pair that is connected
    told,       \* sides that a session_closed message is on its way to
    faults,
    consented,  \* history: links whose request the user accepted
    crossed,    \* history: a prompt was accepted whose link was no longer the
                \*   page's ("switched"), or was just being replaced ("switching")
    lostIce     \* history: sides whose candidate came before the description

server == <<box, expired, mail>>
vars == <<box, expired, mail, closing, page, peer, up, told, faults, consented, crossed, lostIce>>

Links == 1..MaxLinks    \* rendezvous ids and secrets, as they are drawn
Sides == {"i", "r"}

-----------------------------------------------------------------------------
(* Secrets, keys and sealed messages.                                      *)

\* derive_keys: different secrets give different keys.
KeyOf(secret) == <<"sig", secret>>

\* connection_init_local: id and secret are drawn together.
InitLocal(l) == [rendezvous_id |-> l, secret |-> l, k_sig |-> KeyOf(l)]

\* Mutant: the other derived key, k_mac.
DeriveMacKey(secret) == [rendezvous_id |-> None, secret |-> secret, k_sig |-> <<"mac", secret>>]

\* connection_derive_keys, at the responder.
DeriveKeys(secret) == [rendezvous_id |-> None, secret |-> secret, k_sig |-> KeyOf(secret)]

\* generate_connection_link: "?token=" the id, "#" the secret.
LinkOf(local) == [token |-> local.rendezvous_id, fragment |-> local.secret]

\* connection_encrypt; the mailbox's join message has no ciphertext.
Seal(key, type) == [key |-> key, type |-> type]
JoinMessage == [key |-> None, type |-> "join"]

\* connection_decrypt: AES-GCM refuses what was sealed with another key.
Opens(key, m) == m.key = key

-----------------------------------------------------------------------------
(* The server.                                                             *)

\* send_message: needs both mailboxes, and the time it was made for.
CanSend(l) == box[l] = "joined" /\ l \notin expired

\* Into the mailbox of the other side; else an error reply.
Send(l, to, m) ==
    mail' = IF CanSend(l) THEN [mail EXCEPT ![l][to] = Append(@, m)] ELSE mail

Fault == faults < MaxFaults /\ faults' = faults + 1

\* 30 seconds after the init request, for both mailboxes.
Expire(l) ==
    /\ box[l] \in {"open", "joined"}
    /\ l \notin expired
    /\ Fault
    /\ expired' = expired \cup {l}
    /\ UNCHANGED <<box, mail, closing, page, peer, up, told, consented, crossed, lostIce>>

\* close_connection deletes both mailboxes, unread messages too.  What was
\* pushed to a WebSocket may still arrive.
Close(l) ==
    /\ l \in closing
    /\ closing' = closing \ {l}
    /\ box' = [box EXCEPT ![l] = "gone"]
    /\ UNCHANGED <<expired, mail, page, peer, up, told, faults, consented, crossed, lostIce>>

-----------------------------------------------------------------------------
(* The initiator's page: the link.                                         *)

NoLocal == [rendezvous_id |-> None, secret |-> None, k_sig |-> None]

PageRecord ==
    [local: {NoLocal} \cup {InitLocal(l) : l \in Links}, \* _initiatorResult
     mailbox: Links \cup {None},         \* _initiatorServerMailboxId
     busy: Links \cup {None},            \* the link whose init request is under way
     ticking: BOOLEAN,                   \* the page opens, or _mailboxCountdownTimer
     sub: Links \cup {None}, read: Nat,  \* _mailboxSubscription
     prompts: Seq(Links),                \* open dialogs, the last one on top
     pending: BOOLEAN,                   \* _incomingRequestFrom # null
     accepted: BOOLEAN,                  \* _peerAccepted
     offer: {"none", "creating", "sent"}, \* the handshake with the _webrtcManager
     to: Links \cup {None},              \* the responder that the offer went to
     answer: BOOLEAN,                    \* its remote description is set
     iceIn: BOOLEAN, iceOut: BOOLEAN,    \* a candidate was added / is queued
     signalingClosed: BOOLEAN,
     rtc: {"new", "connected", "ended"}, left: BOOLEAN]

PageInit ==
    [local |-> NoLocal, mailbox |-> None, busy |-> None, ticking |-> TRUE,
     sub |-> None, read |-> 0, prompts |-> <<>>, pending |-> FALSE, accepted |-> FALSE,
     offer |-> "none", to |-> None, answer |-> FALSE,
     iceIn |-> FALSE, iceOut |-> FALSE, signalingClosed |-> FALSE,
     rtc |-> "new", left |-> FALSE]

Fresh(l) == box[l] = "none" /\ \A n \in 1..l - 1 : box[n] # "none"

\* initState, or a tick of the countdown that finds the link expired.
Due ==
    /\ page.ticking
    /\ \/ page.mailbox = None
       \/ page.mailbox \in expired /\ ~page.accepted /\ ~page.signalingClosed

\* _createInitiatorLink, up to its init request: stops the countdown and the
\* subscription.
CreateLink(l) ==
    /\ Due /\ ~page.left /\ page.busy = None /\ Fresh(l)
    /\ page' = [page EXCEPT !.busy = l, !.ticking = FALSE, !.sub = None]
    /\ UNCHANGED <<server, closing, peer, up, told, faults, consented, crossed, lostIce>>

\* Mutant: the page keeps the secret of its old link.
LinkCreatedOldSecret(l) ==
    /\ page.busy = l /\ ~page.left
    /\ box' = [box EXCEPT ![l] = "open"]
    /\ page' = [page EXCEPT !.local = IF @ = NoLocal THEN InitLocal(l) ELSE @, !.mailbox = l,
                            !.busy = None, !.sub = l, !.read = 0, !.ticking = TRUE,
                            !.accepted = FALSE, !.pending = FALSE]
    /\ closing' = closing \cup ({page.mailbox} \ {None})
    /\ UNCHANGED <<expired, mail, peer, up, told, faults, consented, crossed, lostIce>>

\* Mutant: the acceptance of the old link's request is carried over.
LinkCreatedKeepsAccepted(l) ==
    /\ page.busy = l /\ ~page.left
    /\ box' = [box EXCEPT ![l] = "open"]
    /\ page' = [page EXCEPT !.local = InitLocal(l), !.mailbox = l, !.busy = None,
                            !.sub = l, !.read = 0, !.ticking = TRUE, !.pending = FALSE]
    /\ closing' = closing \cup ({page.mailbox} \ {None})
    /\ UNCHANGED <<expired, mail, peer, up, told, faults, consented, crossed, lostIce>>

\* The reply: the page switches to the new link, whatever happened to the old
\* one meanwhile, and closes the old mailbox.  Open dialogs stay.
LinkCreated(l) ==
    /\ page.busy = l /\ ~page.left
    /\ box' = [box EXCEPT ![l] = "open"]
    /\ page' = [page EXCEPT !.local = InitLocal(l), !.mailbox = l, !.busy = None,
                            !.sub = l, !.read = 0, !.ticking = TRUE,
                            !.accepted = FALSE, !.pending = FALSE]
    /\ closing' = closing \cup ({page.mailbox} \ {None})
    /\ UNCHANGED <<expired, mail, peer, up, told, faults, consented, crossed, lostIce>>

\* The init request fails: neither countdown nor subscription come back.
LinkFails(l) ==
    /\ page.busy = l /\ ~page.left
    /\ Fault
    /\ page' = [page EXCEPT !.busy = None]
    /\ UNCHANGED <<server, closing, peer, up, told, consented, crossed, lostIce>>

-----------------------------------------------------------------------------
(* The initiator's page: the request.                                      *)

\* showDialog: the first event, whatever it is, when none is pending.
Prompt(l) ==
    /\ ~page.accepted /\ ~page.pending
    /\ page' = [page EXCEPT !.read = @ + 1, !.pending = TRUE, !.prompts = Append(@, l)]
    /\ UNCHANGED lostIce

Drop ==
    /\ ~page.accepted /\ page.pending
    /\ page' = [page EXCEPT !.read = @ + 1]
    /\ UNCHANGED lostIce

Dismissed == SubSeq(page.prompts, 1, Len(page.prompts) - 1)

Reject ==
    /\ ~page.left /\ page.prompts # <<>>
    /\ page' = [page EXCEPT !.prompts = Dismissed, !.pending = FALSE]
    /\ UNCHANGED <<server, closing, peer, up, told, faults, consented, crossed, lostIce>>

\* Accept, and _startWebRTCHandshake up to createOffer, which starts to gather
\* candidates.
Accept ==
    /\ ~page.left /\ page.prompts # <<>>
    /\ page.offer = "none"    \* bound: one handshake
    /\ LET l == page.prompts[Len(page.prompts)] IN
       /\ page' = [page EXCEPT !.prompts = Dismissed, !.pending = FALSE, !.accepted = TRUE,
                               !.offer = "creating", !.iceOut = TRUE]
       /\ consented' = consented \cup {l}
       /\ crossed' = crossed \cup {x \in {"switched", "switching"} :
                                     IF x = "switched" THEN page.mailbox # l ELSE page.busy # None}
    /\ UNCHANGED <<server, closing, peer, up, told, faults, lostIce>>

\* createOffer is done: the offer goes to the mailbox the page has now, under
\* the key it has now.
SendOffer ==
    /\ ~page.left /\ page.offer = "creating"
    /\ page' = [page EXCEPT !.offer = "sent",
                            !.to = IF CanSend(page.mailbox) THEN page.mailbox ELSE None]
    /\ Send(page.mailbox, "r", Seal(page.local.k_sig, "offer"))
    /\ UNCHANGED <<box, expired, closing, peer, up, told, faults, consented, crossed, lostIce>>

\* _sendIceCandidate, from the queue; it may overtake the offer.
SendIce ==
    /\ ~page.left /\ page.iceOut
    /\ page' = [page EXCEPT !.iceOut = FALSE]
    /\ Send(page.mailbox, "r", Seal(page.local.k_sig, "ice"))
    /\ UNCHANGED <<box, expired, closing, peer, up, told, faults, consented, crossed, lostIce>>

\* addIceCandidate: fails before the remote description is there.
TakeIce ==
    IF page.answer
    THEN page' = [page EXCEPT !.read = @ + 1, !.iceIn = TRUE] /\ UNCHANGED lostIce
    ELSE page' = [page EXCEPT !.read = @ + 1] /\ lostIce' = lostIce \cup {"i"}

\* _handleIncomingSignal: what does not open, is of another type or comes
\* after the session's end is logged at most.
HandleSignal(m) ==
    CASE ~Opens(page.local.k_sig, m) \/ page.rtc = "ended" ->
            page' = [page EXCEPT !.read = @ + 1] /\ UNCHANGED lostIce
      [] m.type = "answer" ->
            page' = [page EXCEPT !.read = @ + 1, !.answer = TRUE] /\ UNCHANGED lostIce
      [] m.type = "ice" -> TakeIce
      [] m.type = "disconnect" ->
            page' = [page EXCEPT !.read = @ + 1, !.rtc = "ended"] /\ UNCHANGED lostIce
      [] OTHER -> page' = [page EXCEPT !.read = @ + 1] /\ UNCHANGED lostIce

\* The subscription's listener.  Signals wait in _signalQueue, which keeps
\* their order, and are taken here when they are handled.
Event(l) ==
    /\ page.sub = l /\ ~page.left
    /\ page.read < Len(mail[l].i)
    /\ \/ Prompt(l) \/ Drop
       \/ page.accepted /\ ~page.signalingClosed /\ HandleSignal(mail[l].i[page.read + 1])
    /\ UNCHANGED <<server, closing, peer, up, told, faults, consented, crossed>>

-----------------------------------------------------------------------------
(* The responder's page.                                                   *)

PeerRecord ==
    [at: {"out", "joined", "waiting", "fetched", "subscribed", "failed"},
     key: {None} \cup {KeyOf(l) : l \in Links}, \* _kSig
     fetched: Nat, read: Nat,    \* existing messages, those handled
     offer: BOOLEAN,             \* the remote description is set
     owes: BOOLEAN,              \* an answer is being made
     iceIn: BOOLEAN, iceOut: BOOLEAN, signalingClosed: BOOLEAN,
     rtc: {"new", "connected", "ended"}, left: BOOLEAN]

PeerInit ==
    [at |-> "out", key |-> None, fetched |-> 0, read |-> 0, offer |-> FALSE, owes |-> FALSE,
     iceIn |-> FALSE, iceOut |-> FALSE, signalingClosed |-> FALSE, rtc |-> "new",
     left |-> FALSE]

PeerAt(l, at) == peer[l].at = at /\ ~peer[l].left

\* _joinWithToken up to the join's reply: a link the page showed, in time.
Join(l) ==
    /\ PeerAt(l, "out")
    /\ box[l] = "open" /\ l \notin expired
    /\ LET link == LinkOf(InitLocal(l)) IN
       /\ box' = [box EXCEPT ![link.token] = "joined"]
       /\ mail' = [mail EXCEPT ![link.token].i = Append(@, JoinMessage)]
       /\ peer' = [peer EXCEPT ![l].at = "joined", ![l].key = DeriveKeys(link.fragment).k_sig]
    /\ UNCHANGED <<expired, closing, page, up, told, faults, consented, crossed, lostIce>>

\* The hello; without it the page shows an error and does no more.
Hello(l) ==
    /\ PeerAt(l, "joined")
    /\ Send(l, "i", Seal(peer[l].key, "connect_request"))
    /\ peer' = [peer EXCEPT ![l].at = IF CanSend(l) THEN "waiting" ELSE "failed"]
    /\ UNCHANGED <<box, expired, closing, page, up, told, faults, consented, crossed, lostIce>>

HelloFails(l) ==
    /\ PeerAt(l, "joined")
    /\ Fault
    /\ peer' = [peer EXCEPT ![l].at = "failed"]
    /\ UNCHANGED <<server, closing, page, up, told, consented, crossed, lostIce>>

\* _fetchAndProcessExistingMessages: the fetch.
Fetch(l) ==
    /\ PeerAt(l, "waiting")
    /\ peer' = [peer EXCEPT ![l].at = "fetched",
                            ![l].fetched = IF box[l] = "joined" THEN Len(mail[l].r) ELSE 0]
    /\ UNCHANGED <<server, closing, page, up, told, faults, consented, crossed, lostIce>>

\* Mutant: the subscription gives only what comes after it.
SubscribeFromNow(l) ==
    /\ PeerAt(l, "fetched")
    /\ peer[l].read = peer[l].fetched /\ ~peer[l].owes
    /\ peer' = [peer EXCEPT ![l].at = "subscribed", ![l].read = Len(mail[l].r)]
    /\ UNCHANGED <<server, closing, page, up, told, faults, consented, crossed, lostIce>>

\* _startListeningForSignals: a subscription fetches everything once more.
Subscribe(l) ==
    /\ PeerAt(l, "fetched")
    /\ peer[l].read = peer[l].fetched /\ ~peer[l].owes
    /\ peer' = [peer EXCEPT ![l].at = "subscribed",
                            ![l].read = IF box[l] = "joined" THEN 0 ELSE Len(mail[l].r)]
    /\ UNCHANGED <<server, closing, page, up, told, faults, consented, crossed, lostIce>>

Unread(l) ==
    \/ PeerAt(l, "fetched") /\ peer[l].read < peer[l].fetched
    \/ PeerAt(l, "subscribed") /\ peer[l].read < Len(mail[l].r)

\* _handleIncomingSignal, one at a time.  An offer that is read again is answered
\* again.
Signal(l) ==
    /\ Unread(l) /\ ~peer[l].owes
    /\ LET m == mail[l].r[peer[l].read + 1]
           pass == [peer EXCEPT ![l].read = @ + 1] IN
       CASE peer[l].signalingClosed \/ ~Opens(peer[l].key, m) \/ peer[l].rtc = "ended" ->
               peer' = pass /\ UNCHANGED lostIce
         [] m.type = "offer" ->
               /\ peer' = [pass EXCEPT ![l].offer = TRUE, ![l].owes = TRUE,
                                       ![l].iceOut = @ \/ ~peer[l].offer]
               /\ UNCHANGED lostIce
         [] m.type = "ice" ->
               IF peer[l].offer
               THEN peer' = [pass EXCEPT ![l].iceIn = TRUE] /\ UNCHANGED lostIce
               ELSE peer' = pass /\ lostIce' = lostIce \cup {"r"}
         [] OTHER -> peer' = [pass EXCEPT ![l].rtc = "ended"] /\ UNCHANGED lostIce
    /\ UNCHANGED <<server, closing, page, up, told, faults, consented, crossed>>

SendAnswer(l) ==
    /\ ~peer[l].left /\ peer[l].owes
    /\ peer' = [peer EXCEPT ![l].owes = FALSE]
    /\ Send(l, "i", Seal(peer[l].key, "answer"))
    /\ UNCHANGED <<box, expired, closing, page, up, told, faults, consented, crossed, lostIce>>

SendPeerIce(l) ==
    /\ ~peer[l].left /\ peer[l].iceOut
    /\ peer' = [peer EXCEPT ![l].iceOut = FALSE]
    /\ Send(l, "i", Seal(peer[l].key, "ice"))
    /\ UNCHANGED <<box, expired, closing, page, up, told, faults, consented, crossed, lostIce>>

-----------------------------------------------------------------------------
(* The connection and its end.                                             *)

\* External: both descriptions belong together and a candidate is known to
\* one side at least.
Connect(l) ==
    /\ up = None
    /\ ~page.left /\ page.rtc = "new" /\ ~peer[l].left /\ peer[l].rtc = "new"
    /\ page.answer /\ page.to = l /\ peer[l].offer /\ ~peer[l].owes
    /\ page.iceIn \/ peer[l].iceIn
    /\ up' = l
    /\ UNCHANGED <<server, closing, page, peer, told, faults, consented, crossed, lostIce>>

\* onStateChange "connected" at the initiator: the signalling is closed.
PageConnected ==
    /\ up # None /\ page.rtc = "new" /\ ~page.left
    /\ page' = [page EXCEPT !.rtc = "connected", !.signalingClosed = TRUE,
                            !.iceOut = FALSE, !.sub = None]
    /\ closing' = IF page.signalingClosed THEN closing ELSE closing \cup {page.mailbox}
    /\ UNCHANGED <<server, peer, up, told, faults, consented, crossed, lostIce>>

PeerConnected(l) ==
    /\ up = l /\ peer[l].rtc = "new" /\ ~peer[l].left
    /\ peer' = [peer EXCEPT ![l].rtc = "connected", ![l].signalingClosed = TRUE,
                            ![l].iceOut = FALSE]
    /\ closing' = closing \cup {l}
    /\ UNCHANGED <<server, page, up, told, faults, consented, crossed, lostIce>>

\* _showExitConfirmation and the end of the page: a disconnect signal while
\* connecting, session_closed (which may not get out) once connected, else
\* nothing.
PageLeaves ==
    /\ ~page.left
    /\ Fault
    /\ page' = [page EXCEPT !.left = TRUE]
    /\ IF page.rtc = "connected"
       THEN /\ UNCHANGED mail
            /\ told' \in {told, told \cup {"r"}}
       ELSE /\ IF page.rtc = "new" /\ page.answer
               THEN Send(page.mailbox, "r", Seal(page.local.k_sig, "disconnect"))
               ELSE UNCHANGED mail
            /\ UNCHANGED told
    /\ UNCHANGED <<box, expired, closing, peer, up, consented, crossed, lostIce>>

PeerLeaves(l) ==
    /\ peer[l].at # "out" /\ ~peer[l].left
    /\ Fault
    /\ peer' = [peer EXCEPT ![l].left = TRUE]
    /\ IF peer[l].rtc = "connected"
       THEN /\ UNCHANGED mail
            /\ told' \in {told, told \cup {"i"}}
       ELSE /\ IF peer[l].rtc = "new" /\ peer[l].offer
               THEN Send(l, "i", Seal(peer[l].key, "disconnect"))
               ELSE UNCHANGED mail
            /\ UNCHANGED told
    /\ UNCHANGED <<box, expired, closing, page, up, consented, crossed, lostIce>>

PageOver == page.left \/ page.rtc = "ended"
PeerOver(l) == peer[l].left \/ peer[l].rtc = "ended"

\* Mutant: the heartbeat is not started.
PageEndsIfTold ==
    /\ up # None /\ ~PageOver
    /\ "i" \in told
    /\ page' = [page EXCEPT !.rtc = "ended"]
    /\ UNCHANGED <<server, closing, peer, up, told, faults, consented, crossed, lostIce>>

\* _handlePeerSessionClosed, after session_closed or when the heartbeat gets
\* no pong: then the other manager is gone.
PageEnds ==
    /\ up # None /\ ~PageOver
    /\ \/ "i" \in told
       \/ page.rtc = "connected" /\ PeerOver(up)
    /\ page' = [page EXCEPT !.rtc = "ended"]
    /\ UNCHANGED <<server, closing, peer, up, told, faults, consented, crossed, lostIce>>

PeerEnds(l) ==
    /\ up = l /\ ~PeerOver(l)
    /\ \/ "r" \in told
       \/ peer[l].rtc = "connected" /\ PageOver
    /\ peer' = [peer EXCEPT ![l].rtc = "ended"]
    /\ UNCHANGED <<server, closing, page, up, told, faults, consented, crossed, lostIce>>

\* The network is silent for more than 15 seconds: one side gives up.
Silence ==
    /\ up # None
    /\ Fault
    /\ \/ /\ page.rtc = "connected" /\ ~page.left
          /\ page' = [page EXCEPT !.rtc = "ended"] /\ UNCHANGED peer
       \/ /\ peer[up].rtc = "connected" /\ ~peer[up].left
          /\ peer' = [peer EXCEPT ![up].rtc = "ended"] /\ UNCHANGED page
    /\ UNCHANGED <<server, closing, up, told, consented, crossed, lostIce>>

-----------------------------------------------------------------------------
Init ==
    /\ box = [l \in Links |-> "none"]
    /\ expired = {}
    /\ mail = [l \in Links |-> [i |-> <<>>, r |-> <<>>]]
    /\ closing = {}
    /\ page = PageInit
    /\ peer = [l \in Links |-> PeerInit]
    /\ up = None
    /\ told = {}
    /\ faults = 0
    /\ consented = {}
    /\ crossed = {}
    /\ lostIce = {}

\* What the code does by itself: requests are answered, events are delivered,
\* timers fire.
Progress ==
    \/ \E l \in Links :
          \/ Close(l) \/ CreateLink(l) \/ LinkCreated(l) \/ Event(l)
          \/ Hello(l) \/ Fetch(l) \/ Subscribe(l) \/ Signal(l)
          \/ SendAnswer(l) \/ SendPeerIce(l)
          \/ Connect(l) \/ PeerConnected(l) \/ PeerEnds(l)
    \/ SendOffer \/ SendIce \/ PageConnected \/ PageEnds

\* Users, the clock and failures.
Environment ==
    \/ \E l \in Links :
          Expire(l) \/ LinkFails(l) \/ Join(l) \/ HelloFails(l) \/ PeerLeaves(l)
    \/ Accept \/ Reject \/ PageLeaves \/ Silence

Next == Progress \/ Environment

Spec == Init /\ [][Next]_vars /\ WF_vars(Progress)

-----------------------------------------------------------------------------
SignalRecord == [key: {None} \cup {KeyOf(l) : l \in Links},
                 type: {"join", "connect_request", "offer", "answer", "ice", "disconnect"}]

\* Type invariant of pages, mailboxes and connection.
TypeOK ==
    /\ box \in [Links -> {"none", "open", "joined", "gone"}]
    /\ expired \subseteq Links /\ closing \subseteq Links /\ consented \subseteq Links
    /\ mail \in [Links -> [i: Seq(SignalRecord), r: Seq(SignalRecord)]]
    /\ page \in PageRecord
    /\ peer \in [Links -> PeerRecord]
    /\ up \in Links \cup {None}
    /\ told \subseteq Sides /\ lostIce \subseteq Sides
    /\ faults \in 0..MaxFaults
    /\ crossed \subseteq {"switched", "switching"}

\* Whatever lies in a link's mailboxes is sealed with that link's key, also
\* when the page changes its link while a handshake runs: no side is ever given
\* what it cannot open.
SealedForItsLink ==
    \A l \in Links : \A side \in Sides : \A n \in 1..Len(mail[l][side]) :
        mail[l][side][n] = JoinMessage \/ Opens(KeyOf(l), mail[l][side][n])

\* The initiator's page is only connected with a responder whose request its
\* user accepted, also when the page was switching to a new link as its user
\* accepted.  The exception is a prompt that outlives its link: to accept it
\* starts a handshake with whoever joins, or has joined, the new one.
ConnectedWithConsent ==
    up # None => up \in consented \/ "switched" \in crossed

\* What may stop a handshake: the page's link changed under the prompt, the
\* link ran out, a page was left, the hello failed, or both candidates came
\* too early.
Excused(l) ==
    \/ crossed # {} \/ l \in expired
    \/ page.left \/ peer[l].left \/ peer[l].at = "failed"
    \/ lostIce = Sides

\* An accepted request leads to a session on both pages, even though the first
\* page that is connected deletes both mailboxes with what is unread.
AcceptedGetConnected ==
    \A l \in Links :
        l \in consented ~>
            \/ up = l /\ page.rtc # "new" /\ peer[l].rtc # "new"
            \/ Excused(l)

\* One page is connected, and the other one has left or given up.
OneSided ==
    \E l \in Links :
        /\ up = l
        /\ \/ page.rtc = "connected" /\ ~PageOver /\ PeerOver(l)
           \/ peer[l].rtc = "connected" /\ ~PeerOver(l) /\ PageOver

\* When one page leaves a session or gives it up, the other one ends it too:
\* it is told, or its heartbeat finds out.
SessionEndsForBoth == []<>~OneSided
=============================================================================
