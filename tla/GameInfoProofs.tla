--------------------------- MODULE GameInfoProofs ---------------------------
(***************************************************************************)
(* What holds of the game info dialogs for any servers, any number of      *)
(* dialogs and any answers.  The argument follows the calls: each operator *)
(* on dialogs and queries keeps Good, and each action is made of them.     *)
(***************************************************************************)
EXTENDS GameInfoDialog, FiniteSetTheorems, TLAPS

\* The auto-retry is on where it was offered, and the rows are of one query, that
\* before the last only until the first row of the last.
GoodDialog(e) ==
    /\ e \in Dialog
    /\ e.m_pAutoRetryJoin => e.m_pAutoRetry
    /\ e.m_pAutoRetry => e.m_bShowAutoRetryToggle
    /\ e.m_pPlayerList = {} \/ e.m_pPlayerList = {"last"} \/ e.m_pPlayerList = {"earlier"}
    /\ "earlier" \in e.m_pPlayerList => e.m_bPlayerListUpdatePending

QueryOf(dialogs) ==
    [of : 1..Len(dialogs), kind : {"ping", "players"}, connecting : BOOLEAN,
     held : BOOLEAN]

\* A query in flight is held by a living dialog, and is its only one of the kind; the
\* ping of a dialog that is connecting was sent since it is.
GoodQuery(dialogs, q) ==
    /\ q \in QueryOf(dialogs)
    /\ q.held = TRUE
    /\ dialogs[q.of].phase # "deleted"
    /\ q.kind = "ping" /\ dialogs[q.of].m_bConnecting = TRUE => q.connecting = TRUE

Alone(flight) ==
    \A q, r \in flight : q.of = r.of /\ q.kind = r.kind => q = r

Good(dialogs, flight) ==
    /\ dialogs \in Seq(Dialog)
    /\ \A d \in 1..Len(dialogs) : GoodDialog(dialogs[d])
    /\ \A q \in flight : GoodQuery(dialogs, q)
    /\ Alone(flight)

GoodU(u) ==
    /\ u = [dialogs |-> u.dialogs, flight |-> u.flight]
    /\ Good(u.dialogs, u.flight)

-----------------------------------------------------------------------------
(* Queries and dialogs.                                                    *)

\* An answer, a failure or a cancel takes queries away.
LEMMA FewerQueries ==
    ASSUME NEW dialogs, NEW flight, Good(dialogs, flight),
           NEW fewer \in SUBSET flight
    PROVE  Good(dialogs, fewer)
  BY DEF Good, Alone

\* A living dialog may ask what it does not already.
LEMMA OneMoreQuery ==
    ASSUME NEW dialogs, NEW flight, Good(dialogs, flight),
           NEW d \in 1..Len(dialogs), dialogs[d].phase # "deleted",
           NEW kind \in {"ping", "players"}, NEW connecting \in BOOLEAN,
           \A q \in flight : ~(q.of = d /\ q.kind = kind),
           kind = "ping" => connecting = dialogs[d].m_bConnecting
    PROVE  Good(dialogs, flight \cup {Query(d, kind, connecting)})
<1> DEFINE new == Query(d, kind, connecting)
<1>1. /\ new \in QueryOf(dialogs) /\ new.of = d /\ new.kind = kind
      /\ new.held = TRUE /\ new.connecting = connecting
  BY DEF Query, QueryOf
<1> HIDE DEF new
<1>2. GoodQuery(dialogs, new)
  BY <1>1 DEF GoodQuery
<1>3. \A q \in flight \cup {new} : GoodQuery(dialogs, q)
  BY <1>2 DEF Good
<1>4. Alone(flight \cup {new})
  BY <1>1 DEF Good, Alone
<1>5. QED
  BY <1>3, <1>4 DEF Good, new

\* What a dialog may change to: it stays alive while it is asking, and only connects
\* with pings that were sent for it.
MayBecome(flight, d, e) ==
    /\ GoodDialog(e)
    /\ \A q \in flight : q.of = d => e.phase # "deleted"
    /\ \A q \in flight :
         (q.of = d /\ q.kind = "ping" /\ e.m_bConnecting = TRUE) => q.connecting = TRUE

LEMMA ChangedDialog ==
    ASSUME NEW dialogs, NEW flight, Good(dialogs, flight),
           NEW d \in 1..Len(dialogs), NEW e, MayBecome(flight, d, e)
    PROVE  /\ Good([dialogs EXCEPT ![d] = e], flight)
           /\ Len([dialogs EXCEPT ![d] = e]) = Len(dialogs)
           /\ [dialogs EXCEPT ![d] = e][d] = e
<1> DEFINE changed == [dialogs EXCEPT ![d] = e]
<1>1. dialogs \in Seq(Dialog) /\ e \in Dialog
  BY DEF Good, GoodDialog, MayBecome
<1>2. /\ changed \in Seq(Dialog) /\ Len(changed) = Len(dialogs)
      /\ \A c \in 1..Len(dialogs) : changed[c] = IF c = d THEN e ELSE dialogs[c]
  BY <1>1
<1> HIDE DEF changed
<1>3. \A c \in 1..Len(changed) : GoodDialog(changed[c])
  BY <1>2 DEF Good, MayBecome
<1>4. ASSUME NEW q \in flight
      PROVE  GoodQuery(changed, q)
  <2>1. GoodQuery(dialogs, q)
    BY DEF Good
  <2>2. q.of \in 1..Len(dialogs) /\ q \in QueryOf(changed)
    BY <1>2, <2>1 DEF GoodQuery, QueryOf
  <2>3. CASE q.of = d
    BY <1>2, <2>1, <2>2, <2>3 DEF GoodQuery, MayBecome
  <2>4. CASE q.of # d
    BY <1>2, <2>1, <2>2, <2>4 DEF GoodQuery
  <2>5. QED
    BY <2>3, <2>4
<1>5. Good(changed, flight) /\ Len(changed) = Len(dialogs) /\ changed[d] = e
  BY <1>2, <1>3, <1>4 DEF Good
<1>6. QED
  BY <1>5 DEF changed

\* What a dialog cancels are its queries of that kind, all of them.
LEMMA Cancelled ==
    ASSUME NEW dialogs, NEW flight, Good(dialogs, flight), NEW d, NEW kind
    PROVE  /\ CancelServerQuery(flight, d, kind) \subseteq flight
           /\ \A q \in CancelServerQuery(flight, d, kind) : ~(q.of = d /\ q.kind = kind)
  BY DEF CancelServerQuery, Good, GoodQuery

\* With its answer, the only query the dialog could forget has left.
LEMMA Forgotten ==
    ASSUME NEW dialogs, NEW flight, Good(dialogs, flight), NEW q \in flight
    PROVE  Forget(flight \ {q}, q.of, q.kind) = flight \ {q}
<1>1. \A r \in flight \ {q} : ~(r.of = q.of /\ r.kind = q.kind)
  BY DEF Good, Alone
<1>2. QED
  BY <1>1 DEF Forget

-----------------------------------------------------------------------------
(* The calls.                                                              *)

Put(u, d, e) == [dialogs |-> [u.dialogs EXCEPT ![d] = e], flight |-> u.flight]

\* A changed dialog, among all that a call changes.
LEMMA PutGood ==
    ASSUME NEW u, GoodU(u), NEW d \in 1..Len(u.dialogs), NEW e, MayBecome(u.flight, d, e)
    PROVE  /\ GoodU(Put(u, d, e))
           /\ Len(Put(u, d, e).dialogs) = Len(u.dialogs)
           /\ Put(u, d, e).dialogs[d] = e
           /\ Put(u, d, e).flight = u.flight
<1> DEFINE old == u.dialogs
           flight == u.flight
           dialogs == [old EXCEPT ![d] = e]
<1>1. Good(old, flight) /\ d \in 1..Len(old) /\ MayBecome(flight, d, e)
  BY DEF GoodU
<1>2. Put(u, d, e) = [dialogs |-> dialogs, flight |-> flight]
  BY DEF Put
<1> HIDE DEF old, flight
<1>3. Good(dialogs, flight) /\ Len(dialogs) = Len(old) /\ dialogs[d] = e
  BY <1>1, ChangedDialog
<1> HIDE DEF dialogs
<1>4. QED
  BY <1>2, <1>3 DEF GoodU, old, flight

\* The form in which the calls say so.
LEMMA PutIs ==
    ASSUME NEW u, GoodU(u), NEW d, NEW e
    PROVE  [u EXCEPT !.dialogs[d] = e] = Put(u, d, e)
  BY DEF GoodU, Put

\* A dialog may become what it is, but for fields the queries do not depend on.
LEMMA SameForQueries ==
    ASSUME NEW u, GoodU(u), NEW d \in 1..Len(u.dialogs), NEW e, GoodDialog(e),
           e.phase = "deleted" => u.dialogs[d].phase = "deleted",
           e.m_bConnecting = TRUE => u.dialogs[d].m_bConnecting = TRUE
    PROVE  MayBecome(u.flight, d, e)
<1>1. ASSUME NEW q \in u.flight, q.of = d
      PROVE  /\ e.phase # "deleted"
             /\ (q.kind = "ping" /\ e.m_bConnecting = TRUE) => q.connecting = TRUE
  BY <1>1 DEF GoodU, Good, GoodQuery
<1>2. QED
  BY <1>1 DEF MayBecome

\* The fields of a dialog and what depends on them.
LEMMA FieldsOfDialog ==
    ASSUME NEW e, GoodDialog(e)
    PROVE  /\ GoodDialog([e EXCEPT !.m_bConnecting = FALSE])
           /\ GoodDialog([e EXCEPT !.m_bConnecting = TRUE])
           /\ GoodDialog([e EXCEPT !.closePosted = TRUE])
           /\ GoodDialog([e EXCEPT !.m_bShowAutoRetryToggle = TRUE])
           /\ GoodDialog([e EXCEPT !.phase = IF @ = "open" THEN "closing" ELSE @])
  BY DEF GoodDialog, Dialog

LEMMA ClosedGood ==
    ASSUME NEW u, GoodU(u), NEW d \in 1..Len(u.dialogs)
    PROVE  /\ GoodU(Close(u, d))
           /\ Len(Close(u, d).dialogs) = Len(u.dialogs)
           /\ Close(u, d).flight = u.flight
<1> DEFINE e == [u.dialogs[d] EXCEPT !.phase = IF @ = "open" THEN "closing" ELSE @]
<1>1. GoodDialog(u.dialogs[d])
  BY DEF GoodU, Good
<1>2. GoodDialog(e)
  BY <1>1, FieldsOfDialog
<1>3. /\ e.m_bConnecting = u.dialogs[d].m_bConnecting
      /\ e.phase = "deleted" => u.dialogs[d].phase = "deleted"
  BY <1>1 DEF GoodDialog, Dialog
<1>4. Close(u, d) = [u EXCEPT !.dialogs[d] = e]
  BY DEF Close
<1> HIDE DEF e
<1>5. MayBecome(u.flight, d, e)
  BY <1>2, <1>3, SameForQueries
<1>6. Close(u, d) = Put(u, d, e)
  BY <1>4, PutIs
<1>7. QED
  BY <1>5, <1>6, PutGood

\* A living dialog asks, and cancels what it asked before.
LEMMA Asked ==
    ASSUME NEW u, u = [dialogs |-> u.dialogs, flight |-> u.flight],
           NEW d \in 1..Len(u.dialogs), u.dialogs[d].phase # "deleted",
           Good(u.dialogs, CancelServerQuery(u.flight, d, "ping")),
           \A q \in CancelServerQuery(u.flight, d, "ping") : ~(q.of = d /\ q.kind = "ping")
    PROVE  GoodU(RequestInfo(u, d)) /\ RequestInfo(u, d).dialogs = u.dialogs
<1> DEFINE others == CancelServerQuery(u.flight, d, "ping")
           connecting == u.dialogs[d].m_bConnecting
<1>1. connecting \in BOOLEAN
  BY DEF Good, GoodDialog, Dialog
<1>2. Good(u.dialogs, others \cup {Query(d, "ping", connecting)})
  BY <1>1, OneMoreQuery
<1>3. RequestInfo(u, d) = [dialogs |-> u.dialogs,
                           flight |-> others \cup {Query(d, "ping", connecting)}]
  <2> DEFINE asked == others \cup {Query(d, "ping", connecting)}
  <2>1. RequestInfo(u, d) = [u EXCEPT !.flight = asked]
    BY DEF RequestInfo
  <2> HIDE DEF asked
  <2>2. [u EXCEPT !.flight = asked] = [dialogs |-> u.dialogs, flight |-> asked]
    OBVIOUS
  <2>3. QED
    BY <2>1, <2>2 DEF asked
<1> HIDE DEF others, connecting
<1>4. QED
  BY <1>2, <1>3 DEF GoodU

LEMMA RequestGood ==
    ASSUME NEW u, GoodU(u), NEW d \in 1..Len(u.dialogs), u.dialogs[d].phase # "deleted"
    PROVE  GoodU(RequestInfo(u, d)) /\ RequestInfo(u, d).dialogs = u.dialogs
<1> DEFINE others == CancelServerQuery(u.flight, d, "ping")
<1>1. others \subseteq u.flight /\ \A q \in others : ~(q.of = d /\ q.kind = "ping")
  BY Cancelled DEF GoodU
<1>2. Good(u.dialogs, others)
  BY <1>1, FewerQueries DEF GoodU
<1>3. QED
  BY <1>1, <1>2, Asked DEF GoodU

\* The dialog connects, and its pings from before are cancelled.
LEMMA ConnectGood ==
    ASSUME NEW u, GoodU(u), NEW d \in 1..Len(u.dialogs), u.dialogs[d].phase # "deleted"
    PROVE  GoodU(OnConnect(u, d)) /\ Len(OnConnect(u, d).dialogs) = Len(u.dialogs)
<1> DEFINE e == [u.dialogs[d] EXCEPT !.m_bConnecting = TRUE]
           others == CancelServerQuery(u.flight, d, "ping")
           u2 == [dialogs |-> u.dialogs, flight |-> others]
           v == Put(u, d, e)
<1>1. others \subseteq u.flight /\ \A q \in others : ~(q.of = d /\ q.kind = "ping")
  BY Cancelled DEF GoodU
<1>2. Good(u.dialogs, others)
  BY <1>1, FewerQueries DEF GoodU
<1>3. GoodDialog(u.dialogs[d])
  BY DEF GoodU, Good
<1>4. GoodDialog(e)
  BY <1>3, FieldsOfDialog
<1>5. e.phase = u.dialogs[d].phase
  BY <1>3 DEF GoodDialog, Dialog
<1>6. OnConnect(u, d) = RequestInfo(v, d)
  <2>1. [u EXCEPT !.dialogs[d].m_bConnecting = TRUE] = [u EXCEPT !.dialogs[d] = e]
    OBVIOUS
  <2> HIDE DEF e
  <2>2. [u EXCEPT !.dialogs[d].m_bConnecting = TRUE] = Put(u, d, e)
    BY <2>1, PutIs
  <2>3. QED
    BY <2>2 DEF OnConnect
<1> HIDE DEF e, others
<1>7. MayBecome(others, d, e)
  BY <1>1, <1>4, <1>5 DEF MayBecome
<1>8. /\ GoodU(Put(u2, d, e)) /\ Len(Put(u2, d, e).dialogs) = Len(u.dialogs)
      /\ Put(u2, d, e).dialogs[d] = e /\ Put(u2, d, e).flight = others
  <2>1. GoodU(u2) /\ u2.dialogs = u.dialogs /\ u2.flight = others
    BY <1>2 DEF GoodU
  <2> HIDE DEF u2
  <2>2. QED
    BY <1>7, <2>1, PutGood
<1>9. /\ v = [dialogs |-> v.dialogs, flight |-> v.flight]
      /\ v.dialogs = Put(u2, d, e).dialogs /\ v.flight = u.flight
  BY DEF Put
<1> HIDE DEF v, u2
<1>10. /\ d \in 1..Len(v.dialogs) /\ v.dialogs[d].phase # "deleted"
       /\ Len(v.dialogs) = Len(u.dialogs)
  BY <1>5, <1>8, <1>9
<1>11. CancelServerQuery(v.flight, d, "ping") = others
  BY <1>9 DEF others
<1>12. Good(v.dialogs, others)
  BY <1>8, <1>9 DEF GoodU
<1>13. GoodU(RequestInfo(v, d)) /\ RequestInfo(v, d).dialogs = v.dialogs
  BY <1>1, <1>9, <1>10, <1>11, <1>12, Asked
<1>14. QED
  BY <1>6, <1>10, <1>13

\* A living dialog asks for the players: the rows it has are of an earlier query.
LEMMA SendPlayersGood ==
    ASSUME NEW u, GoodU(u), NEW d \in 1..Len(u.dialogs), u.dialogs[d].phase # "deleted"
    PROVE  GoodU(SendPlayerQuery(u, d))
<1> DEFINE e == [u.dialogs[d] EXCEPT !.m_pPlayerList = Earlier(@),
                                     !.m_bPlayerListUpdatePending = TRUE]
           others == CancelServerQuery(u.flight, d, "players")
           asked == others \cup {Query(d, "players", FALSE)}
<1>1. others \subseteq u.flight /\ \A q \in others : ~(q.of = d /\ q.kind = "players")
  BY Cancelled DEF GoodU
<1>2. Good(u.dialogs, others)
  BY <1>1, FewerQueries DEF GoodU
<1>3. Good(u.dialogs, asked)
  <2> HIDE DEF others
  <2>1. QED
    BY <1>1, <1>2, OneMoreQuery
<1>4. GoodDialog(u.dialogs[d])
  BY DEF GoodU, Good
<1>5. GoodDialog(e)
  BY <1>4 DEF GoodDialog, Dialog, Earlier
<1>6. e.phase = u.dialogs[d].phase /\ e.m_bConnecting = u.dialogs[d].m_bConnecting
  BY <1>4 DEF GoodDialog, Dialog
<1>7. SendPlayerQuery(u, d) = [dialogs |-> [u.dialogs EXCEPT ![d] = e], flight |-> asked]
  <2>1. [u.dialogs EXCEPT ![d].m_pPlayerList = Earlier(@),
                          ![d].m_bPlayerListUpdatePending = TRUE]
          = [u.dialogs EXCEPT ![d] = e]
    BY <1>2 DEF Good
  <2>2. QED
    BY <2>1 DEF SendPlayerQuery
<1> DEFINE v == [dialogs |-> u.dialogs, flight |-> asked]
<1> HIDE DEF e, asked
<1>8. GoodU(v) /\ v.dialogs = u.dialogs /\ v.flight = asked
  BY <1>3 DEF GoodU
<1> HIDE DEF v
<1>9. MayBecome(v.flight, d, e)
  BY <1>5, <1>6, <1>8, SameForQueries
<1>10. GoodU(Put(v, d, e))
  BY <1>8, <1>9, PutGood
<1>11. SendPlayerQuery(u, d) = Put(v, d, e)
  BY <1>7, <1>8 DEF Put
<1>12. QED
  BY <1>10, <1>11

\* Closing all posts messages.
LEMMA CloseAllGood ==
    ASSUME NEW u, GoodU(u), NEW closed \in CloseAllGameInfoDialogs(u)
    PROVE  /\ GoodU(closed) /\ Len(closed.dialogs) = Len(u.dialogs)
           /\ closed.flight = u.flight
<1>1. PICK read \in SUBSET (DOMAIN u.dialogs) :
        closed = [u EXCEPT !.dialogs =
                   [d \in DOMAIN @ |->
                      IF d \in read THEN [@[d] EXCEPT !.closePosted = TRUE] ELSE @[d]]]
  BY DEF CloseAllGameInfoDialogs
<1> DEFINE dialogs == [d \in DOMAIN u.dialogs |->
                        IF d \in read THEN [u.dialogs[d] EXCEPT !.closePosted = TRUE]
                        ELSE u.dialogs[d]]
<1>2. /\ closed = [dialogs |-> dialogs, flight |-> u.flight]
      /\ closed.dialogs = dialogs /\ closed.flight = u.flight
  BY <1>1 DEF GoodU
<1>3. u.dialogs \in Seq(Dialog) /\ \A d \in 1..Len(u.dialogs) : GoodDialog(u.dialogs[d])
  BY DEF GoodU, Good
<1>4. DOMAIN u.dialogs = 1..Len(u.dialogs) /\ Len(u.dialogs) \in Nat
  BY <1>3
<1>5. ASSUME NEW d \in 1..Len(u.dialogs)
      PROVE  /\ GoodDialog(dialogs[d]) /\ dialogs[d].phase = u.dialogs[d].phase
             /\ dialogs[d].m_bConnecting = u.dialogs[d].m_bConnecting
  <2>1. GoodDialog(u.dialogs[d])
    BY <1>3
  <2>2. GoodDialog([u.dialogs[d] EXCEPT !.closePosted = TRUE])
    BY <2>1, FieldsOfDialog
  <2>3. /\ [u.dialogs[d] EXCEPT !.closePosted = TRUE].phase = u.dialogs[d].phase
        /\ [u.dialogs[d] EXCEPT !.closePosted = TRUE].m_bConnecting
             = u.dialogs[d].m_bConnecting
    BY <2>1 DEF GoodDialog, Dialog
  <2>4. QED
    BY <1>4, <2>1, <2>2, <2>3
<1>6. dialogs \in [1..Len(u.dialogs) -> Dialog]
  BY <1>4, <1>5 DEF GoodDialog
<1> HIDE DEF dialogs
<1>7. dialogs \in Seq(Dialog) /\ Len(dialogs) = Len(u.dialogs)
  BY <1>4, <1>6
<1>8. ASSUME NEW q \in u.flight
      PROVE  GoodQuery(dialogs, q)
  <2>1. GoodQuery(u.dialogs, q) /\ q.of \in 1..Len(u.dialogs)
    BY DEF GoodU, Good, GoodQuery, QueryOf
  <2>2. QED
    BY <1>5, <1>7, <2>1 DEF GoodQuery, QueryOf
<1>9. Good(dialogs, u.flight)
  BY <1>5, <1>7, <1>8 DEF GoodU, Good
<1>10. QED
  BY <1>2, <1>7, <1>9 DEF GoodU

\* A message Close is posted, or is delivered.
LEMMA PostedGood ==
    ASSUME NEW u, GoodU(u), NEW d \in 1..Len(u.dialogs)
    PROVE  /\ GoodU([u EXCEPT !.dialogs[d].closePosted = TRUE])
           /\ GoodU([u EXCEPT !.dialogs[d].closePosted = FALSE])
<1>1. ASSUME NEW posted \in BOOLEAN
      PROVE  GoodU([u EXCEPT !.dialogs[d].closePosted = posted])
  <2> DEFINE e == [u.dialogs[d] EXCEPT !.closePosted = posted]
  <2>1. GoodDialog(u.dialogs[d])
    BY DEF GoodU, Good
  <2>2. /\ GoodDialog(e) /\ e.phase = u.dialogs[d].phase
        /\ e.m_bConnecting = u.dialogs[d].m_bConnecting
    BY <2>1 DEF GoodDialog, Dialog
  <2>3. [u EXCEPT !.dialogs[d].closePosted = posted] = [u EXCEPT !.dialogs[d] = e]
    OBVIOUS
  <2> HIDE DEF e
  <2>4. MayBecome(u.flight, d, e)
    BY <2>2, SameForQueries
  <2>5. GoodU(Put(u, d, e)) /\ [u EXCEPT !.dialogs[d] = e] = Put(u, d, e)
    <3>1. GoodU(Put(u, d, e))
      BY <2>4, PutGood
    <3>2. [u EXCEPT !.dialogs[d] = e] = Put(u, d, e)
      BY PutIs
    <3>3. QED
      BY <3>1, <3>2
  <2>6. QED
    BY <2>3, <2>5
<1>2. QED
  BY <1>1

\* The user is offered to retry.
LEMMA OfferedGood ==
    ASSUME NEW u, GoodU(u), NEW d \in 1..Len(u.dialogs)
    PROVE  GoodU([u EXCEPT !.dialogs[d].m_bShowAutoRetryToggle = TRUE])
<1> DEFINE e == [u.dialogs[d] EXCEPT !.m_bShowAutoRetryToggle = TRUE]
<1>1. GoodDialog(u.dialogs[d])
  BY DEF GoodU, Good
<1>2. GoodDialog(e)
  BY <1>1, FieldsOfDialog
<1>3. e.phase = u.dialogs[d].phase /\ e.m_bConnecting = u.dialogs[d].m_bConnecting
  BY <1>1 DEF GoodDialog, Dialog
<1>4. [u EXCEPT !.dialogs[d].m_bShowAutoRetryToggle = TRUE] = [u EXCEPT !.dialogs[d] = e]
  OBVIOUS
<1> HIDE DEF e
<1>5. MayBecome(u.flight, d, e)
  BY <1>2, <1>3, SameForQueries
<1>6. GoodU(Put(u, d, e))
  BY <1>5, PutGood
<1>7. [u EXCEPT !.dialogs[d] = e] = Put(u, d, e)
  BY PutIs
<1>8. QED
  BY <1>4, <1>6, <1>7

\* The three ways an attempt to connect may end.
LEMMA ConnectToServerGood ==
    ASSUME NEW u, GoodU(u), NEW d \in 1..Len(u.dialogs), ConnectToServer(u, d)
    PROVE  Good(m_GameInfoDialogs', inFlight') /\ command' \in Servers \cup {None}
<1> DEFINE s == u.dialogs[d].server
           e == [u.dialogs[d] EXCEPT !.m_bConnecting = FALSE]
           tried == [u EXCEPT !.dialogs[d].m_bConnecting = FALSE]
<1>1. GoodDialog(u.dialogs[d])
  BY DEF GoodU, Good
<1>2. GoodDialog(e)
  BY <1>1, FieldsOfDialog
<1>3. e.phase = u.dialogs[d].phase /\ e.m_bConnecting = FALSE /\ s \in Servers
  BY <1>1 DEF GoodDialog, Dialog
<1>4. tried = [u EXCEPT !.dialogs[d] = e]
  OBVIOUS
<1>5. \/ s \in Banned /\ Becomes(Close(tried, d)) /\ command' = None
      \/ /\ s \notin Banned /\ s \notin hasRoom
         /\ Becomes([tried EXCEPT !.dialogs[d].m_bShowAutoRetryToggle = TRUE])
         /\ command' = None
      \/ /\ \E closed \in CloseAllGameInfoDialogs(Close(tried, d)) :
              Becomes([closed EXCEPT !.dialogs[d].closePosted = TRUE])
         /\ command' = s
  BY DEF ConnectToServer
<1> HIDE DEF e, tried, s
<1>6. tried = Put(u, d, e)
  BY <1>4, PutIs
<1>7. MayBecome(u.flight, d, e)
  BY <1>2, <1>3, SameForQueries
<1>8. GoodU(tried) /\ Len(tried.dialogs) = Len(u.dialogs) /\ d \in 1..Len(tried.dialogs)
  BY <1>6, <1>7, PutGood
<1>9. /\ GoodU(Close(tried, d)) /\ d \in 1..Len(Close(tried, d).dialogs)
  BY <1>8, ClosedGood
<1>10. CASE s \in Banned /\ Becomes(Close(tried, d)) /\ command' = None
  BY <1>9, <1>10 DEF Becomes, GoodU
<1>11. CASE /\ Becomes([tried EXCEPT !.dialogs[d].m_bShowAutoRetryToggle = TRUE])
            /\ command' = None
  <2>1. GoodU([tried EXCEPT !.dialogs[d].m_bShowAutoRetryToggle = TRUE])
    BY <1>8, OfferedGood
  <2>2. QED
    BY <1>11, <2>1 DEF Becomes, GoodU
<1>12. CASE /\ \E closed \in CloseAllGameInfoDialogs(Close(tried, d)) :
                Becomes([closed EXCEPT !.dialogs[d].closePosted = TRUE])
            /\ command' = s
  <2>1. PICK closed \in CloseAllGameInfoDialogs(Close(tried, d)) :
          Becomes([closed EXCEPT !.dialogs[d].closePosted = TRUE])
    BY <1>12
  <2>2. GoodU(closed) /\ d \in 1..Len(closed.dialogs)
    BY <1>9, CloseAllGood
  <2>3. GoodU([closed EXCEPT !.dialogs[d].closePosted = TRUE])
    BY <2>2, PostedGood
  <2>4. QED
    BY <1>3, <1>12, <2>1, <2>3 DEF Becomes, GoodU
<1>13. QED
  BY <1>5, <1>10, <1>11, <1>12

-----------------------------------------------------------------------------
(* The actions.                                                            *)

DialogsGood == Good(m_GameInfoDialogs, inFlight)

Rest ==
    /\ command \in Servers \cup {None}
    /\ hasRoom \subseteq Servers
    /\ acts \in 0..MaxActs

Inv == DialogsGood /\ Rest

LEMMA UiGood ==
    ASSUME DialogsGood
    PROVE  /\ GoodU(ui) /\ ui.dialogs = m_GameInfoDialogs /\ ui.flight = inFlight
           /\ Len(m_GameInfoDialogs) \in Nat
  BY DEF DialogsGood, GoodU, Good, ui

\* An answer to a query, and what is in flight after it.
LEMMA Answered ==
    ASSUME DialogsGood, NEW d \in Ids, NEW q \in inFlight, q.of = d,
           NEW answered,
           answered = [ui EXCEPT !.flight = inFlight \ {q}]
    PROVE  /\ GoodU(answered) /\ answered.dialogs = m_GameInfoDialogs
           /\ answered.dialogs[d].phase # "deleted"
<1>1. Good(m_GameInfoDialogs, inFlight \ {q})
  BY FewerQueries DEF DialogsGood
<1>2. /\ answered = [dialogs |-> m_GameInfoDialogs, flight |-> inFlight \ {q}]
      /\ answered.dialogs = m_GameInfoDialogs /\ answered.flight = inFlight \ {q}
  BY DEF ui
<1>3. m_GameInfoDialogs[d].phase # "deleted"
  BY DEF DialogsGood, Good, GoodQuery
<1>4. QED
  BY <1>1, <1>2, <1>3 DEF GoodU

LEMMA ServerRespondedGood ==
    ASSUME Inv, NEW d \in Ids, ServerResponded(d)
    PROVE  Inv'
<1>1. PICK q \in inFlight :
        LET dialog == m_GameInfoDialogs[d]
            answered == [ui EXCEPT !.flight = Forget(@ \ {q}, d, "ping")]
        IN  /\ q.of = d /\ q.kind = "ping"
            /\ \/ Becomes([ui EXCEPT !.flight = @ \ {q}]) /\ command' = None
               \/ ConnectToServer(answered, d)
               \/ Becomes(answered) /\ command' = None
               \/ Becomes(SendPlayerQuery(answered, d)) /\ command' = None
  BY DEF ServerResponded
<1> DEFINE answered == [ui EXCEPT !.flight = inFlight \ {q}]
<1>2. q.of = d /\ q.kind = "ping" /\ DialogsGood /\ Rest
  BY <1>1 DEF Inv
<1>3. Forget(inFlight \ {q}, d, "ping") = inFlight \ {q}
  BY <1>2, Forgotten DEF DialogsGood
<1>4. ui.flight = inFlight
  BY <1>2, UiGood
<1>5. /\ [ui EXCEPT !.flight = @ \ {q}] = answered
      /\ [ui EXCEPT !.flight = Forget(@ \ {q}, d, "ping")] = answered
  BY <1>3, <1>4
<1>6. \/ ConnectToServer(answered, d)
      \/ Becomes(answered) /\ command' = None
      \/ Becomes(SendPlayerQuery(answered, d)) /\ command' = None
  <2> HIDE DEF answered
  <2>1. QED
    BY <1>1, <1>5
<1>7. /\ GoodU(answered) /\ d \in 1..Len(answered.dialogs)
      /\ answered.dialogs[d].phase # "deleted"
  BY <1>2, Answered DEF Ids
<1> HIDE DEF answered
<1>8. Good(m_GameInfoDialogs', inFlight') /\ command' \in Servers \cup {None}
  <2>1. CASE ConnectToServer(answered, d)
    BY <1>7, <2>1, ConnectToServerGood
  <2>2. CASE Becomes(answered) /\ command' = None
    BY <1>7, <2>2 DEF Becomes, GoodU
  <2>3. CASE Becomes(SendPlayerQuery(answered, d)) /\ command' = None
    <3>1. GoodU(SendPlayerQuery(answered, d))
      BY <1>7, SendPlayersGood
    <3>2. QED
      BY <2>3, <3>1 DEF Becomes, GoodU
  <2>4. QED
    BY <1>6, <2>1, <2>2, <2>3
<1>9. UNCHANGED <<hasRoom, acts>>
  BY DEF ServerResponded
<1>10. QED
  BY <1>2, <1>8, <1>9 DEF Inv, DialogsGood, Rest

LEMMA QueryFailsGood ==
    ASSUME Inv, NEW d \in Ids, QueryFails(d)
    PROVE  Inv'
<1>1. PICK q \in inFlight : inFlight' = inFlight \ {q}
  BY DEF QueryFails
<1>2. Good(m_GameInfoDialogs, inFlight \ {q})
  BY FewerQueries DEF Inv, DialogsGood
<1>3. QED
  BY <1>1, <1>2 DEF QueryFails, Inv, DialogsGood, Rest

\* The first row of an answer replaces those there are.
LEMMA AddPlayerToListGood ==
    ASSUME Inv, NEW d \in Ids, AddPlayerToList(d)
    PROVE  Inv'
<1>1. PICK q \in inFlight :
        /\ q.of = d
        /\ LET dialog == m_GameInfoDialogs[d]
               row == IF q.held THEN "last" ELSE "earlier"
               rows == IF dialog.m_bPlayerListUpdatePending
                       THEN {} ELSE dialog.m_pPlayerList
           IN  m_GameInfoDialogs' =
                 [m_GameInfoDialogs EXCEPT ![d].m_pPlayerList = rows \cup {row},
                                           ![d].m_bPlayerListUpdatePending = FALSE]
  BY DEF AddPlayerToList
<1> DEFINE old == m_GameInfoDialogs[d]
           rows == IF old.m_bPlayerListUpdatePending THEN {} ELSE old.m_pPlayerList
           e == [old EXCEPT !.m_pPlayerList = rows \cup {"last"},
                            !.m_bPlayerListUpdatePending = FALSE]
<1>2. q.held = TRUE /\ GoodDialog(old) /\ m_GameInfoDialogs \in Seq(Dialog)
  BY DEF Inv, DialogsGood, Good, GoodQuery, Ids
<1>3. m_GameInfoDialogs' = [m_GameInfoDialogs EXCEPT ![d] = e]
  BY <1>1, <1>2 DEF Ids
<1>4. rows = {} \/ rows = {"last"}
  BY <1>2 DEF GoodDialog
<1>5. rows \cup {"last"} = {"last"}
  BY <1>4
<1>6. e = [old EXCEPT !.m_pPlayerList = {"last"}, !.m_bPlayerListUpdatePending = FALSE]
  BY <1>5
<1>7. /\ GoodDialog(e) /\ e.phase = old.phase
      /\ e.m_bConnecting = old.m_bConnecting
  <2> HIDE DEF e, rows
  <2>1. e \in Dialog /\ e.m_pPlayerList = {"last"}
    BY <1>2, <1>6 DEF GoodDialog, Dialog
  <2>2. /\ e.phase = old.phase /\ e.m_bConnecting = old.m_bConnecting
        /\ e.m_pAutoRetryJoin = old.m_pAutoRetryJoin /\ e.m_pAutoRetry = old.m_pAutoRetry
        /\ e.m_bShowAutoRetryToggle = old.m_bShowAutoRetryToggle
    BY <1>2, <1>6 DEF GoodDialog, Dialog
  <2> HIDE DEF old
  <2>3. QED
    BY <1>2, <2>1, <2>2 DEF GoodDialog
<1> HIDE DEF e, rows
<1>8. GoodU(ui) /\ ui.dialogs = m_GameInfoDialogs /\ ui.flight = inFlight
  BY UiGood DEF Inv
<1>9. MayBecome(inFlight, d, e)
  BY <1>7, <1>8, SameForQueries DEF Ids
<1>10. Good([m_GameInfoDialogs EXCEPT ![d] = e], inFlight)
  BY <1>9, ChangedDialog DEF Ids, Inv, DialogsGood
<1>11. QED
  BY <1>3, <1>10 DEF AddPlayerToList, Inv, DialogsGood, Rest

LEMMA PlayersRefreshCompleteGood ==
    ASSUME Inv, NEW d \in Ids, PlayersRefreshComplete(d)
    PROVE  Inv'
<1>1. PICK q \in inFlight :
        /\ q.of = d /\ q.kind = "players"
        /\ Becomes([ui EXCEPT !.flight = Forget(@ \ {q}, d, "players")])
  BY DEF PlayersRefreshComplete
<1>2. Forget(inFlight \ {q}, d, "players") = inFlight \ {q}
  BY <1>1, Forgotten DEF Inv, DialogsGood
<1>3. ui = [dialogs |-> m_GameInfoDialogs, flight |-> inFlight]
  BY DEF ui
<1>4. m_GameInfoDialogs' = m_GameInfoDialogs /\ inFlight' = inFlight \ {q}
  BY <1>1, <1>2, <1>3 DEF Becomes
<1>5. Good(m_GameInfoDialogs, inFlight \ {q})
  BY FewerQueries DEF Inv, DialogsGood
<1>6. QED
  BY <1>4, <1>5 DEF PlayersRefreshComplete, Inv, DialogsGood, Rest

LEMMA OnTickGood ==
    ASSUME Inv, NEW d \in Ids, OnTick(d)
    PROVE  Inv'
<1>1. GoodU(ui) /\ ui.dialogs = m_GameInfoDialogs /\ ui.dialogs[d].phase # "deleted"
  BY UiGood DEF Inv, OnTick, Alive
<1>2. GoodU(RequestInfo(ui, d))
  BY <1>1, RequestGood DEF Ids
<1>3. Becomes(RequestInfo(ui, d)) /\ command' = None /\ UNCHANGED <<hasRoom, acts>>
  BY DEF OnTick
<1>4. QED
  BY <1>2, <1>3 DEF Becomes, GoodU, Inv, DialogsGood, Rest

LEMMA CloseMessageGood ==
    ASSUME Inv, NEW d \in Ids, CloseMessage(d)
    PROVE  Inv'
<1>1. GoodU(ui) /\ d \in 1..Len(ui.dialogs)
  BY UiGood DEF Inv, Ids
<1>2. GoodU(Close(ui, d)) /\ d \in 1..Len(Close(ui, d).dialogs)
  BY <1>1, ClosedGood
<1>3. GoodU([Close(ui, d) EXCEPT !.dialogs[d].closePosted = FALSE])
  BY <1>2, PostedGood
<1>4. /\ Becomes([Close(ui, d) EXCEPT !.dialogs[d].closePosted = FALSE])
      /\ command' = None /\ UNCHANGED <<hasRoom, acts>>
  BY DEF CloseMessage
<1>5. QED
  BY <1>3, <1>4 DEF Becomes, GoodU, Inv, DialogsGood, Rest

\* The destructor cancels what the dialog asks, and may cancel more.
LEMMA DeletedGood ==
    ASSUME Inv, NEW d \in Ids, Deleted(d)
    PROVE  Inv'
<1> DEFINE pinged == CancelServerQuery(inFlight, d, "ping")
           others == CancelServerQuery(pinged, d, "players")
           e == NewDialog(m_GameInfoDialogs[d].server, "deleted")
<1>1. /\ inFlight' \in {others} \cup {others \ {q} : q \in others}
      /\ m_GameInfoDialogs' = [m_GameInfoDialogs EXCEPT ![d] = e]
      /\ command' = None /\ UNCHANGED <<hasRoom, acts>>
  BY DEF Deleted
<1>2. Good(m_GameInfoDialogs, inFlight)
  BY DEF Inv, DialogsGood
<1>3. pinged \subseteq inFlight /\ \A q \in pinged : ~(q.of = d /\ q.kind = "ping")
  BY <1>2, Cancelled
<1>4. Good(m_GameInfoDialogs, pinged)
  BY <1>2, <1>3, FewerQueries
<1> HIDE DEF pinged
<1>5. others \subseteq pinged /\ \A q \in others : ~(q.of = d /\ q.kind = "players")
  BY <1>4, Cancelled
<1>6. Good(m_GameInfoDialogs, others)
  BY <1>4, <1>5, FewerQueries
<1> HIDE DEF others
<1>7. inFlight' \in SUBSET others
  BY <1>1
<1>8. Good(m_GameInfoDialogs, inFlight')
  BY <1>6, <1>7, FewerQueries
<1>9. \A q \in inFlight' : q.of # d
  <2>1. \A q \in inFlight' : q.kind \in {"ping", "players"}
    BY <1>8 DEF Good, GoodQuery, QueryOf
  <2>2. QED
    BY <1>3, <1>5, <1>7, <2>1
<1>10. GoodDialog(e)
  <2>1. m_GameInfoDialogs[d].server \in Servers
    BY <1>2 DEF Good, GoodDialog, Dialog, Ids
  <2>2. QED
    BY <2>1 DEF GoodDialog, Dialog, NewDialog
<1> HIDE DEF e
<1>11. MayBecome(inFlight', d, e)
  BY <1>9, <1>10 DEF MayBecome
<1>12. Good([m_GameInfoDialogs EXCEPT ![d] = e], inFlight')
  BY <1>8, <1>11, ChangedDialog DEF Ids
<1>13. QED
  BY <1>1, <1>12 DEF Inv, DialogsGood, Rest

LEMMA ButtonGood ==
    ASSUME Inv, NEW d \in Ids, Button(d)
    PROVE  Inv'
<1>1. GoodU(ui) /\ ui.dialogs = m_GameInfoDialogs /\ d \in 1..Len(ui.dialogs)
  BY UiGood DEF Inv, Ids
<1>2. ui.dialogs[d].phase # "deleted"
  BY <1>1 DEF Button
<1>3. GoodU(OnConnect(ui, d)) /\ GoodU(RequestInfo(ui, d)) /\ GoodU(Close(ui, d))
  BY <1>1, <1>2, ConnectGood, RequestGood, ClosedGood
<1>4. \/ Becomes(OnConnect(ui, d))
      \/ Becomes(RequestInfo(ui, d))
      \/ Becomes(Close(ui, d))
  BY DEF Button
<1>5. Good(m_GameInfoDialogs', inFlight')
  BY <1>3, <1>4 DEF Becomes, GoodU
<1>6. command' = None /\ hasRoom' = hasRoom /\ acts < MaxActs /\ acts' = acts + 1
  BY DEF Button, Acts
<1>7. acts' \in 0..MaxActs
  BY <1>6, DialogAssumption DEF Inv, Rest
<1>8. QED
  BY <1>5, <1>6, <1>7 DEF Inv, DialogsGood, Rest

\* The auto-retry and its options depend on each other.
LEMMA OnButtonToggledGood ==
    ASSUME Inv, NEW d \in Ids, OnButtonToggled(d)
    PROVE  Inv'
<1> DEFINE old == m_GameInfoDialogs[d]
           e == [old EXCEPT !.m_pAutoRetry = ~old.m_pAutoRetry, !.m_pAutoRetryJoin = FALSE]
           f == [old EXCEPT !.m_pAutoRetryJoin = ~old.m_pAutoRetryJoin]
<1>1. GoodU(ui) /\ ui.dialogs = m_GameInfoDialogs /\ d \in 1..Len(ui.dialogs)
  BY UiGood DEF Inv, Ids
<1>2. GoodDialog(old) /\ m_GameInfoDialogs \in Seq(Dialog) /\ d \in 1..Len(m_GameInfoDialogs)
  BY DEF Inv, DialogsGood, Good, Ids
<1> SUFFICES Good(m_GameInfoDialogs', inFlight')
  <2>1. command' = None /\ UNCHANGED <<hasRoom, acts>>
    BY DEF OnButtonToggled
  <2>2. QED
    BY <2>1 DEF Inv, DialogsGood, Rest
<1>3. CASE /\ old.m_bShowAutoRetryToggle
           /\ Becomes([ui EXCEPT !.dialogs[d] = ShowAutoRetryOptions(@)])
  <2>1. [ui EXCEPT !.dialogs[d] = ShowAutoRetryOptions(@)] = Put(ui, d, e)
    <3>1. ShowAutoRetryOptions(old) = e
      BY DEF ShowAutoRetryOptions
    <3> HIDE DEF e
    <3>2. QED
      BY <3>1 DEF ui, Put
  <2>2. e.phase = old.phase /\ e.m_bConnecting = old.m_bConnecting
    BY <1>2 DEF GoodDialog, Dialog
  <2>3. GoodDialog(e)
    <3>1. /\ e \in Dialog /\ e.m_pPlayerList = old.m_pPlayerList
          /\ e.m_pAutoRetryJoin = FALSE
          /\ e.m_bShowAutoRetryToggle = old.m_bShowAutoRetryToggle
          /\ e.m_bPlayerListUpdatePending = old.m_bPlayerListUpdatePending
      BY <1>2 DEF GoodDialog, Dialog
    <3> HIDE DEF e
    <3>2. QED
      BY <1>2, <1>3, <3>1 DEF GoodDialog
  <2> HIDE DEF e
  <2>4. MayBecome(ui.flight, d, e)
    BY <1>1, <2>2, <2>3, SameForQueries
  <2>5. GoodU(Put(ui, d, e))
    BY <1>1, <2>4, PutGood
  <2>6. QED
    BY <1>3, <2>1, <2>5 DEF Becomes, GoodU
<1>4. CASE /\ old.m_pAutoRetry
           /\ Becomes([ui EXCEPT !.dialogs[d].m_pAutoRetryJoin = ~@])
  <2>1. [ui EXCEPT !.dialogs[d].m_pAutoRetryJoin = ~@] = Put(ui, d, f)
    BY <1>2 DEF ui, Put
  <2>2. f.phase = old.phase /\ f.m_bConnecting = old.m_bConnecting
    BY <1>2 DEF GoodDialog, Dialog
  <2>3. GoodDialog(f)
    <3>1. /\ f \in Dialog /\ f.m_pPlayerList = old.m_pPlayerList
          /\ f.m_pAutoRetry = old.m_pAutoRetry
          /\ f.m_bShowAutoRetryToggle = old.m_bShowAutoRetryToggle
          /\ f.m_bPlayerListUpdatePending = old.m_bPlayerListUpdatePending
      BY <1>2 DEF GoodDialog, Dialog
    <3> HIDE DEF f
    <3>2. QED
      BY <1>2, <1>4, <3>1 DEF GoodDialog
  <2> HIDE DEF f
  <2>4. MayBecome(ui.flight, d, f)
    BY <1>1, <2>2, <2>3, SameForQueries
  <2>5. GoodU(Put(ui, d, f))
    BY <1>1, <2>4, PutGood
  <2>6. QED
    BY <1>4, <2>1, <2>5 DEF Becomes, GoodU
<1>5. QED
  BY <1>3, <1>4 DEF OnButtonToggled

\* A new dialog pings at once.
LEMMA OpenedGood ==
    ASSUME Inv, NEW s \in Servers
    PROVE  GoodU(OpenGameInfoDialog(s))
<1> DEFINE new == NewDialog(s, "open")
           last == Len(m_GameInfoDialogs) + 1
           dialogs == Append(m_GameInfoDialogs, new)
           u == [ui EXCEPT !.dialogs = Append(@, new)]
<1>1. Good(m_GameInfoDialogs, inFlight) /\ Len(m_GameInfoDialogs) \in Nat
  BY UiGood DEF Inv, DialogsGood
<1>2. GoodDialog(new) /\ new.phase = "open"
  BY DEF GoodDialog, Dialog, NewDialog
<1>3. /\ u = [dialogs |-> dialogs, flight |-> inFlight]
      /\ u.dialogs = dialogs /\ u.flight = inFlight
  BY DEF ui
<1> HIDE DEF new
<1>4. /\ dialogs \in Seq(Dialog) /\ Len(dialogs) = last /\ dialogs[last] = new
      /\ \A d \in 1..Len(m_GameInfoDialogs) : dialogs[d] = m_GameInfoDialogs[d]
      /\ 1..last = 1..Len(m_GameInfoDialogs) \cup {last} /\ last \in 1..last
  BY <1>1, <1>2 DEF Good, GoodDialog
<1> HIDE DEF dialogs, last
<1>5. \A d \in 1..Len(dialogs) : GoodDialog(dialogs[d])
  BY <1>1, <1>2, <1>4 DEF Good
<1>6. ASSUME NEW q \in inFlight
      PROVE  GoodQuery(dialogs, q)
  <2>1. GoodQuery(m_GameInfoDialogs, q) /\ q.of \in 1..Len(m_GameInfoDialogs)
    BY <1>1 DEF Good, GoodQuery, QueryOf
  <2>2. q \in QueryOf(dialogs)
    BY <1>4, <2>1 DEF GoodQuery, QueryOf
  <2>3. QED
    BY <1>4, <2>1, <2>2 DEF GoodQuery
<1>7. GoodU(u)
  BY <1>1, <1>3, <1>4, <1>5, <1>6 DEF GoodU, Good
<1>8. last \in 1..Len(u.dialogs) /\ u.dialogs[last].phase # "deleted"
  BY <1>2, <1>3, <1>4
<1>9. OpenGameInfoDialog(s) = RequestInfo(u, last)
  BY DEF OpenGameInfoDialog, last, new
<1> HIDE DEF u
<1>10. GoodU(RequestInfo(u, last))
  BY <1>7, <1>8, RequestGood
<1>11. QED
  BY <1>9, <1>10

LEMMA OnViewGameInfoGood ==
    ASSUME Inv, NEW s \in Servers, OnViewGameInfo(s)
    PROVE  Inv'
<1>1. GoodU(OpenGameInfoDialog(s))
  BY OpenedGood
<1>2. /\ Becomes(OpenGameInfoDialog(s))
      /\ command' = None /\ UNCHANGED <<hasRoom, acts>>
  BY DEF OnViewGameInfo
<1>3. QED
  BY <1>1, <1>2 DEF Becomes, GoodU, Inv, DialogsGood, Rest

LEMMA OnBeginConnectGood ==
    ASSUME Inv, NEW s \in Servers, OnBeginConnect(s)
    PROVE  Inv'
<1> DEFINE opened == OpenGameInfoDialog(s)
<1>1. GoodU(opened)
  BY OpenedGood
<1>2. /\ command' = None /\ UNCHANGED <<hasRoom, acts>>
      /\ \/ Becomes(opened)
         \/ \E d \in GetDialogGameInfoForFriend(opened, s) :
              \E closed \in CloseAllGameInfoDialogs(OnConnect(opened, d)) :
                Becomes(closed)
  BY DEF OnBeginConnect
<1> HIDE DEF opened
<1>3. ASSUME NEW d \in GetDialogGameInfoForFriend(opened, s),
             NEW closed \in CloseAllGameInfoDialogs(OnConnect(opened, d))
      PROVE  GoodU(closed)
  <2>1. d \in 1..Len(opened.dialogs) /\ opened.dialogs[d].phase # "deleted"
    BY DEF GetDialogGameInfoForFriend, Alive
  <2>2. GoodU(OnConnect(opened, d))
    BY <1>1, <2>1, ConnectGood
  <2>3. QED
    BY <2>2, CloseAllGood
<1>4. Good(m_GameInfoDialogs', inFlight')
  BY <1>1, <1>2, <1>3 DEF Becomes, GoodU
<1>5. QED
  BY <1>2, <1>4 DEF Inv, DialogsGood, Rest

LEMMA CloseBrowserGood ==
    ASSUME Inv, CloseBrowser
    PROVE  Inv'
<1>1. PICK closed \in CloseAllGameInfoDialogs(ui) : Becomes(closed)
  BY DEF CloseBrowser
<1>2. GoodU(closed)
  BY UiGood, CloseAllGood DEF Inv
<1>3. command' = None /\ hasRoom' = hasRoom /\ acts < MaxActs /\ acts' = acts + 1
  BY DEF CloseBrowser, Acts
<1>4. acts' \in 0..MaxActs
  BY <1>3, DialogAssumption DEF Inv, Rest
<1>5. QED
  BY <1>1, <1>2, <1>3, <1>4 DEF Becomes, GoodU, Inv, DialogsGood, Rest

-----------------------------------------------------------------------------
(* The theorems.                                                           *)

LEMMA InitInv == Init => Inv
<1> SUFFICES ASSUME Init PROVE Inv
  OBVIOUS
<1>1. DialogsGood
  BY DEF Init, DialogsGood, Good, Alone
<1>2. Rest
  BY DialogAssumption DEF Init, Rest
<1>3. QED
  BY <1>1, <1>2 DEF Inv

LEMMA NextInv == Inv /\ [Next]_vars => Inv'
<1> SUFFICES ASSUME Inv, [Next]_vars PROVE Inv'
  OBVIOUS
<1>1. ASSUME NEW d \in Ids, ServerResponded(d) PROVE Inv'
  BY <1>1, ServerRespondedGood
<1>2. ASSUME NEW d \in Ids, QueryFails(d) PROVE Inv'
  BY <1>2, QueryFailsGood
<1>3. ASSUME NEW d \in Ids, AddPlayerToList(d) PROVE Inv'
  BY <1>3, AddPlayerToListGood
<1>4. ASSUME NEW d \in Ids, PlayersRefreshComplete(d) PROVE Inv'
  BY <1>4, PlayersRefreshCompleteGood
<1>5. ASSUME NEW d \in Ids, OnTick(d) PROVE Inv'
  BY <1>5, OnTickGood
<1>6. ASSUME NEW d \in Ids, CloseMessage(d) PROVE Inv'
  BY <1>6, CloseMessageGood
<1>7. ASSUME NEW d \in Ids, Deleted(d) PROVE Inv'
  BY <1>7, DeletedGood
<1>8. ASSUME NEW d \in Ids, Button(d) PROVE Inv'
  BY <1>8, ButtonGood
<1>9. ASSUME NEW d \in Ids, OnButtonToggled(d) PROVE Inv'
  BY <1>9, OnButtonToggledGood
<1>10. ASSUME NEW s \in Servers, OnViewGameInfo(s) PROVE Inv'
  BY <1>10, OnViewGameInfoGood
<1>11. ASSUME NEW s \in Servers, OnBeginConnect(s) PROVE Inv'
  BY <1>11, OnBeginConnectGood
<1>12. CASE CloseBrowser
  BY <1>12, CloseBrowserGood
<1>13. ASSUME NEW s \in Servers \ (Banned \cup OtherPort), RoomChanges(s) PROVE Inv'
  BY <1>13 DEF RoomChanges, Inv, DialogsGood, Rest
<1>14. CASE UNCHANGED vars
  BY <1>14 DEF vars, Inv, DialogsGood, Rest
<1>15. QED
  BY <1>1, <1>2, <1>3, <1>4, <1>5, <1>6, <1>7, <1>8, <1>9, <1>10, <1>11, <1>12, <1>13,
     <1>14 DEF Next

LEMMA InvHolds == Spec => []Inv
  BY InitInv, NextInv, PTL DEF Spec

\* Everything has its type, and the auto-retry is only on where it was offered.
THEOREM DialogsTypeCorrect == Spec => []TypeOK
<1>1. Inv => TypeOK
  <2> SUFFICES ASSUME Inv PROVE TypeOK
    OBVIOUS
  <2>1. m_GameInfoDialogs \in Seq(Dialog)
    BY DEF Inv, DialogsGood, Good
  <2>2. ASSUME NEW d \in Ids
        PROVE  /\ m_GameInfoDialogs[d].m_pAutoRetryJoin => m_GameInfoDialogs[d].m_pAutoRetry
               /\ m_GameInfoDialogs[d].m_pAutoRetry
                    => m_GameInfoDialogs[d].m_bShowAutoRetryToggle
    BY DEF Inv, DialogsGood, Good, GoodDialog, Ids
  <2>3. inFlight \subseteq QueryOf(m_GameInfoDialogs)
    BY DEF Inv, DialogsGood, Good, GoodQuery
  <2>4. QED
    BY <2>1, <2>2, <2>3 DEF Inv, Rest, TypeOK, QueryOf, Ids
<1>2. QED
  BY <1>1, InvHolds, PTL

\* No answer ever comes for a dialog that was deleted: the handles the dialogs keep are
\* those of all their queries (~CDialogGameInfo cancels what they name).
THEOREM NoAnswerToTheDead == Spec => []QueriesHaveDialogs
<1>1. Inv => QueriesHaveDialogs
  BY DEF Inv, DialogsGood, Good, GoodQuery, QueriesHaveDialogs, Alive, ui
<1>2. QED
  BY <1>1, InvHolds, PTL

\* A list of players is never made of two answers (AddPlayerToList).
THEOREM RowsAgree == Spec => []RowsOfOneAnswer
<1>1. Inv => RowsOfOneAnswer
  <2> SUFFICES ASSUME Inv, NEW d \in Ids
               PROVE  Cardinality(m_GameInfoDialogs[d].m_pPlayerList) <= 1
    BY DEF RowsOfOneAnswer
  <2> DEFINE rows == m_GameInfoDialogs[d].m_pPlayerList
  <2>1. rows = {} \/ rows = {"last"} \/ rows = {"earlier"}
    BY DEF Inv, DialogsGood, Good, GoodDialog, Ids
  <2>2. Cardinality({}) = 0
    BY FS_EmptySet
  <2>3. Cardinality({"last"}) = 1 /\ Cardinality({"earlier"}) = 1
    BY FS_Singleton
  <2>4. QED
    BY <2>1, <2>2, <2>3
<1>2. QED
  BY <1>1, InvHolds, PTL

\* What an attempt to connect leaves in flight, and whom it may have connected to.
LEMMA ConnectToServerTells ==
    ASSUME NEW u, GoodU(u), NEW d \in 1..Len(u.dialogs), ConnectToServer(u, d)
    PROVE  /\ inFlight' = u.flight
           /\ command' # None => u.dialogs[d].server \in hasRoom
<1> DEFINE e == [u.dialogs[d] EXCEPT !.m_bConnecting = FALSE]
           tried == [u EXCEPT !.dialogs[d].m_bConnecting = FALSE]
<1>1. GoodDialog(u.dialogs[d])
  BY DEF GoodU, Good
<1>2. GoodDialog(e) /\ e.phase = u.dialogs[d].phase /\ e.m_bConnecting = FALSE
  <2>1. GoodDialog(e)
    BY <1>1, FieldsOfDialog
  <2>2. e.phase = u.dialogs[d].phase /\ e.m_bConnecting = FALSE
    BY <1>1 DEF GoodDialog, Dialog
  <2>3. QED
    BY <2>1, <2>2
<1>3. tried = [u EXCEPT !.dialogs[d] = e]
  OBVIOUS
<1>4. \/ Becomes(Close(tried, d)) /\ command' = None
      \/ /\ Becomes([tried EXCEPT !.dialogs[d].m_bShowAutoRetryToggle = TRUE])
         /\ command' = None
      \/ /\ u.dialogs[d].server \in hasRoom
         /\ \E closed \in CloseAllGameInfoDialogs(Close(tried, d)) :
              Becomes([closed EXCEPT !.dialogs[d].closePosted = TRUE])
  BY DEF ConnectToServer
<1> HIDE DEF e, tried
<1>5. MayBecome(u.flight, d, e)
  BY <1>2, SameForQueries
<1>6. /\ GoodU(tried) /\ d \in 1..Len(tried.dialogs)
      /\ tried.flight = u.flight
  <2>1. tried = Put(u, d, e)
    BY <1>3, PutIs
  <2>2. QED
    BY <1>5, <2>1, PutGood
<1>7. /\ GoodU(Close(tried, d)) /\ Close(tried, d).flight = u.flight
  BY <1>6, ClosedGood
<1>8. ASSUME NEW closed \in CloseAllGameInfoDialogs(Close(tried, d)),
             Becomes([closed EXCEPT !.dialogs[d].closePosted = TRUE])
      PROVE  inFlight' = u.flight
  <2>1. GoodU(closed) /\ closed.flight = u.flight
    BY <1>7, CloseAllGood
  <2>2. [closed EXCEPT !.dialogs[d].closePosted = TRUE].flight = closed.flight
    BY <2>1 DEF GoodU
  <2>3. QED
    BY <1>8, <2>1, <2>2 DEF Becomes
<1>9. [tried EXCEPT !.dialogs[d].m_bShowAutoRetryToggle = TRUE].flight = tried.flight
  BY <1>6 DEF GoodU
<1>10. QED
  BY <1>4, <1>6, <1>7, <1>8, <1>9 DEF Becomes

\* A dialog that was told to join connects on an answer to a ping sent after that, and
\* only if there is room (OnConnect asks again, CDialogGameInfo.cpp:363).
THEOREM JoinsOnFreshAnswer == Spec => ConnectsOnFreshAnswer
<1>1. ASSUME Inv, [Next]_vars, NEW q \in inFlight, AnswersJoin(q)
      PROVE  q.connecting /\ m_GameInfoDialogs[q.of].server \in hasRoom
  <2>1. /\ q \notin inFlight' /\ q.kind = "ping"
        /\ m_GameInfoDialogs[q.of].m_bConnecting /\ command' # None
    BY <1>1 DEF AnswersJoin
  <2>2. GoodQuery(m_GameInfoDialogs, q) /\ GoodDialog(m_GameInfoDialogs[q.of])
    BY <1>1 DEF Inv, DialogsGood, Good, GoodQuery, QueryOf
  <2>3. q.connecting = TRUE
    <3>1. m_GameInfoDialogs[q.of].m_bConnecting = TRUE
      BY <2>1, <2>2 DEF GoodDialog, Dialog
    <3>2. QED
      BY <2>1, <2>2, <3>1 DEF GoodQuery
  <2>4. PICK d \in Ids : ServerResponded(d)
    <3>1. ~UNCHANGED vars
      BY <2>1 DEF vars
    <3>2. QED
      BY <1>1, <2>1, <3>1 DEF Next, QueryFails, AddPlayerToList, PlayersRefreshComplete,
         OnTick, CloseMessage, Deleted, Button, OnButtonToggled, OnViewGameInfo,
         OnBeginConnect, CloseBrowser, RoomChanges
  <2>5. PICK r \in inFlight :
          /\ r.of = d /\ r.kind = "ping"
          /\ \/ command' = None
             \/ ConnectToServer([ui EXCEPT !.flight = Forget(@ \ {r}, d, "ping")], d)
    BY <2>4 DEF ServerResponded
  <2> DEFINE answered == [ui EXCEPT !.flight = inFlight \ {r}]
  <2>6. DialogsGood
    BY <1>1 DEF Inv
  <2>7. Forget(inFlight \ {r}, d, "ping") = inFlight \ {r}
    BY <2>5, <2>6, Forgotten DEF DialogsGood
  <2>8. ui.flight = inFlight
    BY DEF ui
  <2>9. [ui EXCEPT !.flight = Forget(@ \ {r}, d, "ping")] = answered
    BY <2>7, <2>8
  <2>10. answered.flight = inFlight \ {r}
    BY DEF ui
  <2> HIDE DEF answered
  <2>11. ConnectToServer(answered, d)
    BY <2>1, <2>5, <2>9
  <2>12. GoodU(answered) /\ answered.dialogs = m_GameInfoDialogs
    BY <2>5, <2>6, Answered DEF answered
  <2>13. /\ inFlight' = inFlight \ {r}
         /\ m_GameInfoDialogs[d].server \in hasRoom
    BY <2>1, <2>10, <2>11, <2>12, ConnectToServerTells DEF Ids
  <2>14. q = r
    BY <2>1, <2>13
  <2>15. QED
    BY <2>3, <2>5, <2>13, <2>14
<1>2. Inv /\ [Next]_vars =>
        [\A q \in inFlight : AnswersJoin(q) =>
           q.connecting /\ m_GameInfoDialogs[q.of].server \in hasRoom]_vars
  BY <1>1
<1>3. QED
  BY <1>2, InvHolds, PTL DEF Spec, ConnectsOnFreshAnswer

-----------------------------------------------------------------------------
(* Why nobody waits for ever: the part that needs no fairness.             *)

\* However often a dialog asks, and however long its server is silent, it has at most
\* one ping and one query for players out.
OneQueryOfAKind ==
    \A q, r \in inFlight : q.of = r.of /\ q.kind = r.kind => q = r

\* RequestInfo and SendPlayerQuery cancel what they asked before
\* (CDialogGameInfo.cpp:111, 433).
THEOREM QueriesDoNotPileUp == Spec => []OneQueryOfAKind
<1>1. Inv => OneQueryOfAKind
  BY DEF Inv, DialogsGood, Good, Alone, OneQueryOfAKind
<1>2. QED
  BY <1>1, InvHolds, PTL

\* An answer ends the wait of its dialog, whatever it says.
AnswerEndsWait ==
    [][\A d \in Ids : ServerResponded(d) /\ Waits(d) => ~Waits(d)']_vars

\* An attempt to connect ends with the dialog closed, or with the user told that there
\* is no room.
LEMMA ConnectToServerEnds ==
    ASSUME NEW u, GoodU(u), NEW d \in 1..Len(u.dialogs), ConnectToServer(u, d)
    PROVE  \/ m_GameInfoDialogs'[d].phase # "open"
           \/ /\ m_GameInfoDialogs'[d].m_bConnecting = FALSE
              /\ m_GameInfoDialogs'[d].server \notin hasRoom
<1> DEFINE e == [u.dialogs[d] EXCEPT !.m_bConnecting = FALSE]
           tried == [u EXCEPT !.dialogs[d].m_bConnecting = FALSE]
           told == [tried EXCEPT !.dialogs[d].m_bShowAutoRetryToggle = TRUE]
           posted(c) == [c EXCEPT !.dialogs[d].closePosted = TRUE]
<1>1. GoodDialog(u.dialogs[d])
  BY DEF GoodU, Good
<1>2. /\ GoodDialog(e) /\ e.phase = u.dialogs[d].phase /\ e.m_bConnecting = FALSE
      /\ e.server = u.dialogs[d].server
  <2>1. GoodDialog(e)
    BY <1>1, FieldsOfDialog
  <2>2. /\ e.phase = u.dialogs[d].phase /\ e.m_bConnecting = FALSE
        /\ e.server = u.dialogs[d].server
    BY <1>1 DEF GoodDialog, Dialog
  <2>3. QED
    BY <2>1, <2>2
<1>3. tried = [u EXCEPT !.dialogs[d] = e]
  OBVIOUS
<1>4. \/ Becomes(Close(tried, d))
      \/ u.dialogs[d].server \notin hasRoom /\ Becomes(told)
      \/ \E c \in CloseAllGameInfoDialogs(Close(tried, d)) : Becomes(posted(c))
  BY DEF ConnectToServer
<1> HIDE DEF e, tried
<1>5. MayBecome(u.flight, d, e)
  BY <1>2, SameForQueries
<1>6. /\ GoodU(tried) /\ d \in 1..Len(tried.dialogs) /\ tried.dialogs[d] = e
  <2>1. tried = Put(u, d, e)
    BY <1>3, PutIs
  <2>2. QED
    BY <1>5, <2>1, PutGood
<1>7. /\ GoodU(Close(tried, d)) /\ d \in 1..Len(Close(tried, d).dialogs)
      /\ Close(tried, d).dialogs[d].phase # "open"
  <2>1. GoodU(Close(tried, d)) /\ Len(Close(tried, d).dialogs) = Len(tried.dialogs)
    BY <1>6, ClosedGood
  <2> DEFINE shut == [e EXCEPT !.phase = IF @ = "open" THEN "closing" ELSE @]
  <2>2. shut.phase # "open"
    BY <1>2 DEF GoodDialog, Dialog
  <2>3. Close(tried, d) = [tried EXCEPT !.dialogs[d] = shut]
    BY <1>6 DEF Close
  <2> HIDE DEF shut
  <2>4. Close(tried, d).dialogs = [tried.dialogs EXCEPT ![d] = shut]
    BY <1>6, <2>3 DEF GoodU
  <2>5. DOMAIN tried.dialogs = 1..Len(tried.dialogs)
    BY <1>6 DEF GoodU, Good
  <2>6. QED
    BY <1>6, <2>1, <2>2, <2>4, <2>5
<1>8. CASE Becomes(Close(tried, d))
  BY <1>7, <1>8 DEF Becomes
<1>9. CASE u.dialogs[d].server \notin hasRoom /\ Becomes(told)
  <2> DEFINE f == [e EXCEPT !.m_bShowAutoRetryToggle = TRUE]
  <2>1. f.m_bConnecting = FALSE /\ f.server = u.dialogs[d].server
    BY <1>2 DEF GoodDialog, Dialog
  <2>2. told = [tried EXCEPT !.dialogs[d] = f]
    BY <1>6
  <2> HIDE DEF f, told
  <2>3. told.dialogs = [tried.dialogs EXCEPT ![d] = f]
    BY <1>6, <2>2 DEF GoodU
  <2>4. told.dialogs[d] = f
    BY <1>6, <2>3 DEF GoodU, Good
  <2>5. QED
    BY <1>9, <2>1, <2>4 DEF Becomes
<1>10. ASSUME NEW c \in CloseAllGameInfoDialogs(Close(tried, d)), Becomes(posted(c))
       PROVE  m_GameInfoDialogs'[d].phase # "open"
  <2> DEFINE shut == Close(tried, d)
  <2>1. /\ GoodU(shut) /\ d \in 1..Len(shut.dialogs) /\ shut.dialogs[d].phase # "open"
        /\ c \in CloseAllGameInfoDialogs(shut)
    BY <1>7, <1>10
  <2> HIDE DEF shut
  <2>2. GoodU(c) /\ Len(c.dialogs) = Len(shut.dialogs)
    BY <2>1, CloseAllGood
  <2>3. c.dialogs[d] = shut.dialogs[d]
    <3>1. DOMAIN shut.dialogs = 1..Len(shut.dialogs)
      BY <2>1 DEF GoodU, Good
    <3>2. PICK read \in SUBSET {n \in DOMAIN shut.dialogs : shut.dialogs[n].phase = "open"} :
            c = [shut EXCEPT !.dialogs =
                  [n \in DOMAIN @ |->
                     IF n \in read THEN [@[n] EXCEPT !.closePosted = TRUE] ELSE @[n]]]
      BY <2>1 DEF CloseAllGameInfoDialogs
    <3>3. c.dialogs = [n \in DOMAIN shut.dialogs |->
                        IF n \in read THEN [shut.dialogs[n] EXCEPT !.closePosted = TRUE]
                        ELSE shut.dialogs[n]]
      BY <2>1, <3>2 DEF GoodU
    <3>4. d \notin read /\ d \in DOMAIN shut.dialogs
      BY <2>1, <3>1
    <3>5. QED
      BY <3>3, <3>4
  <2> DEFINE f == [c.dialogs[d] EXCEPT !.closePosted = TRUE]
  <2>4. f.phase = c.dialogs[d].phase
    <3>1. GoodDialog(c.dialogs[d])
      BY <2>1, <2>2 DEF GoodU, Good
    <3>2. QED
      BY <3>1 DEF GoodDialog, Dialog
  <2>5. posted(c) = [c EXCEPT !.dialogs[d] = f]
    OBVIOUS
  <2> HIDE DEF f, posted
  <2>6. posted(c).dialogs = [c.dialogs EXCEPT ![d] = f]
    BY <2>2, <2>5 DEF GoodU
  <2>7. posted(c).dialogs[d] = f
    BY <2>1, <2>2, <2>6 DEF GoodU, Good
  <2>8. QED
    BY <1>10, <2>1, <2>3, <2>4, <2>7 DEF Becomes
<1>11. QED
  BY <1>4, <1>8, <1>9, <1>10

\* The tick asks again as long as a dialog is open; then this is all it takes
\* (CDialogGameInfo.cpp:460-488 ServerResponded, 505-564 ConnectToServer).
THEOREM AnswersEndWaiting == Spec => AnswerEndsWait
<1>1. ASSUME Inv, NEW d \in Ids, ServerResponded(d), Waits(d)
      PROVE  ~Waits(d)'
  <2>1. PICK q \in inFlight :
          /\ q.of = d /\ q.kind = "ping" /\ hasRoom' = hasRoom
          /\ ConnectToServer([ui EXCEPT !.flight = Forget(@ \ {q}, d, "ping")], d)
    BY <1>1 DEF ServerResponded, Waits
  <2> DEFINE answered == [ui EXCEPT !.flight = inFlight \ {q}]
  <2>2. DialogsGood
    BY <1>1 DEF Inv
  <2>3. Forget(inFlight \ {q}, d, "ping") = inFlight \ {q}
    BY <2>1, <2>2, Forgotten DEF DialogsGood
  <2>4. ui.flight = inFlight
    BY DEF ui
  <2>5. [ui EXCEPT !.flight = Forget(@ \ {q}, d, "ping")] = answered
    BY <2>3, <2>4
  <2> HIDE DEF answered
  <2>6. GoodU(answered) /\ answered.dialogs = m_GameInfoDialogs
    BY <2>1, <2>2, Answered DEF answered
  <2>7. \/ m_GameInfoDialogs'[d].phase # "open"
        \/ /\ m_GameInfoDialogs'[d].m_bConnecting = FALSE
           /\ m_GameInfoDialogs'[d].server \notin hasRoom'
    BY <2>1, <2>5, <2>6, ConnectToServerEnds DEF Ids
  <2>8. QED
    BY <2>7, Zenon DEF Waits
<1>2. Inv /\ [Next]_vars => [\A d \in Ids : ServerResponded(d) /\ Waits(d) => ~Waits(d)']_vars
  BY <1>1
<1>3. QED
  BY <1>2, InvHolds, PTL DEF Spec, AnswerEndsWait

=============================================================================
