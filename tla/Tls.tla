-------------------------------- MODULE Tls --------------------------------
(***************************************************************************)
(* The TLS 1.3 client (crates/otter-tls/src/conn.rs) between the agent's   *)
(* transport and a server, over TCP in both directions.  The server is     *)
(* either one that follows RFC 8446, or one that answers with anything.    *)
(*                                                                         *)
(* Cryptography is ideal: a traffic key is its place in the key schedule   *)
(* (Plain, then handshake, then one application key after the other), a    *)
(* record opens under the key and the number it was sealed with, and a     *)
(* hash of the transcript is the transcript.  A handshake message is a     *)
(* head and a tail, so that a record may end in the middle of one.         *)
(***************************************************************************)
EXTENDS Naturals, Sequences, SequencesExt, FiniteSets

CONSTANTS
    Suites,     \* cipher suites both sides know
    MaxPieces,  \* bound: heads and tails in one record
    MaxWire,    \* bound: records on their way, each direction
    MaxPosts,   \* bound: what each side sends of its own accord once it may
    MaxRecords  \* bound: records of the server that answers with anything

VARIABLES
    conn,       \* ClientConnection, with the events and messages it produced
    srv,        \* the server
    toServer, toClient

tlsVars == <<conn, srv, toServer, toClient>>

Plain == 0
Handshake == 1
Application == 2    \* the first application key; a key update adds one

Record(type, key, seq, body) == [type |-> type, key |-> key, seq |-> seq, body |-> body]
Ccs == Record("ccs", Plain, 0, <<>>)
\* arg: a suite, "ok", "bad", or what a KeyUpdate requests; over: the transcript a
\* signature or MAC is over.
Message(type, arg, over) == [type |-> type, arg |-> arg, over |-> over]
Pieces(m) == <<[msg |-> m, part |-> "head"], [msg |-> m, part |-> "tail"]>>
PiecesOf(ms) == FlattenSeq([i \in DOMAIN ms |-> Pieces(ms[i])])

\* TrafficKeys::seal and open; a new key starts its numbers from 0.
KeyAt(n) == [key |-> n, seq |-> 0]
Counted(k) == IF k.key = Plain THEN k ELSE [k EXCEPT !.seq = @ + 1]
Opens(k, r) == r.key = k.key /\ r.seq = k.seq

\* queue_content.
Queue(c, type, body) ==
    [c EXCEPT !.outgoing = Append(@, Record(type, c.write.key, c.write.seq, body)), !.write = Counted(@)]
QueueHandshake(c, m) == Queue(c, "handshake", Pieces(m))
Alert(what) == Pieces(Message("alert", what, <<>>))
\* queue_alert and queue_change_cipher_spec.
QueueAlert(c, what) == Queue(c, "alert", Alert(what))
QueueCcs(c) == [c EXCEPT !.outgoing = Append(@, Ccs)]

ClientHello == Message("ClientHello", "ok", <<>>)
\* ClientConnection::new.
NewConnection ==
    QueueCcs(QueueHandshake(
        [state |-> "WaitServerHello", closed |-> FALSE, failed |-> FALSE,
         suite |-> "none", hrrSeen |-> FALSE, transcript |-> <<"ClientHello">>,
         read |-> KeyAt(Plain), write |-> KeyAt(Plain),
         reassembly |-> <<>>, outgoing |-> <<>>,
         checked |-> {}, events |-> <<>>, sent |-> <<>>], ClientHello))

NewServer(honest) ==
    [honest |-> honest, failed |-> FALSE, retried |-> FALSE, hello |-> FALSE,
     suite |-> "none", transcript |-> <<>>, read |-> KeyAt(Plain), sealed |-> KeyAt(Plain),
     next |-> Plain, todo |-> <<>>, sent |-> <<>>, got |-> <<>>, posts |-> 0]

TlsInit ==
    /\ conn = NewConnection
    /\ srv \in {NewServer(honest) : honest \in BOOLEAN}
    /\ toServer = <<>> /\ toClient = <<>>

-----------------------------------------------------------------------------
(* The client's handlers, on the connection c. *)

Fail(c) == [QueueAlert(c, "fatal") EXCEPT !.closed = TRUE, !.failed = TRUE, !.state = "Closed"]
Heard(c, m) == [c EXCEPT !.transcript = Append(@, m.type)]
Check(c, m) == [c EXCEPT !.checked = @ \cup {m.type}]

\* HelloRetryRequest: once; ClientHello1 is replaced by its hash.
OnHelloRetryRequest(c, m) ==
    IF c.hrrSeen \/ m.arg \notin Suites THEN Fail([c EXCEPT !.hrrSeen = TRUE])
    ELSE QueueCcs(QueueHandshake(
           [c EXCEPT !.hrrSeen = TRUE, !.suite = m.arg,
                     !.transcript = <<"message_hash", "HelloRetryRequest", "ClientHello">>],
           ClientHello))
OnServerHello(c, m) ==
    IF m.arg \notin Suites \/ (c.suite # "none" /\ c.suite # m.arg) THEN Fail(c)
    ELSE [Heard(c, m) EXCEPT !.suite = m.arg, !.state = "WaitEncryptedExtensions",
                             !.read = KeyAt(Handshake), !.write = KeyAt(Handshake)]
OnEncryptedExtensions(c, m) ==
    IF m.arg = "bad" THEN Fail(c) ELSE [Heard(c, m) EXCEPT !.state = "WaitCertificate"]
OnCertificate(c, m) ==
    IF m.arg = "bad" THEN Fail(c)
    ELSE [Heard(Check(c, m), m) EXCEPT !.state = "WaitCertificateVerify"]
OnCertificateVerify(c, m) ==
    IF m.arg = "bad" \/ m.over # c.transcript THEN Fail(c)
    ELSE [Heard(Check(c, m), m) EXCEPT !.state = "WaitServerFinished"]
\* A plausible slip: the keys change, then the client's Finished is queued.
OnServerFinished_Late(c, m) ==
    IF m.arg = "bad" \/ m.over # c.transcript THEN Fail(c)
    ELSE LET h == Heard(Check(c, m), m)
             k == [h EXCEPT !.read = KeyAt(Application), !.write = KeyAt(Application)]
             q == QueueHandshake(k, Message("Finished", "ok", h.transcript))
         IN  [q EXCEPT !.transcript = Append(@, "Finished"), !.state = "Connected",
                       !.events = Append(@, "complete")]
\* The client's Finished goes out under the handshake key, then the keys change.
OnServerFinished(c, m) ==
    IF m.arg = "bad" \/ m.over # c.transcript THEN Fail(c)
    ELSE LET h == Heard(Check(c, m), m)
             q == QueueHandshake(h, Message("Finished", "ok", h.transcript))
         IN  [q EXCEPT !.transcript = Append(@, "Finished"), !.state = "Connected",
                       !.read = KeyAt(Application), !.write = KeyAt(Application),
                       !.events = Append(@, "complete")]
\* The answer to a KeyUpdate goes out under the old key.
OnKeyUpdate(c, m) ==
    LET r == [c EXCEPT !.read = KeyAt(@.key + 1)]
        q == QueueHandshake(r, Message("KeyUpdate", "not requested", <<>>))
    IN  IF m.arg = "bad" THEN Fail(c)
        ELSE IF m.arg = "requested" THEN [q EXCEPT !.write = KeyAt(@.key + 1)] ELSE r

OnHandshakeMessage(c, m) ==
    CASE c.state = "Connected" /\ m.type = "NewSessionTicket" -> c
      [] c.state = "Connected" /\ m.type = "KeyUpdate" -> OnKeyUpdate(c, m)
      [] c.state = "WaitServerHello" /\ m.type = "HelloRetryRequest" -> OnHelloRetryRequest(c, m)
      [] c.state = "WaitServerHello" /\ m.type = "ServerHello" -> OnServerHello(c, m)
      [] c.state = "WaitEncryptedExtensions" /\ m.type = "EncryptedExtensions" -> OnEncryptedExtensions(c, m)
      [] c.state = "WaitCertificate" /\ m.type = "Certificate" -> OnCertificate(c, m)
      [] c.state = "WaitCertificateVerify" /\ m.type = "CertificateVerify" -> OnCertificateVerify(c, m)
      [] c.state = "WaitServerFinished" /\ m.type = "Finished" -> OnServerFinished(c, m)
      [] OTHER -> Fail(c)

\* on_handshake_bytes: what is complete is handled, up to the first failure; a head with
\* no tail waits for the next record, whatever keys are in use then.
OnHandshakeBytes(c, body) ==
    LET bytes == c.reassembly \o body
        whole == Len(bytes) \div 2
        rest  == SubSeq(bytes, 2 * whole + 1, Len(bytes))
        Step(d, i) == IF d.failed THEN d ELSE OnHandshakeMessage(d, bytes[2 * i].msg)
    IN  FoldLeft(Step, [c EXCEPT !.reassembly = rest], [i \in 1 .. whole |-> i])

\* on_alert_bytes: close_notify is an event and no more; a fatal alert ends the
\* connection and leaves the state.
OnAlertBytes(c, body) ==
    LET what == body[1].msg.arg
    IN  [c EXCEPT !.events = Append(@, what), !.closed = @ \/ what = "fatal"]

\* pump_one_record.
PumpOneRecord(c, r) ==
    LET o == [c EXCEPT !.read = Counted(@)]
    IN  CASE r.type = "ccs" -> c
          [] r.type # "ccs" /\ ~Opens(c.read, r) -> Fail(c)
          [] r.type = "data" /\ Opens(c.read, r) ->
               IF c.state = "Connected" THEN [o EXCEPT !.events = Append(@, "data")] ELSE Fail(o)
          [] r.type = "alert" /\ Opens(c.read, r) -> OnAlertBytes(o, r.body)
          [] r.type = "handshake" /\ Opens(c.read, r) -> OnHandshakeBytes(o, r.body)

Process ==
    /\ toClient # <<>> /\ ~conn.closed
    /\ conn' = PumpOneRecord(conn, Head(toClient))
    /\ toClient' = Tail(toClient)
    /\ UNCHANGED <<srv, toServer>>
\* take_outgoing, and the transport's write.
TakeOutgoing ==
    /\ conn.outgoing # <<>> /\ Len(toServer) < MaxWire
    /\ toServer' = Append(toServer, Head(conn.outgoing))
    /\ conn' = [conn EXCEPT !.outgoing = Tail(@)]
    /\ UNCHANGED <<srv, toClient>>
\* send, of one record's worth or more.
TlsSend ==
    /\ ~conn.closed /\ conn.state = "Connected" /\ Len(conn.sent) < MaxPosts
    /\ conn' = Queue([conn EXCEPT !.sent = Append(@, "data")], "data", <<>>)
    /\ UNCHANGED <<srv, toServer, toClient>>
TlsClose ==
    /\ ~conn.closed
    /\ conn' = [QueueAlert(conn, "close_notify") EXCEPT !.closed = TRUE]
    /\ UNCHANGED <<srv, toServer, toClient>>

-----------------------------------------------------------------------------
(* The server that follows the RFC.  Its handshake bytes wait in todo, each with the key *)
(* it is to be sealed with, and leave in records of any size.                            *)

Todo(s, key, ms) == [s EXCEPT !.todo = @ \o [i \in 1 .. 2 * Len(ms) |-> [key |-> key, piece |-> PiecesOf(ms)[i]]]]

ServerRetries ==
    /\ ~srv.hello /\ ~srv.retried
    /\ \E suite \in Suites :
         srv' = Todo([srv EXCEPT !.retried = TRUE, !.suite = suite, !.read = Counted(@),
                                 !.transcript = <<"message_hash", "HelloRetryRequest">>],
                     Plain, <<Message("HelloRetryRequest", suite, <<>>)>>)
ServerFlight ==
    \E suite \in IF srv.suite = "none" THEN Suites ELSE {srv.suite} :
        LET t1 == srv.transcript \o <<"ClientHello", "ServerHello", "EncryptedExtensions", "Certificate">>
            t2 == Append(t1, "CertificateVerify")
            s1 == Todo([srv EXCEPT !.hello = TRUE, !.suite = suite, !.read = KeyAt(Handshake),
                                   !.transcript = Append(t2, "Finished"), !.next = Application],
                       Plain, <<Message("ServerHello", suite, <<>>)>>)
        IN  srv' = Todo(s1, Handshake,
                        <<Message("EncryptedExtensions", "ok", <<>>), Message("Certificate", "ok", <<>>),
                          Message("CertificateVerify", "ok", t1), Message("Finished", "ok", t2)>>)
\* What the server makes of a message of the client.
ServerHears(m) ==
    CASE m.type = "ClientHello" /\ ~srv.hello -> ServerRetries \/ ServerFlight
      [] m.type = "Finished" /\ srv.read.key = Handshake /\ m.over = srv.transcript ->
           srv' = [srv EXCEPT !.read = KeyAt(Application)]
      [] m.type = "KeyUpdate" /\ srv.read.key >= Application ->
           srv' = [srv EXCEPT !.read = KeyAt(@.key + 1)]
      [] OTHER -> srv' = [srv EXCEPT !.failed = TRUE]
\* An alert in the clear is taken until the client's Finished: the client may close before
\* it has keys.
ServerReceives ==
    /\ srv.honest /\ ~srv.failed /\ toServer # <<>>
    /\ LET r == Head(toServer)
           early == r.type = "alert" /\ r.key = Plain /\ srv.read = KeyAt(Handshake)
       IN  CASE r.type = "ccs" \/ early -> UNCHANGED srv
             [] r.type # "ccs" /\ ~early /\ ~Opens(srv.read, r) -> srv' = [srv EXCEPT !.failed = TRUE]
             [] r.type = "handshake" /\ Opens(srv.read, r) -> ServerHears(r.body[1].msg)
             [] r.type = "data" /\ Opens(srv.read, r) ->
                  srv' = [srv EXCEPT !.got = Append(@, "data"), !.read = Counted(@),
                                     !.failed = srv.read.key < Application]
             [] r.type = "alert" /\ Opens(srv.read, r) ->
                  srv' = [srv EXCEPT !.read = Counted(@),
                                     !.failed = r.body[1].msg.arg # "close_notify"]
    /\ toServer' = Tail(toServer)
    /\ UNCHANGED <<conn, toClient>>

\* A key it has not used yet starts from 0.
Sealing(key) == IF srv.sealed.key = key THEN srv.sealed ELSE KeyAt(key)
ServerEmits ==
    /\ srv.honest /\ Len(toClient) < MaxWire
    /\ \E n \in 1 .. MaxPieces :
         /\ n <= Len(srv.todo) /\ \A i \in 1 .. n : srv.todo[i].key = srv.todo[1].key
         /\ LET k == Sealing(srv.todo[1].key)
            IN  /\ toClient' = Append(toClient, Record("handshake", k.key, k.seq, [i \in 1 .. n |-> srv.todo[i].piece]))
                /\ srv' = [srv EXCEPT !.todo = SubSeq(@, n + 1, Len(@)), !.sealed = Counted(k)]
    /\ UNCHANGED <<conn, toServer>>
\* Application data, a close_notify or a compatibility record between handshake messages.
ServerPosts ==
    /\ srv.honest /\ srv.hello /\ srv.todo = <<>> /\ srv.posts < MaxPosts /\ Len(toClient) < MaxWire
    /\ LET k == Sealing(srv.next)
       IN  \/ /\ toClient' = Append(toClient, Record("data", k.key, k.seq, <<>>))
              /\ srv' = [srv EXCEPT !.sealed = Counted(k), !.sent = Append(@, "data"), !.posts = @ + 1]
           \/ /\ toClient' = Append(toClient, Record("alert", k.key, k.seq, Alert("close_notify")))
              /\ srv' = [srv EXCEPT !.sealed = Counted(k), !.posts = MaxPosts]
           \/ toClient' = Append(toClient, Ccs) /\ srv' = [srv EXCEPT !.posts = @ + 1]
    /\ UNCHANGED <<conn, toServer>>
\* A ticket, or a KeyUpdate after which the server seals with the next key.
ServerUpdates ==
    /\ srv.honest /\ srv.hello /\ srv.posts < MaxPosts
    /\ \E m \in {Message("NewSessionTicket", "ok", <<>>), Message("KeyUpdate", "requested", <<>>),
                 Message("KeyUpdate", "not requested", <<>>)} :
         LET s == Todo([srv EXCEPT !.posts = @ + 1], srv.next, <<m>>)
         IN  srv' = IF m.type = "KeyUpdate" THEN [s EXCEPT !.next = @ + 1] ELSE s
    /\ UNCHANGED <<conn, toServer, toClient>>

\* The other server answers with anything it can seal, or with what does not open.
AnyMessage ==
    {Message(t, a, <<>>) : t \in {"HelloRetryRequest", "ServerHello"}, a \in Suites \cup {"bad"}} \cup
    {Message(t, a, o) : t \in {"EncryptedExtensions", "CertificateRequest", "Certificate", "CertificateVerify", "Finished"},
                        a \in {"ok", "bad"}, o \in {conn.transcript, <<>>}} \cup
    {Message("KeyUpdate", a, <<>>) : a \in {"requested", "bad"}}
AnyServer ==
    /\ ~srv.honest /\ toClient = <<>> /\ srv.posts < MaxRecords /\ ~conn.closed
    /\ \E key \in {conn.read.key, conn.read.key + 1} :
         \/ \E m \in AnyMessage : toClient' = <<Record("handshake", key, conn.read.seq, Pieces(m))>>
         \/ \E what \in {"fatal", "warning", "close_notify"} :
              toClient' = <<Record("alert", key, conn.read.seq, Alert(what))>>
         \/ toClient' = <<Record("data", key, conn.read.seq, <<>>)>>
    /\ srv' = [srv EXCEPT !.posts = @ + 1]
    /\ UNCHANGED <<conn, toServer>>

TlsNext ==
    \/ Process \/ TakeOutgoing \/ TlsSend \/ TlsClose
    \/ ServerReceives \/ ServerEmits \/ ServerPosts \/ ServerUpdates \/ AnyServer

-----------------------------------------------------------------------------
\* The two ends stay in step through the handshake, retries, key updates in both
\* directions at any moment, records that end in the middle of a message, and closing:
\* with a server that follows the protocol neither end ever meets a record it cannot
\* open or a message it does not expect (the client's Finished and its answer to a
\* KeyUpdate are sealed with the key that is on its way out), and both hear all and only
\* what the other sent.  And whatever the server, the connection is complete and hands
\* over data only after the certificate, the signature over the transcript and the
\* server's Finished were checked.
Told(e) == Len(SelectSeq(conn.events, LAMBDA x : x = e))
TlsInStep ==
    /\ srv.honest =>
         /\ ~conn.failed /\ ~srv.failed
         /\ Told("data") <= Len(srv.sent) /\ Len(srv.got) <= Len(conn.sent)
         /\ toClient = <<>> /\ ~conn.closed => Told("data") = Len(srv.sent)
         /\ toServer = <<>> /\ conn.outgoing = <<>> => Len(srv.got) = Len(conn.sent)
    /\ Told("complete") + Told("data") > 0 =>
         /\ {"Certificate", "CertificateVerify", "Finished"} \subseteq conn.checked
         /\ Told("complete") = 1
=============================================================================
