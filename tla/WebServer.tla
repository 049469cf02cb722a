------------------------------ MODULE WebServer ------------------------------
(***************************************************************************)
(* The embedded web server (ui/mongoose.c) under the handlers of ui.c: one *)
(* thread that polls its connections, and the clients at their other ends. *)
(*                                                                         *)
(* A client sends a script of requests, which it may pipeline.  The bytes  *)
(* of a request are units: its head, the empty line that ends it, its      *)
(* body; a frame of a websocket is a header and its data.  A reply is a    *)
(* run of units <<request, 1>>, <<request, 2>>...; request 0 stands for    *)
(* what was never a request, unit 0 for a websocket frame.  The functions  *)
(* of mongoose.c are operators on the record of a connection; `ch' holds   *)
(* what their environment answers (files, programs, uninitialized values). *)
(***************************************************************************)
EXTENDS Integers, Sequences, SequencesExt, FiniteSets

CONSTANTS Conns,          \* connections there can be
          Scripts,        \* scripts of the clients: sequences of requests
          Pieces,         \* reads a file takes
          MaxRequest,     \* MAX_REQUEST_SIZE, in units
          IobufSize,      \* IOBUF_SIZE, in units
          IdleTimeout,    \* MONGOOSE_USE_IDLE_TIMEOUT_SECONDS
          PingInterval,   \* MONGOOSE_USE_WEBSOCKET_PING_INTERVAL
          MaxReply        \* bound: units a program writes

VARIABLES active,   \* server->active_connections, the newest first
          conn,     \* the records of the connections
          client,   \* the clients: script, units still to send, units received
          pc,       \* the step of mg_poll_server
          todo,     \* connections its loop has still to visit
          rset, wset  \* the descriptor sets

vars == <<active, conn, client, pc, todo, rset, wset>>

-----------------------------------------------------------------------------
Unit(t, q) == [t |-> t, q |-> q]

\* A request on the wire.
Sent(script, q) ==
    LET r == script[q]
    IN  (CASE r.kind = "malformed" -> <<Unit("ctl", q)>>
           [] r.kind = "long" -> [i \in 1 .. MaxRequest + 1 |-> Unit("head", q)]
           [] OTHER -> <<Unit("head", q), Unit("end", q)>>)
        \o [i \in 1 .. r.body |-> Unit("body", q)]
        \o FlattenSeq([i \in 1 .. r.frames |-> <<Unit("frame", q), Unit("data", q)>>])
Stream(script) == FlattenSeq([q \in DOMAIN script |-> Sent(script, q)])

\* A connection as calloc and accept_new_connection leave it.
Connection(script) ==
    [script |-> script, local |-> <<>>, remote |-> <<>>, ep |-> "NONE", flags |-> {},
     rlen |-> 0, req |-> 0, clen |-> 0, cl |-> 0, ws |-> FALSE, fds |-> 0, part |-> 0,
     idle |-> 0, called |-> <<>>, delivered |-> 0, garbled |-> FALSE, freed |-> FALSE]

Kind(c) == IF c.req = 0 THEN "none" ELSE c.script[c.req].kind
Flag(c, f) == f \in c.flags
Reply(c, k) == [c EXCEPT !.remote = Append(@, <<IF c.rlen > 0 THEN c.req ELSE 0, k>>)]

\* Of more bytes than there are, none is discarded.
discard_leading_iobuf_bytes(s, n) == IF n >= 0 /\ n <= Len(s) THEN SubSeq(s, n + 1, Len(s)) ELSE s

\* The position of the first empty line, 0 without one, -1 behind a control
\* character.
get_request_len(s) ==
    LET stops == {i \in DOMAIN s : s[i].t \in {"end", "ctl", "frame", "data"}}
        first == CHOOSE i \in stops : \A j \in stops : i <= j
    IN  IF stops = {} THEN 0 ELSE IF s[first].t = "end" THEN first ELSE -1

parse_http_message(c, n) ==
    IF \A i \in 1 .. n - 1 : c.local[i] = Unit("head", c.local[n].q)
    THEN [c EXCEPT !.rlen = n, !.req = c.local[n].q, !.ws = FALSE, !.part = 0,
                   !.clen = c.script[c.local[n].q].body, !.cl = c.script[c.local[n].q].body]
    ELSE [c EXCEPT !.rlen = -1, !.req = 0, !.ws = FALSE, !.clen = 0,
                   !.garbled = @ \/ ~Flag(c, "SPOOL_DONE")]

try_http_parse_and_set_content_length(c) ==
    IF c.rlen # 0 THEN c
    ELSE LET n == get_request_len(c.local)
         IN  IF n <= 0 THEN [c EXCEPT !.rlen = n]
             ELSE [parse_http_message(c, n) EXCEPT !.local = discard_leading_iobuf_bytes(@, n)]

\* A GET, or any request to a URI handler, that asks for it.
should_keep_alive(c) ==
    c.req # 0 /\ (Kind(c) = "file" \/ c.ep = "USER") /\ c.script[c.req].keep_alive

RECURSIVE close_local_endpoint(_, _)
RECURSIVE process_request(_, _)

\* The endpoint's descriptor is closed, the body is gobbled, and a connection
\* that is kept alive goes on with what is buffered.
Closed(c) ==
    [c EXCEPT !.fds = IF c.ep \in {"PUT", "FILE", "CGI"} THEN @ - 1 ELSE @,
              !.local = discard_leading_iobuf_bytes(@, c.clen),
              !.ep = "NONE", !.flags = {}, !.cl = 0, !.rlen = 0]
GoesOn(c) == should_keep_alive(c) /\ c.ep \in {"FILE", "USER"}
Done(c, closed) == [closed EXCEPT !.flags = IF c.remote = <<>> THEN {"CLOSE"} ELSE {"SPOOL_DONE"}]

\* Faults in closing an endpoint: the body is not gobbled; the connection is
\* closed at once.
close_local_endpoint_ungobbled(c, ch) ==
    LET closed == [Closed(c) EXCEPT !.local = c.local]
    IN  IF GoesOn(c) THEN process_request(closed, ch) ELSE Done(c, closed)
close_local_endpoint_hasty(c, ch) == [Closed(c) EXCEPT !.flags = {"CLOSE"}]

close_local_endpoint(c, ch) ==
    LET closed == Closed(c)
    IN  IF GoesOn(c) THEN process_request(closed, ch) ELSE Done(c, closed)

\* Also the other answers that are complete when they are spooled: a directory
\* listing, a redirection, a demand for a password, the answers to PROPFIND,
\* MKCOL and DELETE.
send_http_error(c, ch) == close_local_endpoint(Reply(c, 1), ch)

\* A handler of ui.c: it answers in one chunk and is done ("user"), or it
\* returns without a value when the request has no origin ("mute").
call_uri_handler(c, ch) ==
    IF Kind(c) = "user"
    THEN close_local_endpoint(Reply(Reply([c EXCEPT !.called = Append(@, c.req)], 1), 2), ch)
    ELSE IF ch.garbage THEN close_local_endpoint(c, ch)
    ELSE [c EXCEPT !.flags = @ \cup {"LONG_RUNNING"}]

\* A whole frame is handed to ws_handler, which pushes the missions or, when it
\* makes nothing of the frame, asks for the end of the connection.
deliver_websocket_frame(c, ch) ==
    LET delivered == [c EXCEPT !.delivered = @ + 1, !.clen = 1,
                               !.local = discard_leading_iobuf_bytes(@, 2)]
    IN  IF ch.garbage THEN [delivered EXCEPT !.flags = @ \cup {"SPOOL_DONE"}]
        ELSE Reply(delivered, 0)
FrameBuffered(c) == Len(c.local) >= 2 /\ c.local[1].t = "frame" /\ c.local[2].t = "data"
RECURSIVE deliver_websocket_frames(_, _)
deliver_websocket_frames(c, ch) ==
    IF FrameBuffered(c) THEN deliver_websocket_frames(deliver_websocket_frame(c, ch), ch) ELSE c

\* A fault: more than the body is waited for.
call_uri_handler_if_data_is_buffered_late(c, ch) ==
    IF c.ws THEN deliver_websocket_frames(c, ch)
    ELSE IF Len(c.local) > c.clen THEN call_uri_handler(c, ch) ELSE c

call_uri_handler_if_data_is_buffered(c, ch) ==
    IF c.ws THEN deliver_websocket_frames(c, ch)
    ELSE IF Len(c.local) >= c.clen THEN call_uri_handler(c, ch) ELSE c

\* A request to upgrade is answered before its URI is looked at.
send_websocket_handshake_if_requested(c) ==
    IF Kind(c) = "websocket" THEN Reply([c EXCEPT !.ws = TRUE], 1) ELSE c

open_file_endpoint(c) ==
    IF Kind(c) = "head" THEN [Reply(c, 1) EXCEPT !.flags = @ \cup {"SPOOL_DONE"}]
    ELSE [Reply(c, 1) EXCEPT !.ep = "FILE", !.fds = @ + 1, !.cl = Pieces]
open_cgi_endpoint(c) ==
    [Reply(c, 1) EXCEPT !.ep = "CGI", !.fds = @ + 1, !.flags = @ \cup {"BUFFER"}, !.part = 1]
handle_put(c) == [Reply(c, 1) EXCEPT !.ep = "PUT", !.fds = @ + 1]
send_options(c) == [Reply(c, 1) EXCEPT !.flags = @ \cup {"SPOOL_DONE"}]

open_local_endpoint(c, ch) ==
    CASE Kind(c) \in {"user", "mute", "websocket"} -> [c EXCEPT !.ep = "USER"]
      [] Kind(c) = "options" -> send_options(c)
      [] Kind(c) \in {"file", "head"} /\ ch.opens -> open_file_endpoint(c)
      [] Kind(c) = "cgi" /\ ch.opens -> open_cgi_endpoint(c)
      [] Kind(c) = "put" /\ ch.opens -> handle_put(c)
      [] OTHER -> send_http_error(c, ch)

forward_post_data(c) == [c EXCEPT !.local = <<>>]
forward_put_data(c, ch) ==
    LET written == [c EXCEPT !.local = <<>>, !.cl = @ - Len(c.local)]
    IN  IF written.cl <= 0 THEN close_local_endpoint(written, ch) ELSE written

\* The steps of process_request: a request that is parsed opens its endpoint, and
\* what is buffered goes to the endpoint there is then.
Opened(c, ch) ==
    IF \/ c.rlen < 0 \/ (c.rlen > 0 /\ Kind(c) = "invalid")
       \/ (c.rlen = 0 /\ Len(c.local) > MaxRequest)
    THEN send_http_error(c, ch)
    ELSE IF c.rlen > 0 /\ c.ep = "NONE"
    THEN open_local_endpoint(send_websocket_handshake_if_requested(c), ch)
    ELSE c
ToCgi(c) == IF c.ep = "CGI" /\ c.local # <<>> THEN forward_post_data(c) ELSE c
ToUser(c, ch) == IF c.ep = "USER" THEN call_uri_handler_if_data_is_buffered(c, ch) ELSE c
ToPut(c, ch) == IF c.ep = "PUT" /\ c.local # <<>> THEN forward_put_data(c, ch) ELSE c
process_request(c, ch) ==
    ToPut(ToUser(ToCgi(Opened(try_http_parse_and_set_content_length(c), ch)), ch), ch)

-----------------------------------------------------------------------------
\* The units recv returned; none at the end of the client's stream.
read_from_socket(c, units, ch) ==
    IF units = <<>> THEN [c EXCEPT !.flags = @ \cup {"CLOSE"}]
    ELSE process_request([c EXCEPT !.local = @ \o units], ch)

\* A program's output: until it has written all of its headers the reply is held
\* back.  At the end of its output the endpoint is closed.
read_from_cgi(c, ch) ==
    IF ch.cgi = "end" \/ c.part = MaxReply THEN close_local_endpoint(c, ch)
    ELSE [Reply(c, c.part + 1) EXCEPT !.part = @ + 1,
              !.flags = IF ch.cgi = "headers" THEN @ \ {"BUFFER"} ELSE @]

\* A fault: a connection that is done is not flagged when all is written.
write_to_socket_open(c, n, fails) ==
    IF fails THEN [c EXCEPT !.flags = @ \cup {"CLOSE"}]
    ELSE [c EXCEPT !.remote = discard_leading_iobuf_bytes(@, n)]

\* send takes n units, or fails.
write_to_socket(c, n, fails) ==
    LET sent == IF fails THEN [c EXCEPT !.flags = @ \cup {"CLOSE"}]
                ELSE [c EXCEPT !.remote = discard_leading_iobuf_bytes(@, n)]
    IN  IF sent.remote = <<>> /\ Flag(sent, "SPOOL_DONE")
        THEN [sent EXCEPT !.flags = @ \cup {"CLOSE"}] ELSE sent

\* read returns a piece, or nothing of a file that was cut off meanwhile.
transfer_file_data(c, ch) ==
    IF ch.cgi = "end" \/ c.cl = 0 THEN close_local_endpoint(c, ch)
    ELSE LET spooled == [Reply(c, 2 + Pieces - c.cl) EXCEPT !.cl = @ - 1]
         IN  IF spooled.cl <= 0 THEN close_local_endpoint(spooled, ch) ELSE spooled

\* The endpoint is closed like that of a connection that goes on.
close_conn(c, ch) == [close_local_endpoint(c, ch) EXCEPT !.freed = TRUE]

ping_idle_websocket_connection(c) ==
    IF c.ws /\ c.idle > PingInterval
    THEN [c EXCEPT !.remote = Append(@, <<c.req, 0>>)] ELSE c

-----------------------------------------------------------------------------
Environment == [garbage : BOOLEAN, opens : BOOLEAN, cgi : {"none", "text", "headers", "end"}]

Init ==
    /\ active = <<>> /\ pc = "start" /\ todo = <<>> /\ rset = {} /\ wset = {}
    /\ client \in [Conns -> {[script |-> s, tosend |-> Stream(s), wire |-> <<>>, got |-> <<>>,
                              state |-> "away"] : s \in Scripts}]
    /\ conn = [c \in Conns |-> Connection(client[c].script)]

Open == ToSet(active)

\* The clients.
connect(c) ==
    /\ client[c].state = "away"
    /\ client' = [client EXCEPT ![c].state = "connecting"]
    /\ UNCHANGED <<active, conn, pc, todo, rset, wset>>

\* Up to the end of a request, or a part of it.
send(c) ==
    /\ client[c].state \in {"connecting", "connected"} /\ client[c].tosend # <<>>
    /\ \E n \in DOMAIN client[c].tosend :
          client' = [client EXCEPT ![c].wire = @ \o SubSeq(client[c].tosend, 1, n),
                                   ![c].tosend = SubSeq(@, n + 1, Len(@))]
    /\ UNCHANGED <<active, conn, pc, todo, rset, wset>>

disconnect(c) ==
    /\ client[c].state = "connected"
    /\ client' = [client EXCEPT ![c].state = "closed"]
    /\ UNCHANGED <<active, conn, pc, todo, rset, wset>>

\* mg_poll_server: it reads the clock, and its first loop fills the descriptor
\* sets, moves a piece of each file and closes what is flagged and has nothing to
\* write.  Between two polls at most a second passes.
Begin ==
    /\ pc = "start"
    /\ pc' = "scan" /\ todo' = active /\ rset' = {} /\ wset' = {}
    /\ UNCHANGED <<active, client>>
poll == Begin /\ UNCHANGED conn
poll_later ==
    /\ Begin
    /\ conn' = [c \in Conns |-> IF c \in Open /\ conn[c].idle <= IdleTimeout
                                THEN [conn[c] EXCEPT !.idle = @ + 1] ELSE conn[c]]

scan ==
    /\ pc = "scan" /\ todo # <<>>
    /\ \E ch \in Environment :
          LET c  == Head(todo)
              c1 == IF conn[c].ep = "FILE" THEN transfer_file_data(conn[c], ch) ELSE conn[c]
              writes == c1.remote # <<>> /\ ~Flag(c1, "BUFFER")
              closes == ~writes /\ Flag(c1, "CLOSE")
          IN  /\ conn' = [conn EXCEPT ![c] = IF closes THEN close_conn(c1, ch) ELSE c1]
              /\ active' = IF closes THEN Remove(active, c) ELSE active
              /\ wset' = IF writes THEN wset \cup {c} ELSE wset
    /\ rset' = rset \cup {Head(todo)}
    /\ todo' = Tail(todo)
    /\ UNCHANGED <<client, pc>>

\* select fails when a descriptor of the sets was closed by the first loop.
Readable(c) == client[c].wire # <<>> \/ client[c].state = "closed"
select ==
    /\ pc = "scan" /\ todo = <<>>
    /\ IF rset \subseteq Open
       THEN LET new == {c \in Conns : client[c].state = "connecting"}
            IN  /\ pc' = "io"
                /\ active' = SetToSeq(new) \o active
                /\ client' = [c \in Conns |-> IF c \in new THEN [client[c] EXCEPT !.state = "connected"]
                                              ELSE client[c]]
                /\ rset' = {c \in rset : Readable(c)}
                /\ UNCHANGED wset
       ELSE pc' = "reap" /\ rset' = {} /\ wset' = {} /\ UNCHANGED <<active, client>>
    /\ todo' = active'
    /\ UNCHANGED conn

\* The second loop reads from a client, then from a program whose socket was in the
\* set, then writes.
io ==
    /\ pc = "io" /\ todo # <<>>
    /\ LET c == Head(todo)
           n == IF Len(client[c].wire) < IobufSize THEN Len(client[c].wire) ELSE IobufSize
           reads == c \in rset
       IN  \E ch \in Environment :
           \E c1 \in {IF reads THEN read_from_socket([conn[c] EXCEPT !.idle = 0], SubSeq(client[c].wire, 1, n), ch)
                      ELSE conn[c]} :
           \E c2 \in {IF conn[c].ep = "CGI" /\ c1.ep = "CGI" /\ ch.cgi # "none" THEN read_from_cgi(c1, ch) ELSE c1} :
           \E m \in IF c \in wset /\ ~Flag(c2, "BUFFER") THEN 1 .. Len(c2.remote) ELSE {0} :
           \E fails \in IF m > 0 /\ client[c].state = "closed" THEN BOOLEAN ELSE {FALSE} :
              /\ conn' = [conn EXCEPT ![c] = IF m > 0 THEN write_to_socket([c2 EXCEPT !.idle = 0], m, fails) ELSE c2]
              /\ client' = [client EXCEPT ![c].wire = IF reads THEN SubSeq(@, n + 1, Len(@)) ELSE @,
                                          ![c].got = IF fails THEN @ ELSE @ \o SelectSeq(SubSeq(c2.remote, 1, m), LAMBDA u : u[2] # 0)]
    /\ todo' = Tail(todo)
    /\ UNCHANGED <<active, pc, rset, wset>>

reaping ==
    /\ pc = "io" /\ todo = <<>>
    /\ pc' = "reap" /\ todo' = active
    /\ UNCHANGED <<active, conn, client, rset, wset>>

\* The third loop pings, calls the handlers that are not done and closes.
reap ==
    /\ pc = "reap" /\ todo # <<>>
    /\ \E ch \in Environment :
          LET c  == Head(todo)
              c1 == ping_idle_websocket_connection(conn[c])
              c2 == IF Flag(c1, "LONG_RUNNING") THEN call_uri_handler(c1, ch) ELSE c1
              closes == Flag(c2, "CLOSE") \/ c2.idle > IdleTimeout
          IN  /\ conn' = [conn EXCEPT ![c] = IF closes THEN close_conn(c2, ch) ELSE c2]
              /\ active' = IF closes THEN Remove(active, c) ELSE active
    /\ todo' = Tail(todo)
    /\ UNCHANGED <<client, pc, rset, wset>>

polled ==
    /\ pc = "reap" /\ todo = <<>>
    /\ pc' = "start" /\ rset' = {} /\ wset' = {}
    /\ UNCHANGED <<active, conn, client, todo>>

Server == poll \/ poll_later \/ scan \/ select \/ io \/ reaping \/ reap \/ polled
Next == Server \/ \E c \in Conns : connect(c) \/ send(c) \/ disconnect(c)

\* The server's thread runs on, and so does the clock.  A step of Server is
\* enabled in every state and changes pc or todo, so that the first condition is
\* WF_vars(Server), in a form that does not ask for ENABLED.
Spec == Init /\ [][Next]_vars /\ []<><<TRUE>>_<<pc, todo>> /\ SF_vars(poll_later)

-----------------------------------------------------------------------------
Spooled(c) == client[c].got \o conn[c].remote

\* Requests the server keeps for the next bytes of their client.
Repeats(c, q) == conn[c].script[q].kind \in {"head", "options"}

\* The replies to pipelined requests come in the order of the requests, each one
\* whole and in one piece, and none comes twice.  A URI handler, which changes
\* missions and environments, runs once for a request, in the order of the
\* requests.  A body is gobbled by the request it belongs to: on a connection
\* that goes on it is never parsed as the head of a request.
InOrder(c, u, v) ==
    \/ v[2] = 0 \/ v[1] = 0
    \/ v[1] = u[1] /\ (v[2] = u[2] + 1 \/ Repeats(c, v[1]))
    \/ v[1] > u[1] /\ v[2] = 1
RequestsInTurn ==
    \A c \in Conns :
        /\ \A i \in 1 .. Len(Spooled(c)) - 1 : InOrder(c, Spooled(c)[i], Spooled(c)[i + 1])
        /\ \A i, j \in DOMAIN conn[c].called : i < j => conn[c].called[i] < conn[c].called[j]
        /\ ~conn[c].garbled

\* A connection is closed by the server only when all of a reply is written, or
\* after its client has gone or was idle for too long, and with it the descriptor
\* of its endpoint.  A request that is buffered behind the one in work is another
\* matter: close_conn goes on with it, and what it opens stays open.
ClosedWhole ==
    [][\A c \in Conns : conn'[c].freed /\ ~conn[c].freed =>
           /\ conn[c].local = <<>> => conn'[c].fds = 0
           /\ conn[c].remote # <<>> => client[c].state = "closed" \/ conn[c].idle > IdleTimeout]_vars

\* The connection of a client that has gone is freed, whatever it was doing; so
\* is one whose client stays silent, unless it is a websocket, which pings keep
\* alive, and a websocket whose handler has asked for its end.
Upgraded(c) == \E q \in DOMAIN client[c].script : client[c].script[q].kind = "websocket"
EveryConnectionEnds ==
    \A c \in Conns :
        /\ client[c].state = "closed" ~> conn[c].freed
        /\ client[c].state = "connected" /\ ~Upgraded(c) ~> conn[c].freed \/ client[c].tosend # <<>>
        /\ Upgraded(c) /\ Flag(conn[c], "SPOOL_DONE") ~> conn[c].freed

\* A request that the server has read to its end, behind requests to URI handlers,
\* is answered and not left to the idle timeout, as long as its client is there.
Answered(c, q) == \E i \in DOMAIN Spooled(c) : Spooled(c)[i] = <<q, 1>>
Awaited(c, q) ==
    /\ q \in DOMAIN client[c].script /\ client[c].script[q].kind \in {"user", "file", "other"}
    /\ \A i \in 1 .. q - 1 : client[c].script[i].kind = "user"
    /\ \A unit \in ToSet(client[c].wire \o client[c].tosend) : unit.q > q
RequestsAnswered ==
    \A c \in Conns : \A q \in 1 .. 3 :
        client[c].state = "connected" /\ ~conn[c].freed /\ Awaited(c, q)
            ~> Answered(c, q) \/ client[c].state = "closed"
=============================================================================
