----------------------------- MODULE MCWebServer -----------------------------
EXTENDS WebServer

Request(kind, body, frames, keep_alive) ==
    [kind |-> kind, body |-> body, frames |-> frames, keep_alive |-> keep_alive]
Get(kind) == Request(kind, 0, 0, TRUE)
Final(kind) == Request(kind, 0, 0, FALSE)
Post(kind) == Request(kind, 1, 0, TRUE)

MCScripts ==
    {<<Get("file"), Post("user"), Final("file")>>,
     <<Post("user"), Post("user"), Get("other")>>,
     <<Post("mute"), Get("file")>>,
     <<Get("file"), Get("malformed")>>,
     <<Get("head"), Get("file")>>,
     <<Get("options"), Get("file")>>,
     <<Post("cgi"), Get("file")>>,
     <<Post("put"), Get("user")>>,
     <<Post("other"), Get("user")>>,
     <<Get("user"), Get("long")>>,
     <<Get("invalid")>>,
     <<Request("websocket", 0, 2, FALSE)>>}
=============================================================================
