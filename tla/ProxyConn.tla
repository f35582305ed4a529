------------------------------ MODULE ProxyConn ------------------------------
(***************************************************************************)
(* A client's connection from its first byte to its end: Server.handleConn *)
(* (internal/proxy/server.go), handleHTTP (http_proxy.go), handleSOCKS5    *)
(* (socks5_server.go) and the dialers of internal/pool/dial.go, each with  *)
(* a tunnel (module Tunnel) at its end.                                    *)
(*                                                                         *)
(* A message of the client or of the upstream arrives in one step; what is *)
(* said in it is a choice.  The client waits from then on, whatever the    *)
(* handler makes of it.  Until a tunnel begins the upstream's behaviour is *)
(* the choice of its answers, and peer and inbox of its end are unused.    *)
(***************************************************************************)
EXTENDS Tunnel, FiniteSets

CONSTANTS Upstreams,  \* the exits the rotator may publish
          Socks,      \* those of them that speak SOCKS5; the others speak HTTP
          NoExit,     \* the snapshot of an empty pool
          Accounts,   \* the proxy accounts that the settings may name
          NoAccount   \* what a client sends that names none of them

ASSUME ProxyAssumption == /\ Socks \subseteq Upstreams
                          /\ NoExit \notin Upstreams
                          /\ NoAccount \notin Accounts

VARIABLES exit,    \* the exit of the rotator's snapshot
          account, \* the proxy account of the settings in force
          pc,      \* pc[c]: where the handler of c is
          via,     \* via[c]: `upstream`, the exit that handleConn took
          cred,    \* cred[c]: `user` and `pass`, the account that it took
          said,    \* said[c]: the client's message that has arrived, "nothing", "whole"
                   \* or "garbled"
          req,     \* req[c]: the request being served
          dialer,  \* dialer[c]: the goroutine of a SOCKS5 dial, "off", "on", "failed" or
                   \* "got" (its connection is in the channel)
          owed,    \* owed[c]: what the client waits for
          used,    \* used[c]: history, the upstreams dialed for c
          offered, \* offered[c]: history, the exits there were since c was accepted
          known    \* known[c]: history, the accounts there were since then

world    == <<exit, account, offered, known>>
choices  == <<via, cred>>
connVars == <<exit, account, pc, via, cred, said, req, dialer, owed, used, offered, known>>
proxyVars == <<connVars, tunnelVars>>

Request == [kind : {"connect", "http", "https", "socks"},
            auth : Accounts \union {NoAccount},
            last : BOOLEAN]

\* Where a handler reads from its client, and where a socket to an upstream is open.
Reading == {"peek", "http", "greeting", "login", "command"}
Serving == {"asking", "sending", "waiting", "replying", "tunnel"}

\* The type invariant: handleConn's locals, the requests it serves and the
\* sockets of its tunnel keep their types.
ConnTypeOK == /\ TunnelTypeOK
              /\ exit \in Upstreams \union {NoExit} /\ account \in Accounts
              /\ pc \in [Conns -> {"closed", "accepted", "request", "dialing", "socksdial"}
                                   \union Reading \union Serving]
              /\ via \in [Conns -> Upstreams \union {NoExit}]
              /\ cred \in [Conns -> Accounts]
              /\ said \in [Conns -> {"nothing", "whole", "garbled"}]
              /\ req \in [Conns -> Request]
              /\ dialer \in [Conns -> {"off", "on", "failed", "got"}]
              /\ owed \in [Conns -> {"nothing", "answer", "final", "rest"}]
              /\ used \in [Conns -> SUBSET Upstreams]
              /\ offered \in [Conns -> SUBSET (Upstreams \union {NoExit})]
              /\ known \in [Conns -> SUBSET Accounts]

NoRequest == [kind |-> "http", auth |-> NoAccount, last |-> FALSE]

ProxyInit == /\ TunnelInit
             /\ exit = NoExit
             /\ account \in Accounts
             /\ pc = [c \in Conns |-> "closed"]
             /\ via = [c \in Conns |-> NoExit]
             /\ cred = [c \in Conns |-> account]
             /\ said = [c \in Conns |-> "nothing"]
             /\ req = [c \in Conns |-> NoRequest]
             /\ dialer = [c \in Conns |-> "off"]
             /\ owed = [c \in Conns |-> "nothing"]
             /\ used = [c \in Conns |-> {}]
             /\ offered = [c \in Conns |-> {}]
             /\ known = [c \in Conns |-> {}]

-----------------------------------------------------------------------------
(***************************************************************************)
(* The rest of the program, seen from here                                 *)
(***************************************************************************)
SwitchExit == /\ exit' \in (Upstreams \union {NoExit}) \ {exit}
              /\ offered' = [c \in Conns |-> offered[c] \union {exit'}]
              /\ UNCHANGED <<account, known, pc, choices, said, req, dialer, owed, used, tunnelVars>>

ChangeAccount == /\ account' \in Accounts \ {account}
                 /\ known' = [c \in Conns |-> known[c] \union {account'}]
                 /\ UNCHANGED <<exit, offered, pc, choices, said, req, dialer, owed, used, tunnelVars>>

-----------------------------------------------------------------------------
(***************************************************************************)
(* handleConn                                                              *)
(***************************************************************************)
Goes(c, place) == pc' = [pc EXCEPT ![c] = place]
Owes(c, what)  == owed' = [owed EXCEPT ![c] = what]
SetSock(c, x, v) == sock' = [sock EXCEPT ![c][x] = v]

\* The handler returns; the deferred calls close both sockets.
Return(c) == /\ Goes(c, "closed")
             /\ sock' = [sock EXCEPT ![c] = [x \in Ends |-> "closed"]]
             /\ UNCHANGED <<world, choices, said, req, dialer, used, peer, copy, flowVars>>

\* It returns and leaves the remote end to others.
ReturnRemoteOpen(c) == /\ Goes(c, "closed")
                       /\ SetSock(c, "client", "closed")
                       /\ UNCHANGED <<world, choices, said, req, dialer, used, peer, copy, flowVars>>

\* It returns without a word, or with the last thing the client is told.
Leave(c)  == Return(c) /\ UNCHANGED owed
Refuse(c) == Return(c) /\ Owes(c, "nothing")

\* (A connection's name is used again when no goroutine or socket of it is left.)
Accept(c) == /\ pc[c] = "closed"
             /\ dialer[c] \in {"off", "failed"}
             /\ Goes(c, "accepted")
             /\ Owes(c, "nothing")
             /\ SetSock(c, "client", "open")
             /\ peer' = [peer EXCEPT ![c]["client"] = "open"]
             /\ said' = [said EXCEPT ![c] = "nothing"]
             /\ req' = [req EXCEPT ![c] = NoRequest]
             /\ dialer' = [dialer EXCEPT ![c] = "off"]
             /\ used' = [used EXCEPT ![c] = {}]
             /\ offered' = [offered EXCEPT ![c] = {exit}]
             /\ known' = [known EXCEPT ![c] = {account}]
             /\ UNCHANGED <<exit, account, choices, copy, flowVars>>

\* s.Rotator.Snapshot()
TakeExit(c) == /\ pc[c] = "accepted"
               /\ via' = [via EXCEPT ![c] = exit]
               /\ Goes(c, "peek")
               /\ UNCHANGED <<world, cred, said, req, dialer, owed, used, tunnelVars>>

\* Peek returns the first byte; only then are the settings read.
FirstByte(c) == /\ pc[c] = "peek"
                /\ peer[c]["client"] = "open"
                /\ cred' = [cred EXCEPT ![c] = account]
                /\ Goes(c, "http") \/ Goes(c, "greeting")
                /\ UNCHANGED <<world, via, said, req, dialer, owed, used, tunnelVars>>

\* The client has sent a message to its end, one of the protocol or one that the
\* handler cannot read, and waits for an answer.  A greeting is always one of the
\* protocol: its version is the byte that was peeked at.
ClientSays(c) == /\ pc[c] \in Reading \ {"peek"}
                 /\ peer[c]["client"] = "open"
                 /\ said[c] = "nothing"
                 /\ \E what \in {"whole", "garbled"} :
                        /\ pc[c] = "greeting" => what = "whole"
                        /\ said' = [said EXCEPT ![c] = what]
                 /\ Owes(c, "answer")
                 /\ UNCHANGED <<world, pc, choices, req, dialer, used, tunnelVars>>

\* The handler has read a message and goes on.
Hears(c) == said[c] = "whole" /\ said' = [said EXCEPT ![c] = "nothing"]

\* A read fails because the client has ended its stream, or is gone.
ClientEnds(c) == /\ pc[c] \in Reading
                 /\ \/ peer[c]["client"] = "gone"
                    \/ peer[c]["client"] = "done" /\ said[c] = "nothing"
                 /\ Leave(c)

\* What the client has sent is not of the protocol: http.ReadRequest rejects it,
\* or the version of a login or command is wrong.
Malformed(c) == /\ pc[c] \in {"http", "login", "command"}
                /\ said[c] = "garbled"
                /\ Leave(c)

-----------------------------------------------------------------------------
(***************************************************************************)
(* handleHTTP                                                              *)
(***************************************************************************)

\* A handler that asks the rotator again for every request.
UpstreamNow(c) == exit

\* `upstream`, taken once
Upstream(c) == via[c]

\* An account that is compared for a connection's first request only.
AuthorizedOnce(c, auth) == auth = cred[c] \/ used[c] # {}

\* checkHTTPProxyAuth and the comparison of handleSOCKS5
Authorized(c, auth) == auth = cred[c]

\* ReadRequest returns a request.
ReadRequest(c) == /\ pc[c] = "http"
                  /\ Hears(c)
                  /\ \E r \in Request : r.kind # "socks" /\ req' = [req EXCEPT ![c] = r]
                  /\ Goes(c, "request")
                  /\ UNCHANGED <<world, choices, dialer, owed, used, tunnelVars>>

\* 407
RejectRequest(c) == /\ pc[c] = "request"
                    /\ ~ Authorized(c, req[c].auth)
                    /\ Refuse(c)

\* 503, or reply 01 of SOCKS5
RefuseRequest(c) == /\ pc[c] = "request"
                    /\ Authorized(c, req[c].auth)
                    /\ Upstream(c) = NoExit
                    /\ Refuse(c)

\* A handler that does not look whether it has an upstream.
StartDialUnchecked(c) == /\ pc[c] = "request"
                         /\ Authorized(c, req[c].auth)
                         /\ used' = [used EXCEPT ![c] = @ \union {Upstream(c)}]
                         /\ Goes(c, "dialing")
                         /\ UNCHANGED <<world, choices, said, req, dialer, owed, tunnelVars>>

\* A dial of at most 15 seconds; that of a SOCKS5 proxy, the handshake included,
\* is another goroutine's.
StartDial(c) == /\ pc[c] = "request"
                /\ Authorized(c, req[c].auth)
                /\ Upstream(c) # NoExit
                /\ used' = [used EXCEPT ![c] = @ \union {Upstream(c)}]
                /\ \/ /\ Upstream(c) \in Socks
                      /\ Goes(c, "socksdial")
                      /\ dialer' = [dialer EXCEPT ![c] = "on"]
                   \/ /\ Upstream(c) \notin Socks
                      /\ Goes(c, "dialing")
                      /\ UNCHANGED dialer
                /\ UNCHANGED <<world, choices, said, req, owed, tunnelVars>>

\* The goroutine dials and shakes hands, for as long as the upstream takes and
\* whether or not the handler still waits; it closes what it cannot use.  A
\* connection that nobody takes from the channel is closed when it is collected.
DialerRuns(c) ==
    /\ \/ /\ dialer[c] = "on" /\ sock[c]["remote"] = "closed"
          /\ SetSock(c, "remote", "open")
          /\ UNCHANGED dialer
       \/ /\ dialer[c] = "on"
          /\ SetSock(c, "remote", "closed")
          /\ dialer' = [dialer EXCEPT ![c] = "failed"]
       \/ /\ dialer[c] = "on" /\ sock[c]["remote"] = "open"
          /\ dialer' = [dialer EXCEPT ![c] = "got"]
          /\ UNCHANGED sock
       \/ /\ dialer[c] = "got" /\ pc[c] = "closed"
          /\ SetSock(c, "remote", "closed")
          /\ dialer' = [dialer EXCEPT ![c] = "off"]
    /\ UNCHANGED <<world, pc, choices, said, req, owed, used, peer, copy, flowVars>>

\* 502, or reply 01.
DialFails(c) == /\ \/ pc[c] = "dialing"
                   \/ pc[c] = "socksdial" /\ dialer[c] = "failed"
                /\ Refuse(c)

\* The same when the deadline ends the wait for the goroutine of a SOCKS5 dial:
\* it dials on, and the handler cannot close what it gets.
DialTimesOut(c) == /\ pc[c] = "socksdial"
                   /\ ReturnRemoteOpen(c)
                   /\ Owes(c, "nothing")

\* A plain request to an HTTP upstream is sent as it is; for all others the
\* upstream is asked to CONNECT.
Connected(c) == /\ pc[c] = "dialing"
                /\ SetSock(c, "remote", "open")
                /\ Goes(c, IF req[c].kind = "http" THEN "sending" ELSE "asking")
                /\ UNCHANGED <<world, choices, said, req, dialer, owed, used, peer, copy, flowVars>>

\* The answer 502 with the remote connection left to itself.
UpstreamFailsOpen(c) == /\ pc[c] \in {"asking", "sending", "waiting"}
                        /\ ReturnRemoteOpen(c)
                        /\ Owes(c, "nothing")

\* Writing to the upstream, reading its answer to CONNECT or the head of its
\* response fails, or the answer is not 200: the handler closes and says 502.
UpstreamFails(c) == pc[c] \in {"asking", "sending", "waiting"} /\ Refuse(c)

\* The client is told, and BiCopy starts.  The bufio.Reader of the client may
\* hold early bytes by then, and that of the upstream if there is one.
StartTunnel(c) ==
    /\ Goes(c, "tunnel")
    /\ Owes(c, "nothing")
    /\ copy' = [copy EXCEPT ![c] = [x \in Ends |-> "on"]]
    /\ peer' = [peer EXCEPT ![c]["remote"] = "open"]
    /\ \E early \in [Ends -> 0 .. MaxBytes] :
           /\ early["client"] + early["remote"] <= MaxBytes
           /\ early["remote"] > 0 => Upstream(c) \notin Socks
           /\ sent' = [sent EXCEPT ![c] = early]
           /\ buf' = [buf EXCEPT ![c] = [x \in Ends |-> [i \in 1 .. early[x] |-> i]]]
    /\ UNCHANGED <<inbox, held, written, outbox, lost>>

\* There is a way through the upstream to the destination.
ThroughUpstream(c) ==
    /\ \/ pc[c] = "asking" /\ UNCHANGED dialer
       \/ /\ pc[c] = "socksdial" /\ dialer[c] = "got"
          /\ dialer' = [dialer EXCEPT ![c] = "off"]
    /\ \/ req[c].kind \in {"connect", "socks"} /\ StartTunnel(c)
       \/ /\ req[c].kind \in {"http", "https"}
          /\ Goes(c, "sending")
          /\ UNCHANGED <<owed, peer, copy, flowVars>>
    /\ UNCHANGED <<world, choices, said, req, used, sock>>

SendRequest(c) == /\ pc[c] = "sending"
                  /\ Goes(c, "waiting")
                  /\ UNCHANGED <<world, choices, said, req, dialer, owed, used, tunnelVars>>

\* ReadResponse has a response, and resp.Write has written its head.  Of an
\* interim one (status 1xx) this is all.
ReadResponse(c) == /\ pc[c] = "waiting"
                   /\ Goes(c, "replying")
                   /\ Owes(c, "rest") \/ Owes(c, "final")
                   /\ UNCHANGED <<world, choices, said, req, dialer, used, tunnelVars>>

\* resp.Write returns, with the whole response written or with an error that is
\* ignored; the remote connection is closed, and the client's too if the request
\* or the response says that it is the last.
FinishResponse(c) ==
    /\ pc[c] = "replying"
    /\ Owes(c, owed[c]) \/ (owed[c] = "rest" /\ Owes(c, "nothing"))
    /\ \/ Return(c)
       \/ /\ ~ req[c].last
          /\ Goes(c, "http")
          /\ SetSock(c, "remote", "closed")
          /\ UNCHANGED <<world, choices, said, req, dialer, used, peer, copy, flowVars>>

-----------------------------------------------------------------------------
(***************************************************************************)
(* handleSOCKS5                                                            *)
(***************************************************************************)

\* The client can name an account, or cannot and gets 05 FF.
ReadGreeting(c) == /\ pc[c] = "greeting"
                   /\ \/ said[c] = "whole" /\ Refuse(c)
                      \/ /\ Hears(c)
                         /\ Owes(c, "nothing")
                         /\ Goes(c, "login")
                         /\ UNCHANGED <<world, choices, req, dialer, used, tunnelVars>>

\* The account is the right one.
Login(c, auth) ==
    /\ Authorized(c, auth)
    /\ Hears(c)
    /\ Owes(c, "nothing")
    /\ Goes(c, "command")
    /\ req' = [req EXCEPT ![c] = [kind |-> "socks", auth |-> auth, last |-> TRUE]]
    /\ UNCHANGED <<world, choices, dialer, used, tunnelVars>>

\* A wrong account that is dropped without an answer.
ReadLoginSilently(c) ==
    /\ pc[c] = "login"
    /\ \E auth \in Accounts \union {NoAccount} :
           \/ Login(c, auth)
           \/ said[c] = "whole" /\ ~ Authorized(c, auth) /\ Leave(c)

\* 01 00, or 01 01 for a wrong account.
ReadLogin(c) ==
    /\ pc[c] = "login"
    /\ \E auth \in Accounts \union {NoAccount} :
           \/ Login(c, auth)
           \/ said[c] = "whole" /\ ~ Authorized(c, auth) /\ Refuse(c)

\* CONNECT to an address, or a command or address type that is refused with 07
\* or 08.
ReadCommand(c) == /\ pc[c] = "command"
                  /\ \/ said[c] = "whole" /\ Refuse(c)
                     \/ /\ Hears(c)
                        /\ Goes(c, "request")
                        /\ UNCHANGED <<world, choices, req, dialer, owed, used, tunnelVars>>

-----------------------------------------------------------------------------
(***************************************************************************)
(* The tunnel                                                              *)
(***************************************************************************)
Zero    == [x \in Ends |-> 0]
NoBytes == [x \in Ends |-> <<>>]

\* BiCopy returns and the handler with it.  (The counters are reset so that the
\* next connection starts with none.)
TunnelEnds(c) == /\ pc[c] = "tunnel"
                 /\ BothCopied(c)
                 /\ Goes(c, "closed")
                 /\ sock' = [sock EXCEPT ![c] = [x \in Ends |-> "closed"]]
                 /\ copy' = [copy EXCEPT ![c] = [x \in Ends |-> "off"]]
                 /\ peer' = [peer EXCEPT ![c]["remote"] = "gone"]
                 /\ lost' = [lost EXCEPT ![c] = [x \in Ends |-> FALSE]]
                 /\ sent' = [sent EXCEPT ![c] = Zero]
                 /\ outbox' = [outbox EXCEPT ![c] = Zero]
                 /\ buf' = [buf EXCEPT ![c] = NoBytes]
                 /\ inbox' = [inbox EXCEPT ![c] = NoBytes]
                 /\ held' = [held EXCEPT ![c] = NoBytes]
                 /\ written' = [written EXCEPT ![c] = NoBytes]
                 /\ UNCHANGED <<world, choices, said, req, dialer, owed, used>>

\* The people at both ends: they may go or end their streams whenever they
\* like, and use the tunnel while it is there.
PeerActs(c) == /\ pc[c] # "closed"
               /\ \E x \in Ends : \/ pc[c] = "tunnel" /\ (PeerSends(c, x) \/ PeerReads(c, x))
                                  \/ PeerShuts(c, x) \/ PeerGoes(c, x)
               /\ UNCHANGED connVars

Copies(c, x) == /\ pc[c] = "tunnel"
                /\ CopyStep(c, x)
                /\ UNCHANGED connVars

-----------------------------------------------------------------------------
ClientSpeaks(c) == FirstByte(c) \/ ClientSays(c)

\* What the handler does by itself, and what its deadline makes it do.
HandlerRuns(c) == \/ TakeExit(c) \/ ClientEnds(c) \/ Malformed(c)
                  \/ ReadRequest(c) \/ ReadGreeting(c) \/ ReadLogin(c) \/ ReadCommand(c)
                  \/ RejectRequest(c) \/ RefuseRequest(c)
                  \/ StartDial(c) \/ DialFails(c) \/ DialTimesOut(c)
                  \/ TunnelEnds(c)

UpstreamAnswers(c) == \/ Connected(c) \/ UpstreamFails(c) \/ ThroughUpstream(c)
                      \/ SendRequest(c) \/ ReadResponse(c) \/ FinishResponse(c)

ProxyNext == \/ SwitchExit \/ ChangeAccount
             \/ \E c \in Conns : \/ Accept(c) \/ PeerActs(c) \/ ClientSpeaks(c)
                                 \/ HandlerRuns(c) \/ DialerRuns(c) \/ UpstreamAnswers(c)
                                 \/ \E x \in Ends : Copies(c, x)

ProxySpec == ProxyInit /\ [][ProxyNext]_proxyVars

\* The handler's goroutines and the copiers are scheduled, and a dial has a
\* deadline.  Nothing is assumed of clients and upstreams.
ProxyFairSpec == /\ ProxySpec
                 /\ \A c \in Conns :
                        /\ WF_proxyVars(HandlerRuns(c))
                        /\ \A x \in Ends : WF_proxyVars(Copies(c, x))

-----------------------------------------------------------------------------
(***************************************************************************)
(* Properties                                                              *)
(***************************************************************************)

\* A connection keeps to one exit for all its requests, and it is one that was
\* the exit at some time since the connection was accepted: what the comment in
\* handleConn says.
PinnedExit == \A c \in Conns : /\ Cardinality(used[c]) <= 1
                               /\ used[c] \subseteq offered[c]

\* An upstream is only talked to for a request whose account was in force at
\* some time since the connection was accepted, whatever request of the
\* connection it is and however the account has changed.
OnlyKnownUsers == \A c \in Conns :
    pc[c] \in Serving \union {"dialing", "socksdial"} => req[c].auth \in known[c]

\* handleConn hangs up without a word only on a client that has gone or that has
\* sent what is not of its protocol; everybody else who has sent a greeting, a
\* login, a command or a request gets an answer to it, on each way out.
NoSilentDrop == \A c \in Conns :
    pc[c] = "closed" /\ owed[c] = "answer" =>
        said[c] = "garbled" \/ peer[c]["client"] = "gone"

\* A socket to an upstream is open only while a request or a tunnel uses it, or
\* while the goroutine of a SOCKS5 dial has it.  Such a dial, given up at its
\* deadline, is all that a handler leaves behind (dial.go:69-76).
OnlyDialsLeft == \A c \in Conns :
    sock[c]["remote"] = "open" =>
        \/ pc[c] \in Serving
        \/ /\ pc[c] \in {"socksdial", "closed"}
           /\ via[c] \in Socks
           /\ dialer[c] \in {"on", "got"}

\* What is written to one end of a tunnel is what the peer at the other end has
\* sent, from the first byte on, in order and without a gap, bytes that a
\* bufio.Reader had taken before the tunnel began included; and where a copier
\* ends because the stream has, it is all of it.
StreamsIntact == \A c \in Conns, x \in Ends :
    /\ \A i \in 1 .. Len(written[c][x]) : written[c][x][i] = i
    /\ copy[c][x] = "eof" => Len(written[c][x]) = sent[c][x]

\* The client has gone, or one of the two copiers of its tunnel has ended.
Over(c) == /\ pc[c] # "closed"
           /\ peer[c]["client"] = "gone" \/ \E x \in Ends : copy[c][x] \in {"eof", "error"}

\* The handler waits, without a deadline, for an upstream to say something or
\* for somebody to read what is written to him.
Stalled(c) == \/ pc[c] \in Serving \ {"tunnel"}
              \/ /\ pc[c] = "tunnel"
                 /\ \E x \in Ends : /\ held[c][x] # <<>>
                                    /\ sock[c][Other(x)] = "open"
                                    /\ peer[c][Other(x)] # "gone"
                                    /\ outbox[c][Other(x)] = Window

\* A handler, with its goroutines and sockets, does not outlive its client or
\* its tunnel, unless an upstream is silent where the code waits without a
\* deadline, or does not read what is sent to it.
GoneClientsEnd == \A c \in Conns : []<>(~ Over(c) \/ Stalled(c))

\* A handler reads the next request only when the last one has its whole answer:
\* "read the response of the remote end and write it back to the client".
NobodyWaits == \A c \in Conns :
    pc[c] = "http" => owed[c] \notin {"rest", "final"} \/ peer[c]["client"] = "gone"

\* Bytes that a peer sent into a tunnel are only lost if one of the two peers is
\* gone: the tunnel is transparent.
TunnelTransparent == \A c \in Conns, x \in Ends :
    lost[c][x] => \E y \in Ends : peer[c][y] = "gone"

=============================================================================
