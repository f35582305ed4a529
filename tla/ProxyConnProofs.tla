--------------------------- MODULE ProxyConnProofs ---------------------------
(***************************************************************************)
(* Theorems about ProxyConn, for any number of connections, upstreams,     *)
(* accounts and bytes.  The inductive invariant says what a handler        *)
(* remembers at each place of its way: which exit it holds, whose account  *)
(* has been compared, whom it owes an answer, and what is left of a tunnel *)
(* whose copiers have ended.                                               *)
(***************************************************************************)
EXTENDS ProxyConn, FiniteSetTheorems, SequenceTheorems, TLAPS

\* The only upstream ever dialed is the exit that was taken, and that one was
\* the exit after the connection had been accepted.
Pinned == \A c \in Conns :
    /\ used[c] \subseteq {via[c]} \cap offered[c]
    /\ pc[c] \in {"accepted", "peek"} => used[c] = {}
    /\ pc[c] # "closed" => exit \in offered[c]
    /\ pc[c] \notin {"closed", "accepted"} => via[c] \in offered[c]

\* The account that was taken was in force after the connection had been
\* accepted, and a request that is served has named it.
Checked == \A c \in Conns :
    /\ pc[c] # "closed" => account \in known[c]
    /\ pc[c] \notin {"closed", "accepted", "peek"} => cred[c] \in known[c]
    /\ pc[c] \in Serving \union {"dialing", "socksdial"} => req[c].auth = cred[c]

\* A client that waits for an answer has a handler that is still at work on it,
\* or has been left for a reason.
Asked == \A c \in Conns :
    owed[c] = "answer" =>
        \/ pc[c] \in {"request", "dialing", "socksdial", "asking", "sending", "waiting"}
        \/ pc[c] \in Reading \ {"peek"} /\ said[c] # "nothing"
        \/ pc[c] = "closed" /\ (said[c] = "garbled" \/ peer[c]["client"] = "gone")

\* The goroutine of a SOCKS5 dial is under way, or its connection in the channel,
\* only while the handler waits for it or after it has returned; sockets to an
\* upstream are in use or that goroutine's.
Dialed == \A c \in Conns :
    /\ dialer[c] \in {"on", "got"} => pc[c] \in {"socksdial", "closed"} /\ via[c] \in Socks
    /\ sock[c]["remote"] = "open" => pc[c] \in Serving \/ dialer[c] \in {"on", "got"}

\* What the copier has in hand, the bufio.Reader and the socket hold goes on, in
\* this order, where `w` ends.
GoesOn(w, h, b, i) == /\ \A k \in 1 .. Len(h) : h[k] = Len(w) + k
                      /\ \A k \in 1 .. Len(b) : b[k] = Len(w) + Len(h) + k
                      /\ \A k \in 1 .. Len(i) : i[k] = Len(w) + Len(h) + Len(b) + k

\* What was written is the beginning of the stream, and a copier that is at work
\* has the rest of it before it, unless the peer has gone or bytes were dropped.
\* Bytes are dropped only where a copier failed or our socket is closed.
Flows(c, x) ==
    /\ pc[c] # "tunnel" => /\ copy[c][x] = "off" /\ ~ lost[c][x]
                           /\ inbox[c][x] = <<>> /\ held[c][x] = <<>> /\ written[c][x] = <<>>
    /\ \A k \in 1 .. Len(written[c][x]) : written[c][x][k] = k
    /\ sock[c][x] = "closed" => inbox[c][x] = <<>>
    /\ lost[c][x] => copy[c][x] = "error" \/ sock[c][x] = "closed"
    /\ copy[c][x] = "on" => GoesOn(written[c][x], held[c][x], buf[c][x], inbox[c][x])
    /\ copy[c][x] = "on" /\ peer[c][x] # "gone" /\ ~ lost[c][x] =>
           sent[c][x] = Len(written[c][x]) + Len(held[c][x]) + Len(buf[c][x]) + Len(inbox[c][x])
    /\ copy[c][x] = "eof" => peer[c][x] # "open" /\ sent[c][x] = Len(written[c][x])

Copied == \A c \in Conns, x \in Ends : Flows(c, x)

ConnInv == ConnTypeOK /\ Pinned /\ Checked /\ Asked /\ Dialed /\ Copied

-----------------------------------------------------------------------------
(***************************************************************************)
(* What the steps of peers and copiers preserve                            *)
(***************************************************************************)

\* The ends of a connection are two.
LEMMA OtherEnd == \A x \in Ends : Other(x) \in Ends /\ Other(x) # x /\ Other(Other(x)) = x
  BY DEF Ends, Other

\* The initial state is of the type.
LEMMA TunnelInitType == TunnelInit => TunnelTypeOK
<1>1. <<>> \in Seq(Nat)
    OBVIOUS
<1>2. TunnelInit => buf \in At(Seq(Nat)) /\ inbox \in At(Seq(Nat))
                    /\ held \in At(Seq(Nat)) /\ written \in At(Seq(Nat))
    BY <1>1 DEF TunnelInit, At, Everywhere
<1> QED
    BY <1>2, TunnelAssumption DEF TunnelInit, TunnelTypeOK, At, Everywhere

\* A byte more or less leaves a sequence of bytes.
LEMMA AppendType ==
    ASSUME NEW s \in Seq(Nat), NEW n \in Nat
    PROVE  Append(s, n) \in Seq(Nat)
  OBVIOUS

LEMMA TailType ==
    ASSUME NEW s \in Seq(Nat), s # <<>>
    PROVE  Head(s) \in Nat /\ Tail(s) \in Seq(Nat)
  OBVIOUS

\* Whatever peers do keeps the types.
LEMMA PeerTypes ==
    ASSUME TunnelTypeOK, NEW c \in Conns, NEW x \in Ends,
           PeerSends(c, x) \/ PeerReads(c, x) \/ PeerShuts(c, x) \/ PeerGoes(c, x)
    PROVE  TunnelTypeOK'
<1> USE TunnelAssumption DEF TunnelTypeOK
<1>1. CASE PeerSends(c, x)
  <2>1. sent[c]["client"] \in Nat /\ sent[c]["remote"] \in Nat
      BY DEF At, Ends
  <2>2. sent[c][x] + 1 \in 0 .. MaxBytes
      BY <1>1, <2>1 DEF PeerSends, Ends
  <2>3. sent' \in At(0 .. MaxBytes)
      BY <1>1, <2>2 DEF PeerSends, At
  <2>4. sent[c][x] + 1 \in Nat /\ inbox[c][x] \in Seq(Nat)
      BY <2>2 DEF At
  <2>5. Append(inbox[c][x], sent[c][x] + 1) \in Seq(Nat)
      BY <2>4, AppendType
  <2>6. inbox' \in At(Seq(Nat))
      BY <1>1, <2>5 DEF PeerSends, At
  <2> QED
      BY <1>1, <2>3, <2>6 DEF PeerSends
<1>2. CASE PeerReads(c, x)
    BY <1>2 DEF PeerReads, At
<1>3. CASE PeerShuts(c, x)
    BY <1>3 DEF PeerShuts, flowVars, At
<1>4. CASE PeerGoes(c, x)
  <2>1. <<>> \in Seq(Nat)
      OBVIOUS
  <2>2. inbox' \in At(Seq(Nat))
      BY <1>4, <2>1 DEF PeerGoes, At
  <2> QED
      BY <1>4, <2>2 DEF PeerGoes, At
<1> QED
    BY <1>1, <1>2, <1>3, <1>4

\* So do the copiers.
LEMMA CopyTypes ==
    ASSUME TunnelTypeOK, NEW c \in Conns, NEW x \in Ends, CopyStep(c, x)
    PROVE  TunnelTypeOK'
<1> USE TunnelAssumption DEF TunnelTypeOK
<1> DEFINE y == Other(x)
<1>1. y \in Ends
    BY OtherEnd
<1>2. CASE CopyRead(c, x)
  <2>1. PICK s \in Seq(Nat) : held' = [held EXCEPT ![c][x] = s]
    <3>1. buf[c][x] \in Seq(Nat) /\ inbox[c][x] \in Seq(Nat)
        BY DEF At
    <3> QED
        BY <1>2, <3>1 DEF CopyRead
  <2>2. held' \in At(Seq(Nat))
      BY <2>1 DEF At
  <2>3. <<>> \in Seq(Nat)
      OBVIOUS
  <2>4. [buf EXCEPT ![c][x] = <<>>] \in At(Seq(Nat))
      BY <2>3 DEF At
  <2>5. [inbox EXCEPT ![c][x] = <<>>] \in At(Seq(Nat))
      BY <2>3 DEF At
  <2>6. buf' \in At(Seq(Nat)) /\ inbox' \in At(Seq(Nat))
      BY <1>2, <2>4, <2>5 DEF CopyRead
  <2> QED
      BY <1>2, <2>2, <2>6 DEF CopyRead
<1>3. CASE CopyWrite(c, x)
  <2>1. held[c][x] \in Seq(Nat) /\ written[c][x] \in Seq(Nat) /\ outbox[c][y] + 1 \in 0 .. Window
    <3>1. held[c][x] \in Seq(Nat) /\ written[c][x] \in Seq(Nat) /\ outbox[c][y] \in 0 .. Window
        BY <1>1 DEF At
    <3> QED
        BY <1>3, <3>1 DEF CopyWrite
  <2>2. PICK s \in Seq(Nat), n \in Nat : /\ held' = [held EXCEPT ![c][x] = s]
                                        /\ written' = [written EXCEPT ![c][x] = Append(@, n)]
      BY <1>3, <2>1, TailType DEF CopyWrite
  <2>3. held' \in At(Seq(Nat))
      BY <2>2 DEF At
  <2>4. Append(written[c][x], n) \in Seq(Nat)
      BY <2>1, AppendType
  <2>5. written' \in At(Seq(Nat))
      BY <2>2, <2>4 DEF At
  <2>6. outbox' = [outbox EXCEPT ![c][y] = outbox[c][y] + 1]
      BY <1>3 DEF CopyWrite
  <2>7. outbox' \in At(0 .. Window)
      BY <1>1, <2>1, <2>6 DEF At
  <2> QED
      BY <1>3, <2>3, <2>5, <2>7 DEF CopyWrite
<1>4. CASE CopyEnds(c, x)
  <2>1. PICK how \in {"eof", "error"} : copy' = [copy EXCEPT ![c][x] = how]
      BY <1>4 DEF CopyEnds
  <2>2. copy' \in At({"off", "on", "eof", "error"})
      BY <2>1 DEF At
  <2>3. sock' \in At({"open", "closed"})
      BY <1>1, <1>4 DEF CopyEnds, At
  <2>4. <<>> \in Seq(Nat)
      OBVIOUS
  <2>5. held' \in At(Seq(Nat)) /\ inbox' \in At(Seq(Nat))
      BY <1>1, <1>4, <2>4 DEF CopyEnds, At
  <2>6. lost' \in At(BOOLEAN)
      BY <1>1, <1>4 DEF CopyEnds, At
  <2> QED
      BY <1>4, <2>2, <2>3, <2>5, <2>6 DEF CopyEnds
<1> QED
    BY <1>2, <1>3, <1>4 DEF CopyStep

-----------------------------------------------------------------------------
(***************************************************************************)
(* Types                                                                   *)
(***************************************************************************)

\* The initial state is of the type.
LEMMA ConnInitType == ProxyInit => ConnTypeOK
<1> SUFFICES ASSUME ProxyInit PROVE ConnTypeOK
    OBVIOUS
<1>1. TunnelTypeOK
    BY TunnelInitType DEF ProxyInit
<1> QED
    BY <1>1 DEF ProxyInit, ConnTypeOK, NoRequest, Request

\* A closed or opened socket is still a socket.
LEMMA SockTypes ==
    ASSUME ConnTypeOK, NEW c \in Conns, NEW x \in Ends, NEW v \in {"open", "closed"},
           SetSock(c, x, v)
    PROVE  sock' \in At({"open", "closed"})
  BY DEF ConnTypeOK, TunnelTypeOK, SetSock, At

\* So are the two of a handler that has returned.
LEMMA ReturnTypes ==
    ASSUME ConnTypeOK, NEW c \in Conns, Return(c)
    PROVE  /\ ConnTypeOK' <=> owed' \in [Conns -> {"nothing", "answer", "final", "rest"}]
           /\ pc' = [pc EXCEPT ![c] = "closed"]
<1> USE DEF ConnTypeOK, TunnelTypeOK
<1>1. sock' \in At({"open", "closed"})
    BY DEF Return, At
<1>2. pc' = [pc EXCEPT ![c] = "closed"]
    BY DEF Return, Goes
<1> QED
    BY <1>1, <1>2 DEF Return, world, choices, flowVars

\* The handler leaves with or without a word.
LEMMA LeaveTypes ==
    ASSUME ConnTypeOK, NEW c \in Conns, Leave(c) \/ Refuse(c)
    PROVE  ConnTypeOK'
<1>1. CASE Leave(c)
    BY <1>1, ReturnTypes DEF Leave, ConnTypeOK
<1>2. CASE Refuse(c)
    BY <1>2, ReturnTypes DEF Refuse, Owes, ConnTypeOK
<1> QED
    BY <1>1, <1>2

\* The world around the connections keeps the types.
LEMMA WorldTypes ==
    ASSUME ConnTypeOK, SwitchExit \/ ChangeAccount
    PROVE  ConnTypeOK'
  BY DEF SwitchExit, ChangeAccount, ConnTypeOK, TunnelTypeOK, tunnelVars, flowVars, choices

\* What a client says only moves its handler to the protocol.
LEMMA SpeakTypes ==
    ASSUME ConnTypeOK, NEW c \in Conns, ClientSpeaks(c)
    PROVE  ConnTypeOK'
<1> USE DEF ConnTypeOK, TunnelTypeOK, Goes, Owes, world, choices, tunnelVars, flowVars, Reading
<1>1. CASE FirstByte(c)
    BY <1>1 DEF FirstByte
<1>2. CASE ClientSays(c)
    BY <1>2 DEF ClientSays
<1> QED
    BY <1>1, <1>2 DEF ClientSpeaks

\* A message that has been read puts the handler in another place.
LEMMA ReadTypes ==
    ASSUME ConnTypeOK, NEW c \in Conns,
           ReadRequest(c) \/ ReadGreeting(c) \/ ReadLogin(c) \/ ReadCommand(c)
    PROVE  ConnTypeOK'
<1> USE DEF ConnTypeOK, TunnelTypeOK, Goes, Owes, Hears, world, choices, tunnelVars, flowVars, Reading
<1>1. CASE ReadRequest(c)
    BY <1>1 DEF ReadRequest
<1>2. CASE ReadGreeting(c)
    BY <1>2, LeaveTypes DEF ReadGreeting
<1>3. CASE ReadLogin(c)
  <2>1. PICK auth \in Accounts \union {NoAccount} : Refuse(c) \/ Login(c, auth)
      BY <1>3 DEF ReadLogin
  <2>2. [kind |-> "socks", auth |-> auth, last |-> TRUE] \in Request
      BY DEF Request
  <2>3. CASE Login(c, auth)
    <3>1. req' \in [Conns -> Request]
        BY <2>2, <2>3 DEF Login
    <3> QED
        BY <2>3, <3>1 DEF Login
  <2> QED
      BY <2>1, <2>3, LeaveTypes
<1>4. CASE ReadCommand(c)
    BY <1>4, LeaveTypes DEF ReadCommand
<1> QED
    BY <1>1, <1>2, <1>3, <1>4

\* A new connection has no history.
LEMMA AcceptTypes ==
    ASSUME ConnTypeOK, NEW c \in Conns, Accept(c)
    PROVE  ConnTypeOK'
<1> USE DEF ConnTypeOK, TunnelTypeOK, Accept
<1>1. sock' \in At({"open", "closed"})
    BY SockTypes DEF Ends
<1>2. peer' \in At({"open", "done", "gone"})
    BY DEF At
<1>3. NoRequest \in Request
    BY DEF NoRequest, Request
<1> QED
    BY <1>1, <1>2, <1>3 DEF Goes, Owes, choices, flowVars

\* A tunnel that ends leaves nothing behind.
LEMMA TunnelEndsTypes ==
    ASSUME ConnTypeOK, NEW c \in Conns, TunnelEnds(c)
    PROVE  ConnTypeOK'
<1> USE TunnelAssumption DEF ConnTypeOK, TunnelTypeOK, TunnelEnds
<1>1. sock' \in At({"open", "closed"}) /\ copy' \in At({"off", "on", "eof", "error"})
    BY DEF At
<1>2. peer' \in At({"open", "done", "gone"})
    BY DEF At
<1>3. lost' \in At(BOOLEAN)
    BY DEF At
<1>4. sent' \in At(0 .. MaxBytes) /\ outbox' \in At(0 .. Window)
    BY DEF At, Zero
<1>5. NoBytes \in [Ends -> Seq(Nat)]
    BY DEF NoBytes
<1>6. /\ buf' \in At(Seq(Nat)) /\ inbox' \in At(Seq(Nat))
      /\ held' \in At(Seq(Nat)) /\ written' \in At(Seq(Nat))
    BY <1>5 DEF At
<1> QED
    BY <1>1, <1>2, <1>3, <1>4, <1>6 DEF Goes, world, choices

\* A wait for a dial that is given up ends the handler.
LEMMA TimeOutTypes ==
    ASSUME ConnTypeOK, NEW c \in Conns, ReturnRemoteOpen(c), Owes(c, "nothing")
    PROVE  ConnTypeOK'
<1>1. sock' \in At({"open", "closed"})
    BY SockTypes DEF ReturnRemoteOpen, Ends
<1> QED
    BY <1>1 DEF ReturnRemoteOpen, Goes, Owes, ConnTypeOK, TunnelTypeOK, world, choices, flowVars

\* What a handler does by itself keeps the types.
LEMMA HandlerTypes ==
    ASSUME ConnTypeOK, NEW c \in Conns, HandlerRuns(c)
    PROVE  ConnTypeOK'
<1>1. CASE TakeExit(c)
    BY <1>1 DEF TakeExit, Goes, ConnTypeOK, TunnelTypeOK, world, tunnelVars, flowVars, Reading, Serving
<1>2. CASE StartDial(c)
    BY <1>2 DEF StartDial, Upstream, Goes, ConnTypeOK, TunnelTypeOK, world, choices, tunnelVars, flowVars
<1> QED
    BY <1>1, <1>2, LeaveTypes, ReadTypes, TimeOutTypes, TunnelEndsTypes
       DEF HandlerRuns, ClientEnds, Malformed, RejectRequest, RefuseRequest, DialFails, DialTimesOut

\* The goroutine of a dial opens and closes one socket.
LEMMA DialerTypes ==
    ASSUME ConnTypeOK, NEW c \in Conns, DialerRuns(c)
    PROVE  ConnTypeOK'
<1>1. sock' \in At({"open", "closed"})
    BY SockTypes DEF DialerRuns, Ends, ConnTypeOK, TunnelTypeOK
<1>2. dialer' \in [Conns -> {"off", "on", "failed", "got"}]
    BY DEF DialerRuns, ConnTypeOK
<1> QED
    BY <1>1, <1>2 DEF DialerRuns, ConnTypeOK, TunnelTypeOK, world, choices, flowVars

\* A tunnel begins with what the readers hold.
LEMMA StartTunnelTypes ==
    ASSUME ConnTypeOK, NEW c \in Conns, StartTunnel(c),
           UNCHANGED <<world, choices, said, req, used, sock>>,
           dialer' \in [Conns -> {"off", "on", "failed", "got"}]
    PROVE  ConnTypeOK'
<1> USE TunnelAssumption DEF ConnTypeOK, TunnelTypeOK
<1>1. PICK early \in [Ends -> 0 .. MaxBytes] :
          /\ sent' = [sent EXCEPT ![c] = early]
          /\ buf' = [buf EXCEPT ![c] = [x \in Ends |-> [i \in 1 .. early[x] |-> i]]]
    BY DEF StartTunnel
<1>2. sent' \in At(0 .. MaxBytes)
    BY <1>1 DEF At
<1>3. buf' \in At(Seq(Nat))
  <2> DEFINE first == [x \in Ends |-> [i \in 1 .. early[x] |-> i]]
  <2>1. ASSUME NEW x \in Ends PROVE [i \in 1 .. early[x] |-> i] \in Seq(Nat)
    <3>1. early[x] \in Nat
        OBVIOUS
    <3>2. \A i \in 1 .. early[x] : i \in Nat
        BY <3>1
    <3> QED
        BY <3>1, <3>2, SeqDef
  <2>2. first \in [Ends -> Seq(Nat)]
      BY <2>1
  <2>3. buf' = [buf EXCEPT ![c] = first]
      BY <1>1
  <2> HIDE DEF first
  <2> QED
      BY <2>2, <2>3 DEF At
<1>4. peer' \in At({"open", "done", "gone"})
    BY DEF StartTunnel, At
<1>5. copy' \in At({"off", "on", "eof", "error"})
    BY DEF StartTunnel, At
<1> QED
    BY <1>2, <1>3, <1>4, <1>5 DEF StartTunnel, Goes, Owes, Serving, world, choices

\* What an upstream does keeps the types.
LEMMA UpstreamTypes ==
    ASSUME ConnTypeOK, NEW c \in Conns, UpstreamAnswers(c)
    PROVE  ConnTypeOK'
<1> USE DEF ConnTypeOK, Goes, Owes, world, choices, Serving
<1>1. CASE Connected(c)
  <2>1. sock' \in At({"open", "closed"})
      BY <1>1, SockTypes DEF Connected, Ends
  <2> QED
      BY <1>1, <2>1 DEF Connected, TunnelTypeOK, flowVars
<1>2. CASE UpstreamFails(c)
    BY <1>2, LeaveTypes DEF UpstreamFails
<1>3. CASE ThroughUpstream(c)
  <2>1. dialer' \in [Conns -> {"off", "on", "failed", "got"}]
      BY <1>3 DEF ThroughUpstream
  <2>2. CASE StartTunnel(c)
      BY <1>3, <2>1, <2>2, StartTunnelTypes DEF ThroughUpstream
  <2> QED
      BY <1>3, <2>1, <2>2 DEF ThroughUpstream, TunnelTypeOK, flowVars
<1>4. CASE SendRequest(c) \/ ReadResponse(c)
    BY <1>4 DEF SendRequest, ReadResponse, TunnelTypeOK, tunnelVars, flowVars
<1>5. CASE FinishResponse(c)
  <2>1. owed' \in [Conns -> {"nothing", "answer", "final", "rest"}]
      BY <1>5 DEF FinishResponse
  <2>2. CASE Return(c)
      BY <2>1, <2>2, ReturnTypes
  <2>3. CASE ~ Return(c)
    <3>1. sock' \in At({"open", "closed"})
        BY <1>5, <2>3, SockTypes DEF FinishResponse, Ends
    <3> QED
        BY <1>5, <2>1, <2>3, <3>1 DEF FinishResponse, TunnelTypeOK, flowVars, Reading
  <2> QED
      BY <2>2, <2>3
<1> QED
    BY <1>1, <1>2, <1>3, <1>4, <1>5 DEF UpstreamAnswers

\* Peers and copiers leave the handlers alone.
LEMMA TunnelStepTypes ==
    ASSUME ConnTypeOK, NEW c \in Conns, PeerActs(c) \/ \E x \in Ends : Copies(c, x)
    PROVE  ConnTypeOK' /\ UNCHANGED connVars
<1>1. TunnelTypeOK'
    BY PeerTypes, CopyTypes DEF PeerActs, Copies, ConnTypeOK
<1>2. UNCHANGED connVars
    BY DEF PeerActs, Copies
<1> QED
    BY <1>1, <1>2 DEF ConnTypeOK, connVars

\* Every step keeps the types.
LEMMA ConnTypeStep ==
    ASSUME ConnTypeOK, [ProxyNext]_proxyVars
    PROVE  ConnTypeOK'
<1>1. CASE ProxyNext
    BY <1>1, WorldTypes, AcceptTypes, SpeakTypes, HandlerTypes, DialerTypes, UpstreamTypes,
       TunnelStepTypes DEF ProxyNext
<1>2. CASE UNCHANGED proxyVars
    BY <1>2 DEF proxyVars, connVars, tunnelVars, flowVars, ConnTypeOK, TunnelTypeOK
<1> QED
    BY <1>1, <1>2

-----------------------------------------------------------------------------
(***************************************************************************)
(* The exit that a connection is pinned to                                 *)
(***************************************************************************)

\* The handler returns from anywhere.
LEMMA LeavePlaces ==
    ASSUME ConnTypeOK, NEW c \in Conns, Leave(c) \/ Refuse(c) \/ DialTimesOut(c)
    PROVE  /\ pc' = [pc EXCEPT ![c] = "closed"]
           /\ owed' \in {owed, [owed EXCEPT ![c] = "nothing"]}
           /\ UNCHANGED <<exit, account, offered, known, via, cred, said, req, dialer, used>>
           /\ UNCHANGED <<peer, copy, flowVars>>
           /\ \/ sock' = [sock EXCEPT ![c] = [x \in Ends |-> "closed"]]
              \/ pc[c] = "socksdial" /\ sock' = [sock EXCEPT ![c]["client"] = "closed"]
  BY DEF Leave, Refuse, DialTimesOut, Return, ReturnRemoteOpen, SetSock, Goes, Owes, world, choices

\* Every step keeps connections pinned.
LEMMA PinnedStep ==
    ASSUME ConnTypeOK, Pinned, [ProxyNext]_proxyVars
    PROVE  Pinned'
<1> USE DEF ConnTypeOK, Pinned
<1>1. CASE SwitchExit
    BY <1>1 DEF SwitchExit, choices
<1>2. CASE ChangeAccount
    BY <1>2 DEF ChangeAccount, choices
<1>3. ASSUME NEW c \in Conns, Accept(c) PROVE Pinned'
    BY <1>3 DEF Accept, Goes, choices
<1>4. ASSUME NEW c \in Conns, Leave(c) \/ Refuse(c) \/ DialTimesOut(c) PROVE Pinned'
    BY <1>4, LeavePlaces
<1>5. ASSUME NEW c \in Conns, ClientSpeaks(c) \/ DialerRuns(c) PROVE Pinned'
    BY <1>5 DEF ClientSpeaks, FirstByte, ClientSays, DialerRuns, Goes, world, choices
<1>6. ASSUME NEW c \in Conns, HandlerRuns(c) PROVE Pinned'
  <2>1. CASE TakeExit(c)
      BY <2>1 DEF TakeExit, Goes, world
  <2>2. CASE StartDial(c)
      BY <2>2 DEF StartDial, Upstream, Goes, world, choices
  <2>3. CASE TunnelEnds(c)
      BY <2>3 DEF TunnelEnds, Goes, world, choices
  <2>4. CASE ReadRequest(c)
      BY <2>4 DEF ReadRequest, Goes, world, choices
  <2>5. CASE ReadGreeting(c) \/ ReadCommand(c)
      BY <1>4, <2>5 DEF ReadGreeting, ReadCommand, Goes, world, choices
  <2>6. CASE ReadLogin(c)
      BY <1>4, <2>6 DEF ReadLogin, Login, Goes, world, choices
  <2> QED
      BY <1>4, <1>6, <2>1, <2>2, <2>3, <2>4, <2>5, <2>6
         DEF HandlerRuns, ClientEnds, Malformed, RejectRequest, RefuseRequest, DialFails
<1>7. ASSUME NEW c \in Conns, UpstreamAnswers(c) PROVE Pinned'
  <2>1. CASE UpstreamFails(c)
      BY <1>4, <2>1 DEF UpstreamFails
  <2>2. CASE Connected(c) \/ SendRequest(c) \/ ReadResponse(c)
      BY <2>2 DEF Connected, SendRequest, ReadResponse, Goes, world, choices
  <2>3. CASE ThroughUpstream(c)
      BY <2>3 DEF ThroughUpstream, StartTunnel, Goes, world, choices
  <2>4. CASE FinishResponse(c)
      BY <2>4 DEF FinishResponse, Return, Goes, world, choices
  <2> QED
      BY <1>7, <2>1, <2>2, <2>3, <2>4 DEF UpstreamAnswers
<1>8. CASE UNCHANGED connVars
    BY <1>8 DEF connVars
<1> QED
    BY <1>1, <1>2, <1>3, <1>5, <1>6, <1>7, <1>8, TunnelStepTypes DEF ProxyNext, proxyVars

-----------------------------------------------------------------------------
(***************************************************************************)
(* Accounts                                                                *)
(***************************************************************************)

\* Every step keeps what handlers know of accounts.
LEMMA CheckedStep ==
    ASSUME ConnTypeOK, Checked, [ProxyNext]_proxyVars
    PROVE  Checked'
<1> USE DEF ConnTypeOK, Checked
<1>1. CASE SwitchExit
    BY <1>1 DEF SwitchExit, choices
<1>2. CASE ChangeAccount
    BY <1>2 DEF ChangeAccount, choices
<1>3. ASSUME NEW c \in Conns, Accept(c) PROVE Checked'
    BY <1>3 DEF Accept, Goes, choices, Serving
<1>4. ASSUME NEW c \in Conns, Leave(c) \/ Refuse(c) \/ DialTimesOut(c) PROVE Checked'
    BY <1>4, LeavePlaces DEF Serving
<1>5. ASSUME NEW c \in Conns, ClientSpeaks(c) \/ DialerRuns(c) PROVE Checked'
    BY <1>5 DEF ClientSpeaks, FirstByte, ClientSays, DialerRuns, Goes, world, choices, Serving
<1>6. ASSUME NEW c \in Conns, HandlerRuns(c) PROVE Checked'
  <2>1. CASE TakeExit(c)
      BY <2>1 DEF TakeExit, Goes, world, Serving
  <2>2. CASE StartDial(c)
      BY <2>2 DEF StartDial, Authorized, Goes, world, choices, Serving
  <2>3. CASE TunnelEnds(c)
      BY <2>3 DEF TunnelEnds, Goes, world, choices, Serving
  <2>4. CASE ReadRequest(c)
      BY <2>4 DEF ReadRequest, Goes, world, choices, Serving
  <2>5. CASE ReadGreeting(c) \/ ReadCommand(c)
      BY <1>4, <2>5 DEF ReadGreeting, ReadCommand, Goes, world, choices, Serving
  <2>6. CASE ReadLogin(c)
      BY <1>4, <2>6 DEF ReadLogin, Login, Goes, world, choices, Serving
  <2> QED
      BY <1>4, <1>6, <2>1, <2>2, <2>3, <2>4, <2>5, <2>6
         DEF HandlerRuns, ClientEnds, Malformed, RejectRequest, RefuseRequest, DialFails
<1>7. ASSUME NEW c \in Conns, UpstreamAnswers(c) PROVE Checked'
  <2>1. CASE UpstreamFails(c)
      BY <1>4, <2>1 DEF UpstreamFails
  <2>2. CASE Connected(c) \/ SendRequest(c) \/ ReadResponse(c)
      BY <2>2 DEF Connected, SendRequest, ReadResponse, Goes, world, choices, Serving
  <2>3. CASE ThroughUpstream(c)
      BY <2>3 DEF ThroughUpstream, StartTunnel, Goes, world, choices, Serving
  <2>4. CASE FinishResponse(c)
      BY <2>4 DEF FinishResponse, Return, Goes, world, choices, Serving
  <2> QED
      BY <1>7, <2>1, <2>2, <2>3, <2>4 DEF UpstreamAnswers
<1>8. CASE UNCHANGED connVars
    BY <1>8 DEF connVars
<1> QED
    BY <1>1, <1>2, <1>3, <1>5, <1>6, <1>7, <1>8, TunnelStepTypes DEF ProxyNext, proxyVars

-----------------------------------------------------------------------------
(***************************************************************************)
(* Answers                                                                 *)
(***************************************************************************)

\* Only Accept brings a client; the start and the end of a tunnel concern the
\* peer at the remote end.
LEMMA GoneClients ==
    ASSUME ConnTypeOK, NEW c \in Conns, NEW d \in Conns, peer[d]["client"] = "gone",
           \/ PeerActs(c) \/ TunnelEnds(c) \/ StartTunnel(c)
           \/ \E x \in Ends : Copies(c, x)
    PROVE  peer'[d]["client"] = "gone"
<1> USE DEF ConnTypeOK, TunnelTypeOK, At
<1>1. "client" \in Ends /\ "remote" \in Ends
    BY DEF Ends
<1>2. ASSUME NEW x \in Ends, NEW v, peer' = [peer EXCEPT ![c][x] = v],
             v = "gone" \/ peer[c][x] # "gone" \/ x = "remote"
      PROVE  peer'[d]["client"] = "gone"
    BY <1>1, <1>2
<1>3. CASE TunnelEnds(c) \/ StartTunnel(c)
    BY <1>1, <1>2, <1>3 DEF TunnelEnds, StartTunnel
<1>4. CASE PeerActs(c)
  <2>1. PICK x \in Ends : PeerSends(c, x) \/ PeerReads(c, x) \/ PeerShuts(c, x) \/ PeerGoes(c, x)
      BY <1>4 DEF PeerActs
  <2>2. CASE PeerShuts(c, x)
      BY <1>2, <2>2 DEF PeerShuts
  <2>3. CASE PeerGoes(c, x)
      BY <1>2, <2>3 DEF PeerGoes
  <2> QED
      BY <2>1, <2>2, <2>3 DEF PeerSends, PeerReads
<1>5. CASE \E x \in Ends : Copies(c, x)
    BY <1>5 DEF Copies, CopyStep, CopyRead, CopyWrite, CopyEnds
<1> QED
    BY <1>3, <1>4, <1>5

\* No step drops a client that waits for an answer.
LEMMA AskedStep ==
    ASSUME ConnTypeOK, Asked, [ProxyNext]_proxyVars
    PROVE  Asked'
<1> USE DEF ConnTypeOK, Asked, Goes, Owes
<1>1. CASE SwitchExit \/ ChangeAccount
    BY <1>1 DEF SwitchExit, ChangeAccount, tunnelVars
<1>2. ASSUME NEW c \in Conns, Accept(c) PROVE Asked'
    BY <1>2 DEF Accept
<1>3. ASSUME NEW c \in Conns, Refuse(c) \/ DialTimesOut(c) PROVE Asked'
    BY <1>3 DEF Refuse, Return, DialTimesOut, ReturnRemoteOpen
<1>4. ASSUME NEW c \in Conns, ClientSpeaks(c) PROVE Asked'
    BY <1>4 DEF ClientSpeaks, FirstByte, ClientSays, Reading, tunnelVars
<1>5. ASSUME NEW c \in Conns, HandlerRuns(c) PROVE Asked'
  <2>1. CASE ClientEnds(c) \/ Malformed(c)
      BY <2>1 DEF ClientEnds, Malformed, Leave, Return, Reading
  <2>2. CASE TakeExit(c) \/ StartDial(c)
    <3>1. PICK place \in {"peek", "dialing", "socksdial"} :
              /\ pc' = [pc EXCEPT ![c] = place]
              /\ (pc[c] = "request" /\ place # "peek") \/ pc[c] = "accepted"
        BY <2>2 DEF TakeExit, StartDial
    <3>2. UNCHANGED <<owed, said, peer>>
        BY <2>2 DEF TakeExit, StartDial, tunnelVars
    <3> QED
        BY <3>1, <3>2 DEF Reading
  <2>3. CASE TunnelEnds(c)
      BY <2>3, GoneClients DEF TunnelEnds, Reading
  <2>4. CASE ReadRequest(c)
      BY <2>4 DEF ReadRequest, Hears, tunnelVars
  <2>5. CASE ReadGreeting(c) \/ ReadCommand(c)
      BY <1>3, <2>5 DEF ReadGreeting, ReadCommand, Hears, tunnelVars
  <2>6. CASE ReadLogin(c)
      BY <1>3, <2>6 DEF ReadLogin, Login, Hears, tunnelVars
  <2> QED
      BY <1>3, <1>5, <2>1, <2>2, <2>3, <2>4, <2>5, <2>6
         DEF HandlerRuns, RejectRequest, RefuseRequest, DialFails
<1>6. ASSUME NEW c \in Conns, DialerRuns(c) PROVE Asked'
    BY <1>6 DEF DialerRuns
<1>7. ASSUME NEW c \in Conns, UpstreamAnswers(c) PROVE Asked'
  <2>1. CASE Connected(c) \/ SendRequest(c) \/ ReadResponse(c)
      BY <2>1 DEF Connected, SendRequest, ReadResponse, tunnelVars
  <2>2. CASE ThroughUpstream(c)
    <3>1. \A d \in Conns : peer[d]["client"] = "gone" => peer'[d]["client"] = "gone"
        BY <2>2, GoneClients DEF ThroughUpstream
    <3> QED
        BY <2>2, <3>1 DEF ThroughUpstream, StartTunnel
  <2>3. CASE FinishResponse(c)
      BY <2>3 DEF FinishResponse, Return, Reading
  <2> QED
      BY <1>3, <1>7, <2>1, <2>2, <2>3 DEF UpstreamAnswers, UpstreamFails
<1>8. ASSUME NEW c \in Conns, PeerActs(c) PROVE Asked'
    BY <1>8, GoneClients, TunnelStepTypes DEF connVars
<1>9. ASSUME NEW c \in Conns, NEW x \in Ends, Copies(c, x) PROVE Asked'
    BY <1>9 DEF Copies, CopyStep, CopyRead, CopyWrite, CopyEnds, connVars
<1>10. CASE UNCHANGED proxyVars
    BY <1>10 DEF proxyVars, connVars, tunnelVars
<1> QED
    BY <1>1, <1>2, <1>4, <1>5, <1>6, <1>7, <1>8, <1>9, <1>10 DEF ProxyNext

-----------------------------------------------------------------------------
(***************************************************************************)
(* Sockets                                                                 *)
(***************************************************************************)

\* A copier closes sockets and opens none; a peer touches none.
LEMMA TunnelSockets ==
    ASSUME ConnTypeOK, NEW c \in Conns, PeerActs(c) \/ \E x \in Ends : Copies(c, x)
    PROVE  \A d \in Conns : sock'[d]["remote"] = "open" => sock[d]["remote"] = "open"
<1> USE DEF ConnTypeOK, TunnelTypeOK, At
<1>1. CASE PeerActs(c)
    BY <1>1 DEF PeerActs, PeerSends, PeerReads, PeerShuts, PeerGoes
<1>2. ASSUME NEW x \in Ends, Copies(c, x), NEW d \in Conns, sock'[d]["remote"] = "open"
      PROVE  sock[d]["remote"] = "open"
  <2>1. UNCHANGED sock \/ sock' = [sock EXCEPT ![c][Other(x)] = "closed"]
      BY <1>2 DEF Copies, CopyStep, CopyRead, CopyWrite, CopyEnds
  <2>2. "remote" \in Ends /\ Other(x) \in Ends
      BY DEF Ends, Other
  <2>3. CASE UNCHANGED sock
      BY <1>2, <2>3
  <2>4. CASE sock' = [sock EXCEPT ![c][Other(x)] = "closed"]
    <3>1. sock'[d]["remote"] = IF d = c /\ Other(x) = "remote" THEN "closed" ELSE sock[d]["remote"]
        BY <2>2, <2>4
    <3> QED
        BY <1>2, <3>1
  <2> QED
      BY <2>1, <2>3, <2>4
<1> QED
    BY <1>1, <1>2

\* A socket to an upstream is closed, or left to the goroutine that dials it.
LEMMA DialedStep ==
    ASSUME ConnTypeOK, Dialed, [ProxyNext]_proxyVars
    PROVE  Dialed'
<1> USE DEF ConnTypeOK, TunnelTypeOK, At, Dialed, Goes
<1> "remote" \in Ends /\ "client" \in Ends
    BY DEF Ends
<1>1. CASE SwitchExit \/ ChangeAccount
    BY <1>1 DEF SwitchExit, ChangeAccount, tunnelVars, choices
<1>2. ASSUME NEW c \in Conns, Accept(c) PROVE Dialed'
    BY <1>2 DEF Accept, SetSock, Serving, choices
<1>3. ASSUME NEW c \in Conns, Leave(c) \/ Refuse(c), pc[c] # "socksdial" \/ dialer[c] = "failed"
      PROVE  Dialed'
  <2>1. /\ pc' = [pc EXCEPT ![c] = "closed"] /\ UNCHANGED <<via, dialer>>
        /\ sock' = [sock EXCEPT ![c] = [x \in Ends |-> "closed"]]
      BY <1>3 DEF Leave, Refuse, Return, choices
  <2> QED
      BY <1>3, <2>1
<1>4. ASSUME NEW c \in Conns, ClientSpeaks(c) PROVE Dialed'
    BY <1>4 DEF ClientSpeaks, FirstByte, ClientSays, Serving, Reading, tunnelVars, choices
<1>5. ASSUME NEW c \in Conns, HandlerRuns(c) PROVE Dialed'
  <2>1. CASE TakeExit(c)
      BY <2>1 DEF TakeExit, Serving, tunnelVars
  <2>2. CASE StartDial(c)
    <3>1. pc[c] = "request" /\ UNCHANGED <<via, sock>>
        BY <2>2 DEF StartDial, tunnelVars, choices
    <3>2. CASE /\ via[c] \in Socks /\ pc' = [pc EXCEPT ![c] = "socksdial"]
               /\ dialer' = [dialer EXCEPT ![c] = "on"]
        BY <3>1, <3>2 DEF Serving
    <3>3. CASE pc' = [pc EXCEPT ![c] = "dialing"] /\ UNCHANGED dialer
        BY <3>1, <3>3 DEF Serving
    <3> QED
        BY <2>2, <3>2, <3>3 DEF StartDial, Upstream
  <2>3. CASE TunnelEnds(c)
      BY <2>3 DEF TunnelEnds, choices
  <2>4. CASE ReadRequest(c)
      BY <2>4 DEF ReadRequest, Serving, tunnelVars, choices
  <2>5. CASE ReadGreeting(c) \/ ReadCommand(c)
      BY <1>3, <2>5 DEF ReadGreeting, ReadCommand, Serving, tunnelVars, choices
  <2>6. CASE ReadLogin(c)
      BY <1>3, <2>6 DEF ReadLogin, Login, Serving, tunnelVars, choices
  <2>7. CASE DialTimesOut(c)
      BY <2>7 DEF DialTimesOut, ReturnRemoteOpen, SetSock, Serving, choices
  <2>8. CASE ClientEnds(c) \/ Malformed(c) \/ RejectRequest(c) \/ RefuseRequest(c) \/ DialFails(c)
      BY <1>3, <2>8 DEF ClientEnds, Malformed, RejectRequest, RefuseRequest, DialFails, Reading
  <2> QED
      BY <1>5, <2>1, <2>2, <2>3, <2>4, <2>5, <2>6, <2>7, <2>8 DEF HandlerRuns
<1>6. ASSUME NEW c \in Conns, DialerRuns(c) PROVE Dialed'
  <2>1. dialer[c] \in {"on", "got"} /\ UNCHANGED <<pc, via>>
      BY <1>6 DEF DialerRuns, choices
  <2>2. CASE sock' = [sock EXCEPT ![c]["remote"] = "open"] /\ UNCHANGED dialer
      BY <2>1, <2>2
  <2>3. CASE /\ sock' = [sock EXCEPT ![c]["remote"] = "closed"]
             /\ \E how \in {"failed", "off"} : dialer' = [dialer EXCEPT ![c] = how]
    <3>1. PICK how \in {"failed", "off"} : dialer' = [dialer EXCEPT ![c] = how]
        BY <2>3
    <3>2. sock'[c]["remote"] = "closed" /\ dialer'[c] = how
        BY <2>3, <3>1
    <3>3. ASSUME NEW d \in Conns, d # c
          PROVE  sock'[d]["remote"] = sock[d]["remote"] /\ dialer'[d] = dialer[d]
        BY <2>3, <3>1, <3>3
    <3> QED
        BY <2>1, <3>2, <3>3
  <2>4. CASE UNCHANGED sock /\ dialer' = [dialer EXCEPT ![c] = "got"]
      BY <2>1, <2>4
  <2> QED
      BY <1>6, <2>2, <2>3, <2>4 DEF DialerRuns, SetSock
<1>7. ASSUME NEW c \in Conns, UpstreamAnswers(c) PROVE Dialed'
  <2>1. CASE Connected(c)
      BY <2>1 DEF Connected, SetSock, Serving, choices
  <2>2. CASE SendRequest(c) \/ ReadResponse(c)
      BY <2>2 DEF SendRequest, ReadResponse, Serving, tunnelVars, choices
  <2>3. CASE ThroughUpstream(c)
    <3>1. PICK place \in {"tunnel", "sending"} : pc' = [pc EXCEPT ![c] = place]
        BY <2>3 DEF ThroughUpstream, StartTunnel
    <3>2. UNCHANGED <<via, sock>>
        BY <2>3 DEF ThroughUpstream, choices
    <3>3. CASE pc[c] = "asking" /\ UNCHANGED dialer
        BY <3>1, <3>2, <3>3 DEF Serving
    <3>4. CASE dialer' = [dialer EXCEPT ![c] = "off"]
      <4>1. pc'[c] \in Serving /\ dialer'[c] = "off"
          BY <3>1, <3>4 DEF Serving
      <4>2. ASSUME NEW d \in Conns, d # c PROVE pc'[d] = pc[d] /\ dialer'[d] = dialer[d]
          BY <3>1, <3>4, <4>2
      <4> QED
          BY <3>2, <4>1, <4>2
    <3> QED
        BY <2>3, <3>3, <3>4 DEF ThroughUpstream
  <2>4. CASE FinishResponse(c)
    <3>1. CASE /\ pc' = [pc EXCEPT ![c] = "http"]
               /\ sock' = [sock EXCEPT ![c]["remote"] = "closed"]
        BY <2>4, <3>1 DEF FinishResponse, Return, choices
    <3>2. CASE Return(c)
        BY <2>4, <3>2 DEF FinishResponse, Return, choices
    <3> QED
        BY <2>4, <3>1, <3>2 DEF FinishResponse, SetSock
  <2>5. CASE UpstreamFails(c)
      BY <1>3, <2>5 DEF UpstreamFails
  <2> QED
      BY <1>7, <2>1, <2>2, <2>3, <2>4, <2>5 DEF UpstreamAnswers
<1>8. ASSUME NEW c \in Conns, PeerActs(c) \/ \E x \in Ends : Copies(c, x)
      PROVE  Dialed'
    BY <1>8, TunnelSockets, TunnelStepTypes DEF connVars
<1>9. CASE UNCHANGED proxyVars
    BY <1>9 DEF proxyVars, connVars, tunnelVars
<1> QED
    BY <1>1, <1>2, <1>4, <1>5, <1>6, <1>7, <1>8, <1>9 DEF ProxyNext

-----------------------------------------------------------------------------
(***************************************************************************)
(* Bytes                                                                   *)
(***************************************************************************)

\* The copier takes what the bufio.Reader holds.
LEMMA ReadsBuffer ==
    ASSUME NEW w \in Seq(Nat), NEW b \in Seq(Nat), NEW i \in Seq(Nat), GoesOn(w, <<>>, b, i)
    PROVE  GoesOn(w, b, <<>>, i)
  BY DEF GoesOn

\* It takes what the socket holds, when the bufio.Reader has nothing.
LEMMA ReadsInbox ==
    ASSUME NEW w \in Seq(Nat), NEW i \in Seq(Nat), GoesOn(w, <<>>, <<>>, i)
    PROVE  GoesOn(w, i, <<>>, <<>>)
  BY DEF GoesOn

\* It writes the first byte of those it has in hand.
LEMMA Writes ==
    ASSUME NEW w \in Seq(Nat), NEW h \in Seq(Nat), NEW b \in Seq(Nat), NEW i \in Seq(Nat),
           h # <<>>, GoesOn(w, h, b, i), \A k \in 1 .. Len(w) : w[k] = k
    PROVE  /\ GoesOn(Append(w, Head(h)), Tail(h), b, i)
           /\ \A k \in 1 .. Len(Append(w, Head(h))) : Append(w, Head(h))[k] = k
           /\ Len(Append(w, Head(h))) = Len(w) + 1
           /\ Len(Tail(h)) = Len(h) - 1
<1>1. Len(h) \in Nat \ {0} /\ Len(w) \in Nat
    OBVIOUS
<1>2. Head(h) = Len(w) + 1
    BY <1>1 DEF GoesOn
<1>3. /\ Len(Append(w, Head(h))) = Len(w) + 1
      /\ \A k \in 1 .. Len(w) : Append(w, Head(h))[k] = w[k]
      /\ Append(w, Head(h))[Len(w) + 1] = Head(h)
    BY <1>2, AppendProperties
<1>4. \A k \in 1 .. Len(w) + 1 : Append(w, Head(h))[k] = k
    BY <1>1, <1>2, <1>3
<1>5. Len(Tail(h)) = Len(h) - 1 /\ \A k \in 1 .. Len(Tail(h)) : Tail(h)[k] = h[k + 1]
    BY HeadTailProperties
<1>6. \A k \in 1 .. Len(Tail(h)) : Tail(h)[k] = Len(w) + 1 + k
    BY <1>1, <1>5 DEF GoesOn
<1>7. GoesOn(Append(w, Head(h)), Tail(h), b, i)
  <2>1. Len(w) + 1 + (Len(h) - 1) = Len(w) + Len(h)
      BY <1>1
  <2> QED
      BY <1>3, <1>5, <1>6, <2>1 DEF GoesOn
<1> QED
    BY <1>3, <1>4, <1>5, <1>7

\* The next byte of the stream arrives at the socket.
LEMMA Sends ==
    ASSUME NEW w \in Seq(Nat), NEW h \in Seq(Nat), NEW b \in Seq(Nat), NEW i \in Seq(Nat),
           NEW n \in Nat, n = Len(w) + Len(h) + Len(b) + Len(i), GoesOn(w, h, b, i)
    PROVE  /\ GoesOn(w, h, b, Append(i, n + 1))
           /\ n + 1 = Len(w) + Len(h) + Len(b) + Len(Append(i, n + 1))
<1>1. /\ Len(Append(i, n + 1)) = Len(i) + 1
      /\ \A k \in 1 .. Len(i) : Append(i, n + 1)[k] = i[k]
      /\ Append(i, n + 1)[Len(i) + 1] = n + 1
    BY AppendProperties
<1>2. ASSUME NEW k \in 1 .. Len(i) + 1
      PROVE  Append(i, n + 1)[k] = Len(w) + Len(h) + Len(b) + k
    BY <1>1 DEF GoesOn
<1> QED
    BY <1>1, <1>2 DEF GoesOn

\* What is in the socket is dropped.
LEMMA Drops ==
    ASSUME NEW w, NEW h, NEW b, NEW i, GoesOn(w, h, b, i)
    PROVE  GoesOn(w, h, b, <<>>)
  BY DEF GoesOn

\* A direction of a tunnel that a step does not touch.
LEMMA FlowsKept ==
    ASSUME NEW d \in Conns, NEW z \in Ends, Flows(d, z),
           pc'[d] = pc[d] \/ (pc[d] # "tunnel" /\ pc'[d] # "tunnel"),
           pc[d] = "tunnel" => /\ sock'[d][z] = sock[d][z]
                               /\ peer'[d][z] \in {peer[d][z], "done"}
                               /\ peer[d][z] = "gone" => peer'[d][z] = "gone",
           copy'[d][z] = copy[d][z], lost'[d][z] = lost[d][z],
           sent'[d][z] = sent[d][z], buf'[d][z] = buf[d][z], inbox'[d][z] = inbox[d][z],
           held'[d][z] = held[d][z], written'[d][z] = written[d][z]
    PROVE  Flows(d, z)'
  BY DEF Flows, GoesOn

\* A step at one end of a tunnel.
LEMMA OneFlows ==
    ASSUME Copied, NEW c \in Conns, NEW x \in Ends, UNCHANGED pc, Flows(c, x)',
           \A d \in Conns, z \in Ends : d # c \/ z # x =>
               /\ sock'[d][z] = sock[d][z] /\ peer'[d][z] = peer[d][z]
               /\ copy'[d][z] = copy[d][z] /\ lost'[d][z] = lost[d][z]
               /\ sent'[d][z] = sent[d][z] /\ buf'[d][z] = buf[d][z]
               /\ inbox'[d][z] = inbox[d][z] /\ held'[d][z] = held[d][z]
               /\ written'[d][z] = written[d][z]
    PROVE  Copied'
<1> SUFFICES ASSUME NEW d \in Conns, NEW z \in Ends, d # c \/ z # x
             PROVE  Flows(d, z)'
    BY DEF Copied
<1>1. Flows(d, z)
    BY DEF Copied
<1> QED
    BY <1>1, FlowsKept

\* A read moves bytes from the bufio.Reader or the socket to the copier's hand.
LEMMA ReadFlows ==
    ASSUME ConnTypeOK, Copied, NEW c \in Conns, NEW x \in Ends, CopyRead(c, x), UNCHANGED pc
    PROVE  Copied'
<1>1. /\ written[c][x] \in Seq(Nat) /\ buf[c][x] \in Seq(Nat) /\ inbox[c][x] \in Seq(Nat)
      /\ held[c][x] = <<>> /\ copy[c][x] = "on"
      /\ UNCHANGED <<peer, sock, copy, sent, written, lost>>
    BY DEF CopyRead, ConnTypeOK, TunnelTypeOK, At
<1>2. Flows(c, x)
    BY DEF Copied
<1>3. pc[c] = "tunnel"
    BY <1>1, <1>2 DEF Flows
<1>4. Flows(c, x)'
  <2>1. CASE buf[c][x] # <<>>
    <3>1. /\ held'[c][x] = buf[c][x] /\ buf'[c][x] = <<>> /\ inbox'[c][x] = inbox[c][x]
        BY <2>1 DEF CopyRead, ReadsSocket, ConnTypeOK, TunnelTypeOK, At
    <3>2. GoesOn(written[c][x], buf[c][x], <<>>, inbox[c][x])
        BY <1>1, <1>2, ReadsBuffer DEF Flows
    <3>3. /\ Len(held[c][x]) = 0 /\ Len(buf'[c][x]) = 0
          /\ Len(written[c][x]) \in Nat /\ Len(buf[c][x]) \in Nat /\ Len(inbox[c][x]) \in Nat
        BY <1>1, <3>1
    <3>4. ~ lost[c][x] /\ peer[c][x] # "gone" =>
              sent[c][x] = Len(written[c][x]) + Len(buf[c][x]) + 0 + Len(inbox[c][x])
      <4>1. ~ lost[c][x] /\ peer[c][x] # "gone" =>
                sent[c][x] = Len(written[c][x]) + Len(held[c][x]) + Len(buf[c][x]) + Len(inbox[c][x])
          BY <1>1, <1>2 DEF Flows
      <4> DEFINE kw == Len(written[c][x])  kh == Len(held[c][x])
                 kb == Len(buf[c][x])  ki == Len(inbox[c][x])
      <4>2. kw \in Nat /\ kh = 0 /\ kb \in Nat /\ ki \in Nat
          BY <3>3
      <4> HIDE DEF kw, kh, kb, ki
      <4>3. kw + kh + kb + ki = kw + kb + 0 + ki
          BY <4>2
      <4> QED
          BY <4>1, <4>3 DEF kw, kh, kb, ki
    <3> QED
        BY <1>1, <1>2, <1>3, <3>1, <3>2, <3>3, <3>4 DEF Flows
  <2>2. CASE buf[c][x] = <<>>
    <3>1. /\ held'[c][x] = inbox[c][x] /\ buf'[c][x] = <<>> /\ inbox'[c][x] = <<>>
        BY <2>2 DEF CopyRead, ReadsSocket, ConnTypeOK, TunnelTypeOK, At
    <3>2. GoesOn(written[c][x], inbox[c][x], <<>>, <<>>)
        BY <1>1, <1>2, <2>2, ReadsInbox DEF Flows
    <3>3. /\ Len(held[c][x]) = 0 /\ Len(buf[c][x]) = 0 /\ Len(inbox'[c][x]) = 0
          /\ Len(written[c][x]) \in Nat /\ Len(inbox[c][x]) \in Nat
        BY <1>1, <2>2, <3>1
    <3>4. ~ lost[c][x] /\ peer[c][x] # "gone" =>
              sent[c][x] = Len(written[c][x]) + Len(inbox[c][x]) + 0 + 0
      <4>1. ~ lost[c][x] /\ peer[c][x] # "gone" =>
                sent[c][x] = Len(written[c][x]) + Len(held[c][x]) + Len(buf[c][x]) + Len(inbox[c][x])
          BY <1>1, <1>2 DEF Flows
      <4> DEFINE kw == Len(written[c][x])  kh == Len(held[c][x])
                 kb == Len(buf[c][x])  ki == Len(inbox[c][x])
      <4>2. kw \in Nat /\ kh = 0 /\ kb = 0 /\ ki \in Nat
          BY <3>3
      <4> HIDE DEF kw, kh, kb, ki
      <4>3. kw + kh + kb + ki = kw + ki + 0 + 0
          BY <4>2
      <4> QED
          BY <4>1, <4>3 DEF kw, kh, kb, ki
    <3> QED
        BY <1>1, <1>2, <1>3, <2>2, <3>1, <3>2, <3>3, <3>4 DEF Flows
  <2> QED
      BY <2>1, <2>2
<1>5. ASSUME NEW d \in Conns, NEW z \in Ends, d # c \/ z # x
      PROVE  buf'[d][z] = buf[d][z] /\ inbox'[d][z] = inbox[d][z] /\ held'[d][z] = held[d][z]
  <2>1. PICK s : held' = [held EXCEPT ![c][x] = s]
      BY DEF CopyRead
  <2>2. /\ buf' = buf \/ buf' = [buf EXCEPT ![c][x] = <<>>]
        /\ inbox' = inbox \/ inbox' = [inbox EXCEPT ![c][x] = <<>>]
      BY DEF CopyRead
  <2>3. /\ held'[d][z] = held[d][z]
        /\ buf'[d][z] = buf[d][z] /\ inbox'[d][z] = inbox[d][z]
    <3>1. held'[d][z] = held[d][z]
        BY <1>5, <2>1 DEF ConnTypeOK, TunnelTypeOK, At
    <3>2. buf'[d][z] = buf[d][z]
      <4>1. CASE buf' = [buf EXCEPT ![c][x] = <<>>]
          BY <1>5, <4>1 DEF ConnTypeOK, TunnelTypeOK, At
      <4> QED
          BY <2>2, <4>1
    <3>3. inbox'[d][z] = inbox[d][z]
      <4>1. CASE inbox' = [inbox EXCEPT ![c][x] = <<>>]
          BY <1>5, <4>1 DEF ConnTypeOK, TunnelTypeOK, At
      <4> QED
          BY <2>2, <4>1
    <3> QED
        BY <3>1, <3>2, <3>3
  <2> QED
      BY <2>3
<1> QED
    BY <1>1, <1>4, <1>5, OneFlows

\* A write moves the first byte of it to the stream that was written.
LEMMA WriteFlows ==
    ASSUME ConnTypeOK, Copied, NEW c \in Conns, NEW x \in Ends, CopyWrite(c, x), UNCHANGED pc
    PROVE  Copied'
<1> DEFINE w == written[c][x]  h == held[c][x]
<1>1. /\ w \in Seq(Nat) /\ h \in Seq(Nat) /\ buf[c][x] \in Seq(Nat) /\ inbox[c][x] \in Seq(Nat)
      /\ h # <<>> /\ copy[c][x] = "on"
      /\ UNCHANGED <<peer, sock, copy, sent, buf, inbox, lost>>
      /\ held'[c][x] = Tail(h) /\ written'[c][x] = Append(w, Head(h))
    BY DEF CopyWrite, ConnTypeOK, TunnelTypeOK, At
<1>2. Flows(c, x)
    BY DEF Copied
<1>3. pc[c] = "tunnel"
    BY <1>1, <1>2 DEF Flows
<1>4. /\ GoesOn(Append(w, Head(h)), Tail(h), buf[c][x], inbox[c][x])
      /\ \A k \in 1 .. Len(Append(w, Head(h))) : Append(w, Head(h))[k] = k
      /\ Len(Append(w, Head(h))) = Len(w) + 1
      /\ Len(Tail(h)) = Len(h) - 1
  <2>1. GoesOn(w, h, buf[c][x], inbox[c][x]) /\ \A k \in 1 .. Len(w) : w[k] = k
      BY <1>1, <1>2 DEF Flows
  <2> QED
      BY <1>1, <2>1, Writes
<1>5. Len(written'[c][x]) + Len(held'[c][x]) = Len(w) + Len(h)
  <2>1. Len(w) \in Nat /\ Len(h) \in Nat
      BY <1>1
  <2>2. Len(written'[c][x]) = Len(w) + 1 /\ Len(held'[c][x]) = Len(h) - 1
      BY <1>1, <1>4
  <2> HIDE DEF w, h
  <2> QED
      BY <2>1, <2>2
<1>6. Flows(c, x)'
    BY <1>1, <1>2, <1>3, <1>4, <1>5 DEF Flows
<1>7. ASSUME NEW d \in Conns, NEW z \in Ends, d # c \/ z # x
      PROVE  held'[d][z] = held[d][z] /\ written'[d][z] = written[d][z]
    BY <1>7 DEF CopyWrite, ConnTypeOK, TunnelTypeOK, At
<1> QED
    BY <1>1, <1>6, <1>7, OneFlows

\* The end of a copier: at the end of the stream everything has been written,
\* and what is dropped is marked as lost.
LEMMA EndFlows ==
    ASSUME ConnTypeOK, Copied, NEW c \in Conns, NEW x \in Ends, CopyEnds(c, x), UNCHANGED pc
    PROVE  Copied'
<1> USE DEF ConnTypeOK, TunnelTypeOK, At
<1> DEFINE y == Other(x)
<1>1. y \in Ends /\ y # x /\ \A z \in Ends : z = x \/ z = y
    BY DEF Ends, Other
<1>2. Flows(c, x) /\ Flows(c, y)
    BY <1>1 DEF Copied
<1>3. copy[c][x] = "on" /\ UNCHANGED <<peer, sent, buf, written>>
    BY DEF CopyEnds
<1>4. pc[c] = "tunnel"
    BY <1>2, <1>3 DEF Flows
<1>5. Flows(c, x)'
  <2>1. /\ sock'[c][x] = sock[c][x] /\ inbox'[c][x] = inbox[c][x] /\ held'[c][x] = <<>>
        /\ lost'[c][x] = (lost[c][x] \/ held[c][x] # <<>>)
      BY <1>1 DEF CopyEnds
  <2>2. CASE AtEOF(c, x) /\ copy'[c][x] = "eof"
    <3>1. /\ held[c][x] = <<>> /\ buf[c][x] = <<>> /\ inbox[c][x] = <<>>
          /\ sock[c][x] = "open" /\ peer[c][x] = "done"
        BY <2>2 DEF AtEOF, ReadsSocket
    <3>2. ~ lost[c][x]
        BY <1>2, <1>3, <3>1 DEF Flows
    <3>3. Len(written[c][x]) \in Nat /\ Len(<<>>) = 0
        OBVIOUS
    <3>4. sent[c][x] = Len(written[c][x])
        BY <1>2, <1>3, <3>1, <3>2, <3>3 DEF Flows
    <3> QED
        BY <1>2, <1>3, <1>4, <2>1, <2>2, <3>1, <3>4 DEF Flows
  <2>3. CASE copy'[c][x] = "error"
      BY <1>2, <1>3, <1>4, <2>1, <2>3 DEF Flows
  <2> QED
      BY <2>2, <2>3 DEF CopyEnds
<1>6. Flows(c, y)'
  <2>1. /\ sock'[c][y] = "closed" /\ inbox'[c][y] = <<>>
        /\ held'[c][y] = held[c][y] /\ copy'[c][y] = copy[c][y]
      BY <1>1 DEF CopyEnds
  <2>2. lost'[c][y] = (lost[c][y] \/ (sock[c][y] = "open" /\ inbox[c][y] # <<>>))
      BY <1>1 DEF CopyEnds
  <2>3. ~ lost'[c][y] => ~ lost[c][y] /\ inbox[c][y] = <<>>
    <3>1. ~ lost'[c][y] => ~ lost[c][y] /\ (sock[c][y] # "open" \/ inbox[c][y] = <<>>)
        BY <2>2
    <3>2. sock[c][y] # "open" => sock[c][y] = "closed"
        BY <1>1
    <3>3. sock[c][y] = "closed" => inbox[c][y] = <<>>
        BY <1>2 DEF Flows
    <3> QED
        BY <3>1, <3>2, <3>3
  <2>4. copy[c][y] = "on" => GoesOn(written[c][y], held[c][y], buf[c][y], <<>>)
      BY <1>2, Drops DEF Flows
  <2> QED
      BY <1>2, <1>3, <1>4, <2>1, <2>3, <2>4 DEF Flows
<1>7. ASSUME NEW d \in Conns, NEW z \in Ends, d # c
      PROVE  Flows(d, z)'
  <2>1. /\ sock'[d][z] = sock[d][z] /\ inbox'[d][z] = inbox[d][z] /\ held'[d][z] = held[d][z]
        /\ copy'[d][z] = copy[d][z] /\ lost'[d][z] = lost[d][z]
      BY <1>1, <1>7 DEF CopyEnds
  <2>2. Flows(d, z)
      BY DEF Copied
  <2> QED
      BY <1>3, <2>1, <2>2, FlowsKept
<1> QED
    BY <1>1, <1>5, <1>6, <1>7 DEF Copied

\* Peers continue their streams where they are, and do not unsay their ends.
LEMMA PeersFlow ==
    ASSUME ConnTypeOK, Copied, NEW c \in Conns, PeerActs(c)
    PROVE  Copied'
<1> USE DEF ConnTypeOK, TunnelTypeOK, At
<1>1. UNCHANGED pc
    BY DEF PeerActs, connVars
<1>2. ASSUME NEW x \in Ends, PeerSends(c, x), pc[c] = "tunnel" PROVE Copied'
  <2> DEFINE w == written[c][x]  h == held[c][x]  b == buf[c][x]  i == inbox[c][x]  n == sent[c][x]
  <2>1. /\ w \in Seq(Nat) /\ h \in Seq(Nat) /\ b \in Seq(Nat) /\ i \in Seq(Nat) /\ n \in Nat
        /\ peer[c][x] = "open" /\ sock[c][x] = "open"
        /\ UNCHANGED <<peer, sock, copy, buf, held, written, lost>>
        /\ sent'[c][x] = n + 1 /\ inbox'[c][x] = Append(i, n + 1)
    <3>1. w \in Seq(Nat) /\ h \in Seq(Nat) /\ b \in Seq(Nat) /\ i \in Seq(Nat)
        OBVIOUS
    <3>2. n \in Nat
        BY TunnelAssumption
    <3> QED
        BY <1>2, <3>1, <3>2 DEF PeerSends
  <2>2. Flows(c, x)
      BY DEF Copied
  <2>3. copy[c][x] # "eof"
      BY <2>1, <2>2 DEF Flows
  <2>4. copy[c][x] = "on" => /\ GoesOn(w, h, b, Append(i, n + 1))
                             /\ n + 1 = Len(w) + Len(h) + Len(b) + Len(Append(i, n + 1))
    <3> SUFFICES ASSUME copy[c][x] = "on"
                 PROVE  /\ GoesOn(w, h, b, Append(i, n + 1))
                        /\ n + 1 = Len(w) + Len(h) + Len(b) + Len(Append(i, n + 1))
        OBVIOUS
    <3>1. GoesOn(w, h, b, i) /\ n = Len(w) + Len(h) + Len(b) + Len(i)
        BY <2>1, <2>2 DEF Flows
    <3> HIDE DEF w, h, b, i, n
    <3> QED
        BY <2>1, <3>1, Sends
  <2>5. Flows(c, x)'
      BY <1>1, <1>2, <2>1, <2>2, <2>3, <2>4 DEF Flows
  <2>6. ASSUME NEW d \in Conns, NEW z \in Ends, d # c \/ z # x
        PROVE  sent'[d][z] = sent[d][z] /\ inbox'[d][z] = inbox[d][z]
      BY <1>2, <2>6 DEF PeerSends
  <2> QED
      BY <1>1, <2>1, <2>5, <2>6, OneFlows
<1>3. ASSUME NEW x \in Ends, PeerReads(c, x) PROVE Copied'
    BY <1>1, <1>3, FlowsKept DEF PeerReads, Copied
<1>4. ASSUME NEW x \in Ends, PeerShuts(c, x) PROVE Copied'
  <2>1. /\ UNCHANGED <<sock, copy, sent, buf, inbox, held, written, lost>>
        /\ peer'[c][x] = "done" /\ peer[c][x] = "open"
      BY <1>4 DEF PeerShuts, flowVars
  <2>2. Flows(c, x)'
      BY <1>1, <2>1 DEF Copied, Flows
  <2>3. ASSUME NEW d \in Conns, NEW z \in Ends, d # c \/ z # x
        PROVE  peer'[d][z] = peer[d][z]
      BY <1>4, <2>3 DEF PeerShuts
  <2> QED
      BY <1>1, <2>1, <2>2, <2>3, OneFlows
<1>5. ASSUME NEW x \in Ends, PeerGoes(c, x) PROVE Copied'
  <2>1. /\ UNCHANGED <<sock, copy, sent, buf, held, written, lost>>
        /\ inbox'[c][x] = <<>> /\ peer'[c][x] = "gone"
      BY <1>5 DEF PeerGoes
  <2>2. Flows(c, x)
      BY DEF Copied
  <2>3. copy[c][x] = "on" => GoesOn(written[c][x], held[c][x], buf[c][x], <<>>)
      BY <2>2, Drops DEF Flows
  <2>4. Flows(c, x)'
      BY <1>1, <2>1, <2>2, <2>3 DEF Flows
  <2>5. ASSUME NEW d \in Conns, NEW z \in Ends, d # c \/ z # x
        PROVE  peer'[d][z] = peer[d][z] /\ inbox'[d][z] = inbox[d][z]
      BY <1>5, <2>5 DEF PeerGoes
  <2> QED
      BY <1>1, <2>1, <2>4, <2>5, OneFlows
<1> QED
    BY <1>2, <1>3, <1>4, <1>5 DEF PeerActs

\* A step of a handler that has no tunnel before or after it.
LEMMA OutsideFlows ==
    ASSUME Copied, NEW c \in Conns, pc[c] # "tunnel", pc'[c] # "tunnel",
           UNCHANGED <<copy, flowVars>>,
           \A d \in Conns : d # c => pc'[d] = pc[d] /\ sock'[d] = sock[d] /\ peer'[d] = peer[d]
    PROVE  Copied'
<1> SUFFICES ASSUME NEW d \in Conns, NEW z \in Ends PROVE Flows(d, z)'
    BY DEF Copied
<1>1. Flows(d, z)
    BY DEF Copied
<1>2. UNCHANGED <<copy, sent, buf, inbox, held, written, lost>>
    BY DEF flowVars
<1> QED
    BY <1>1, <1>2, FlowsKept

\* A step that touches nothing of a tunnel.
LEMMA AllFlows ==
    ASSUME Copied, UNCHANGED <<pc, peer, sock, copy, flowVars>>
    PROVE  Copied'
<1> SUFFICES ASSUME NEW d \in Conns, NEW z \in Ends PROVE Flows(d, z)'
    BY DEF Copied
<1>1. Flows(d, z)
    BY DEF Copied
<1> QED
    BY <1>1, FlowsKept DEF flowVars

\* A tunnel begins with the first bytes of both streams in the readers.
LEMMA StartFlows ==
    ASSUME ConnTypeOK, Copied, NEW c \in Conns, pc[c] # "tunnel", StartTunnel(c), UNCHANGED sock
    PROVE  Copied'
<1> USE DEF ConnTypeOK, TunnelTypeOK, At
<1>1. PICK early \in [Ends -> 0 .. MaxBytes] :
          /\ sent' = [sent EXCEPT ![c] = early]
          /\ buf' = [buf EXCEPT ![c] = [x \in Ends |-> [i \in 1 .. early[x] |-> i]]]
    BY DEF StartTunnel
<1>2. /\ pc' = [pc EXCEPT ![c] = "tunnel"] /\ peer' = [peer EXCEPT ![c]["remote"] = "open"]
      /\ copy' = [copy EXCEPT ![c] = [x \in Ends |-> "on"]]
      /\ UNCHANGED <<inbox, held, written, lost>>
    BY DEF StartTunnel, Goes
<1>3. ASSUME NEW z \in Ends PROVE Flows(c, z)'
  <2>1. /\ inbox'[c][z] = <<>> /\ held'[c][z] = <<>> /\ written'[c][z] = <<>> /\ ~ lost'[c][z]
      BY <1>2 DEF Copied, Flows
  <2>2. copy'[c][z] = "on" /\ pc'[c] = "tunnel" /\ sent'[c][z] = early[z] /\ early[z] \in Nat
      BY <1>1, <1>2, TunnelAssumption
  <2>3. buf'[c][z] = [i \in 1 .. early[z] |-> i]
      BY <1>1
  <2>4. Len(buf'[c][z]) = early[z] /\ \A k \in 1 .. early[z] : buf'[c][z][k] = k
      BY <2>2, <2>3
  <2>5. GoesOn(<<>>, <<>>, buf'[c][z], <<>>)
      BY <2>2, <2>4 DEF GoesOn
  <2>6. sent'[c][z] = Len(<<>>) + Len(<<>>) + Len(buf'[c][z]) + Len(<<>>)
      BY <2>2, <2>4
  <2> QED
      BY <2>1, <2>2, <2>5, <2>6 DEF Flows
<1>4. ASSUME NEW d \in Conns, NEW z \in Ends, d # c PROVE Flows(d, z)'
  <2>1. /\ pc'[d] = pc[d] /\ peer'[d][z] = peer[d][z] /\ copy'[d][z] = copy[d][z]
        /\ sent'[d][z] = sent[d][z] /\ buf'[d][z] = buf[d][z]
      BY <1>1, <1>2, <1>4
  <2>2. Flows(d, z)
      BY DEF Copied
  <2> QED
      BY <1>2, <2>1, <2>2, FlowsKept
<1> QED
    BY <1>3, <1>4 DEF Copied

\* One that ends leaves nothing.
LEMMA TunnelEndFlows ==
    ASSUME ConnTypeOK, Copied, NEW c \in Conns, TunnelEnds(c)
    PROVE  Copied'
<1> USE DEF ConnTypeOK, TunnelTypeOK, At
<1>1. ASSUME NEW z \in Ends PROVE Flows(c, z)'
  <2>1. /\ inbox'[c][z] = <<>> /\ held'[c][z] = <<>> /\ written'[c][z] = <<>> /\ ~ lost'[c][z]
        /\ copy'[c][z] = "off" /\ pc'[c] = "closed"
      BY DEF TunnelEnds, Goes, NoBytes
  <2> QED
      BY <2>1 DEF Flows
<1>2. ASSUME NEW d \in Conns, NEW z \in Ends, d # c PROVE Flows(d, z)'
  <2>1. /\ pc'[d] = pc[d] /\ peer'[d][z] = peer[d][z] /\ copy'[d][z] = copy[d][z]
        /\ sent'[d][z] = sent[d][z] /\ buf'[d][z] = buf[d][z] /\ inbox'[d][z] = inbox[d][z]
        /\ held'[d][z] = held[d][z] /\ written'[d][z] = written[d][z]
        /\ lost'[d][z] = lost[d][z] /\ sock'[d][z] = sock[d][z]
      BY <1>2 DEF TunnelEnds, Goes
  <2>2. Flows(d, z)
      BY DEF Copied
  <2> QED
      BY <2>1, <2>2, FlowsKept
<1> QED
    BY <1>1, <1>2 DEF Copied

\* Every step keeps both streams whole.
LEMMA CopiedStep ==
    ASSUME ConnTypeOK, Dialed, Copied, [ProxyNext]_proxyVars
    PROVE  Copied'
<1> USE DEF ConnTypeOK, Goes
<1>1. CASE SwitchExit \/ ChangeAccount
  <2>1. UNCHANGED <<pc, peer, sock, copy, flowVars>>
      BY <1>1 DEF SwitchExit, ChangeAccount, tunnelVars
  <2> QED
      BY <2>1, AllFlows
<1>2. ASSUME NEW c \in Conns, Accept(c) PROVE Copied'
  <2>1. pc[c] # "tunnel" /\ pc'[c] # "tunnel" /\ UNCHANGED <<copy, flowVars>>
      BY <1>2 DEF Accept
  <2>2. ASSUME NEW d \in Conns, d # c
        PROVE  pc'[d] = pc[d] /\ sock'[d] = sock[d] /\ peer'[d] = peer[d]
      BY <1>2, <2>2 DEF Accept, SetSock, TunnelTypeOK, At
  <2> QED
      BY <2>1, <2>2, OutsideFlows
<1>3. ASSUME NEW c \in Conns, NEW place \in {"closed", "http"}, pc[c] # "tunnel",
             pc' = [pc EXCEPT ![c] = place], UNCHANGED <<peer, copy, flowVars>>,
             \/ sock' = [sock EXCEPT ![c] = [x \in Ends |-> "closed"]]
             \/ \E x \in Ends : sock' = [sock EXCEPT ![c][x] = "closed"]
      PROVE  Copied'
  <2>1. ASSUME NEW d \in Conns, d # c
        PROVE  pc'[d] = pc[d] /\ sock'[d] = sock[d] /\ peer'[d] = peer[d]
      BY <1>3, <2>1 DEF TunnelTypeOK, At
  <2>2. pc'[c] # "tunnel"
      BY <1>3
  <2> QED
      BY <1>3, <2>1, <2>2, OutsideFlows
<1>4. ASSUME NEW c \in Conns, Leave(c) \/ Refuse(c) \/ DialTimesOut(c), pc[c] # "tunnel"
      PROVE  Copied'
  <2>1. "client" \in Ends
      BY DEF Ends
  <2> QED
      BY <1>3, <1>4, <2>1, LeavePlaces
<1>5. ASSUME NEW c \in Conns, pc[c] # "tunnel", UNCHANGED tunnelVars,
             NEW place, place # "tunnel", pc' = [pc EXCEPT ![c] = place]
      PROVE  Copied'
  <2>1. UNCHANGED <<peer, sock, copy, flowVars>>
      BY <1>5 DEF tunnelVars
  <2> QED
      BY <1>5, <2>1, OutsideFlows
<1>6. ASSUME NEW c \in Conns, ClientSpeaks(c) PROVE Copied'
  <2>1. CASE FirstByte(c)
    <3>1. PICK place \in {"http", "greeting"} : pc' = [pc EXCEPT ![c] = place]
        BY <2>1 DEF FirstByte
    <3> QED
        BY <1>5, <2>1, <3>1 DEF FirstByte
  <2>2. CASE ClientSays(c)
    <3>1. UNCHANGED <<pc, peer, sock, copy, flowVars>>
        BY <2>2 DEF ClientSays, tunnelVars
    <3> QED
        BY <3>1, AllFlows
  <2> QED
      BY <1>6, <2>1, <2>2 DEF ClientSpeaks
<1>7. ASSUME NEW c \in Conns, HandlerRuns(c) PROVE Copied'
  <2>1. CASE TakeExit(c) \/ StartDial(c)
    <3>1. PICK place \in {"peek", "dialing", "socksdial"} : pc' = [pc EXCEPT ![c] = place]
        BY <2>1 DEF TakeExit, StartDial
    <3>2. pc[c] # "tunnel" /\ UNCHANGED tunnelVars
        BY <2>1 DEF TakeExit, StartDial
    <3> QED
        BY <1>5, <3>1, <3>2
  <2>2. CASE ReadRequest(c)
      BY <1>5, <2>2 DEF ReadRequest
  <2>3. CASE ReadGreeting(c)
      BY <1>4, <1>5, <2>3 DEF ReadGreeting
  <2>4. CASE ReadLogin(c)
      BY <1>4, <1>5, <2>4 DEF ReadLogin, Login
  <2>5. CASE ReadCommand(c)
      BY <1>4, <1>5, <2>5 DEF ReadCommand
  <2>6. CASE TunnelEnds(c)
      BY <2>6, TunnelEndFlows
  <2>7. CASE DialTimesOut(c)
      BY <1>4, <2>7 DEF DialTimesOut
  <2>8. CASE ClientEnds(c) \/ Malformed(c) \/ RejectRequest(c) \/ RefuseRequest(c) \/ DialFails(c)
      BY <1>4, <2>8 DEF ClientEnds, Malformed, RejectRequest, RefuseRequest, DialFails, Reading
  <2> QED
      BY <1>7, <2>1, <2>2, <2>3, <2>4, <2>5, <2>6, <2>7, <2>8 DEF HandlerRuns
<1>8. ASSUME NEW c \in Conns, DialerRuns(c) PROVE Copied'
  <2>1. dialer[c] \in {"on", "got"} /\ UNCHANGED <<pc, peer, copy, flowVars>>
      BY <1>8 DEF DialerRuns
  <2>2. pc[c] # "tunnel" /\ pc'[c] # "tunnel"
      BY <2>1 DEF Dialed
  <2>3. ASSUME NEW d \in Conns, d # c
        PROVE  sock'[d] = sock[d]
      BY <1>8, <2>3 DEF DialerRuns, SetSock, TunnelTypeOK, At
  <2> QED
      BY <2>1, <2>2, <2>3, OutsideFlows
<1>9. ASSUME NEW c \in Conns, UpstreamAnswers(c) PROVE Copied'
  <2>1. CASE Connected(c)
    <3>1. PICK place \in {"sending", "asking"} : pc' = [pc EXCEPT ![c] = place]
        BY <2>1 DEF Connected
    <3>2. pc[c] # "tunnel" /\ pc'[c] # "tunnel" /\ UNCHANGED <<peer, copy, flowVars>>
        BY <2>1, <3>1 DEF Connected
    <3>3. ASSUME NEW d \in Conns, d # c PROVE pc'[d] = pc[d] /\ sock'[d] = sock[d]
        BY <2>1, <3>1, <3>3 DEF Connected, SetSock, TunnelTypeOK, At
    <3> QED
        BY <3>2, <3>3, OutsideFlows
  <2>2. CASE SendRequest(c)
      BY <1>5, <2>2 DEF SendRequest
  <2>3. CASE ReadResponse(c)
      BY <1>5, <2>3 DEF ReadResponse
  <2>4. CASE ThroughUpstream(c)
    <3>1. pc[c] # "tunnel" /\ UNCHANGED sock
        BY <2>4 DEF ThroughUpstream
    <3>2. CASE StartTunnel(c)
        BY <3>1, <3>2, StartFlows
    <3>3. CASE pc' = [pc EXCEPT ![c] = "sending"] /\ UNCHANGED <<peer, copy, flowVars>>
        BY <1>5, <3>1, <3>3 DEF tunnelVars
    <3> QED
        BY <2>4, <3>2, <3>3 DEF ThroughUpstream
  <2>5. CASE FinishResponse(c)
    <3>1. pc[c] # "tunnel" /\ UNCHANGED <<peer, copy, flowVars>>
        BY <2>5 DEF FinishResponse, Return
    <3>2. PICK place \in {"closed", "http"} : pc' = [pc EXCEPT ![c] = place]
        BY <2>5 DEF FinishResponse, Return
    <3>3. \/ sock' = [sock EXCEPT ![c] = [x \in Ends |-> "closed"]]
          \/ sock' = [sock EXCEPT ![c]["remote"] = "closed"]
        BY <2>5 DEF FinishResponse, Return, SetSock
    <3>4. "remote" \in Ends
        BY DEF Ends
    <3> QED
        BY <1>3, <3>1, <3>2, <3>3, <3>4
  <2>6. CASE UpstreamFails(c)
      BY <1>4, <2>6 DEF UpstreamFails
  <2> QED
      BY <1>9, <2>1, <2>2, <2>3, <2>4, <2>5, <2>6 DEF UpstreamAnswers
<1>10. ASSUME NEW c \in Conns, PeerActs(c) PROVE Copied'
    BY <1>10, PeersFlow
<1>11. ASSUME NEW c \in Conns, NEW x \in Ends, Copies(c, x) PROVE Copied'
    BY <1>11, ReadFlows, WriteFlows, EndFlows DEF Copies, CopyStep, connVars
<1>12. CASE UNCHANGED proxyVars
  <2>1. UNCHANGED <<pc, peer, sock, copy, flowVars>>
      BY <1>12 DEF proxyVars, connVars, tunnelVars
  <2> QED
      BY <2>1, AllFlows
<1> QED
    BY <1>1, <1>2, <1>6, <1>7, <1>8, <1>9, <1>10, <1>11, <1>12 DEF ProxyNext

-----------------------------------------------------------------------------
(***************************************************************************)
(* Theorems                                                                *)
(***************************************************************************)

\* The invariant holds in every behaviour.
LEMMA ConnInvariance == ProxySpec => []ConnInv
<1>1. ProxyInit => ConnInv
  <2> SUFFICES ASSUME ProxyInit PROVE ConnInv
      OBVIOUS
  <2>1. Pinned /\ Checked /\ Asked
      BY DEF ProxyInit, Pinned, Checked, Asked, Serving
  <2>2. Dialed
      BY DEF ProxyInit, TunnelInit, Everywhere, Ends, Dialed
  <2>3. ASSUME NEW c \in Conns, NEW x \in Ends PROVE Flows(c, x)
    <3>1. /\ pc[c] = "closed" /\ copy[c][x] = "off" /\ lost[c][x] = FALSE
          /\ inbox[c][x] = <<>> /\ held[c][x] = <<>> /\ written[c][x] = <<>>
        BY DEF ProxyInit, TunnelInit, Everywhere
    <3> QED
        BY <3>1 DEF Flows
  <2> QED
      BY <2>1, <2>2, <2>3, ConnInitType DEF ConnInv, Copied
<1>2. ConnInv /\ [ProxyNext]_proxyVars => ConnInv'
    BY ConnTypeStep, PinnedStep, CheckedStep, AskedStep, DialedStep, CopiedStep DEF ConnInv
<1> QED
    BY <1>1, <1>2, PTL DEF ProxySpec

\* The handlers keep their types.
THEOREM ConnTypes == ProxySpec => []ConnTypeOK
<1>1. ConnInv => ConnTypeOK
    BY DEF ConnInv
<1> QED
    BY <1>1, ConnInvariance, PTL

\* However often the rotator switches, a connection is served through one exit.
THEOREM OneExit == ProxySpec => []PinnedExit
<1>1. ASSUME ConnInv PROVE PinnedExit
  <2> SUFFICES ASSUME NEW c \in Conns
               PROVE  Cardinality(used[c]) <= 1 /\ used[c] \subseteq offered[c]
      BY DEF PinnedExit
  <2>1. used[c] \subseteq {via[c]} /\ used[c] \subseteq offered[c]
      BY <1>1 DEF ConnInv, Pinned
  <2>2. Cardinality({via[c]}) = 1 /\ IsFiniteSet({via[c]})
      BY FS_Singleton
  <2>3. Cardinality(used[c]) <= 1
      BY <2>1, <2>2, FS_Subset
  <2> QED
      BY <2>1, <2>3
<1> QED
    BY <1>1, ConnInvariance, PTL

\* However the account changes, only requests that named one of those that were
\* in force are served.
THEOREM KnownUsers == ProxySpec => []OnlyKnownUsers
<1>1. ConnInv => OnlyKnownUsers
    BY DEF ConnInv, Checked, OnlyKnownUsers, Serving
<1> QED
    BY <1>1, ConnInvariance, PTL

\* Whoever has sent a message of the protocol and is still there gets an answer,
\* to a greeting or a login as well as to a request.
THEOREM ClientsAnswered == ProxySpec => []NoSilentDrop
<1>1. ConnInv => NoSilentDrop
    BY DEF ConnInv, Asked, NoSilentDrop, Reading
<1> QED
    BY <1>1, ConnInvariance, PTL

\* No way out of the handlers forgets the socket to the upstream; one that is
\* left open is the goroutine's of a SOCKS5 dial that was given up.
THEOREM RemotesClosed == ProxySpec => []OnlyDialsLeft
<1>1. ConnInv => OnlyDialsLeft
    BY DEF ConnInv, Dialed, OnlyDialsLeft
<1> QED
    BY <1>1, ConnInvariance, PTL

\* For any number of bytes and any window, a tunnel passes on the beginning of
\* each stream in order, the bytes of the readers first, and ends it only behind
\* its last byte.
THEOREM StreamsComplete == ProxySpec => []StreamsIntact
<1>1. ConnInv => StreamsIntact
    BY DEF ConnInv, Copied, Flows, StreamsIntact
<1> QED
    BY <1>1, ConnInvariance, PTL

=============================================================================
