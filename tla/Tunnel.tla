------------------------------- MODULE Tunnel -------------------------------
(***************************************************************************)
(* netx.BiCopy (internal/netx/pipe.go) on the two sockets of a client's    *)
(* connection: one goroutine copies what the peer at one end sends to the  *)
(* other end, a second one the other way.  The sockets are BufferedConns   *)
(* (buffered_conn.go): what a bufio.Reader took from a socket before the   *)
(* tunnel began is read before the socket is.                              *)
(*                                                                         *)
(* The bytes that a peer sends are the numbers 1, 2, ..., so that a stream *)
(* which loses some on its way, or changes their order, can be told from   *)
(* one that does not.  Of a peer that stops reading at most Window bytes   *)
(* are taken.  The kernel delivers what was written to a socket before the *)
(* program closed it.                                                      *)
(***************************************************************************)
EXTENDS Naturals, Sequences

CONSTANTS Conns,     \* the connections
          Window,    \* bytes a peer leaves unread before writes to it block
          MaxBytes   \* bound: bytes that the two peers send into a tunnel

ASSUME TunnelAssumption == Window \in Nat \ {0} /\ MaxBytes \in Nat

Ends     == {"client", "remote"}
Other(x) == IF x = "client" THEN "remote" ELSE "client"

VARIABLES peer,   \* peer[c][x]: who is at end x, "open", "done" (it sends no more) or "gone"
          sock,   \* sock[c][x]: our socket at end x, "open" or "closed"
          sent,   \* sent[c][x]: how many bytes the peer has sent into the tunnel
          buf,    \* buf[c][x]: those that the bufio.Reader of end x holds
          inbox,  \* inbox[c][x]: those that wait in the socket
          held,   \* held[c][x]: those that the copier from x has read and not written
          written, \* written[c][x]: history, those it has written
          outbox, \* outbox[c][x]: how many of those written to end x its peer has not read
          copy,   \* copy[c][x]: the copier from x, "off", "on", "eof" or "error"
          lost    \* lost[c][x]: the peer at x sent bytes that nobody will write

flowVars   == <<sent, buf, inbox, held, written, outbox, lost>>
tunnelVars == <<peer, sock, copy, flowVars>>

At(v) == [Conns -> [Ends -> v]]

TunnelTypeOK == /\ peer \in At({"open", "done", "gone"})
                /\ sock \in At({"open", "closed"})
                /\ sent \in At(0 .. MaxBytes)
                /\ buf \in At(Seq(Nat)) /\ inbox \in At(Seq(Nat))
                /\ held \in At(Seq(Nat)) /\ written \in At(Seq(Nat))
                /\ outbox \in At(0 .. Window)
                /\ copy \in At({"off", "on", "eof", "error"})
                /\ lost \in At(BOOLEAN)

Everywhere(v) == [c \in Conns |-> [x \in Ends |-> v]]

TunnelInit == /\ peer = Everywhere("gone")
              /\ sock = Everywhere("closed")
              /\ copy = Everywhere("off")
              /\ lost = Everywhere(FALSE)
              /\ sent = Everywhere(0) /\ outbox = Everywhere(0)
              /\ buf = Everywhere(<<>>) /\ inbox = Everywhere(<<>>)
              /\ held = Everywhere(<<>>) /\ written = Everywhere(<<>>)

-----------------------------------------------------------------------------
(***************************************************************************)
(* The peers                                                               *)
(***************************************************************************)
PeerSends(c, x) == /\ peer[c][x] = "open"
                   /\ sock[c][x] = "open"
                   /\ sent[c]["client"] + sent[c]["remote"] < MaxBytes
                   /\ sent' = [sent EXCEPT ![c][x] = @ + 1]
                   /\ inbox' = [inbox EXCEPT ![c][x] = Append(@, sent[c][x] + 1)]
                   /\ UNCHANGED <<peer, sock, copy, buf, held, written, outbox, lost>>

PeerReads(c, x) == /\ peer[c][x] # "gone"
                   /\ outbox[c][x] > 0
                   /\ outbox' = [outbox EXCEPT ![c][x] = 0]
                   /\ UNCHANGED <<peer, sock, copy, sent, buf, inbox, held, written, lost>>

\* The peer closes its sending half: it has said all and still listens.
PeerShuts(c, x) == /\ peer[c][x] = "open"
                   /\ peer' = [peer EXCEPT ![c][x] = "done"]
                   /\ UNCHANGED <<sock, copy, flowVars>>

\* The peer resets the connection, or vanishes and keep-alive finds out.
PeerGoes(c, x) == /\ peer[c][x] # "gone"
                  /\ peer' = [peer EXCEPT ![c][x] = "gone"]
                  /\ inbox' = [inbox EXCEPT ![c][x] = <<>>]
                  /\ outbox' = [outbox EXCEPT ![c][x] = 0]
                  /\ UNCHANGED <<sock, copy, sent, buf, held, written, lost>>

-----------------------------------------------------------------------------
(***************************************************************************)
(* io.Copy and the Close that follows it                                   *)
(***************************************************************************)

\* A tunnel that is given the connection inside the BufferedConn.
ReadsSocketAlways(c, x) == TRUE

\* BufferedConn.Read: what its bufio.Reader holds comes first, then the socket.
ReadsSocket(c, x) == buf[c][x] = <<>>

CopyRead(c, x) ==
    /\ copy[c][x] = "on"
    /\ held[c][x] = <<>>
    /\ \/ /\ ~ ReadsSocket(c, x)
          /\ held' = [held EXCEPT ![c][x] = buf[c][x]]
          /\ buf' = [buf EXCEPT ![c][x] = <<>>]
          /\ UNCHANGED inbox
       \/ /\ ReadsSocket(c, x)
          /\ sock[c][x] = "open"
          /\ inbox[c][x] # <<>>
          /\ held' = [held EXCEPT ![c][x] = inbox[c][x]]
          /\ inbox' = [inbox EXCEPT ![c][x] = <<>>]
          /\ UNCHANGED buf
    /\ UNCHANGED <<peer, sock, copy, sent, written, outbox, lost>>

\* Some of what was read goes out; the rest waits for the peer to read.
CopyWrite(c, x) ==
    LET y == Other(x)
    IN  /\ copy[c][x] = "on"
        /\ held[c][x] # <<>>
        /\ sock[c][y] = "open"
        /\ peer[c][y] # "gone"
        /\ outbox[c][y] < Window
        /\ held' = [held EXCEPT ![c][x] = Tail(@)]
        /\ written' = [written EXCEPT ![c][x] = Append(@, Head(held[c][x]))]
        /\ outbox' = [outbox EXCEPT ![c][y] = @ + 1]
        /\ UNCHANGED <<peer, sock, copy, sent, buf, inbox, lost>>

\* A read finds the end of the stream.
AtEOF(c, x) == /\ held[c][x] = <<>> /\ ReadsSocket(c, x)
               /\ sock[c][x] = "open"
               /\ inbox[c][x] = <<>> /\ peer[c][x] = "done"

ReadFails(c, x) == /\ held[c][x] = <<>> /\ ReadsSocket(c, x)
                   /\ sock[c][x] = "closed" \/ peer[c][x] = "gone"

WriteFails(c, x) == /\ held[c][x] # <<>>
                    /\ sock[c][Other(x)] = "closed" \/ peer[c][Other(x)] = "gone"

\* io.Copy returns, at the end of the stream or with an error, and the copier
\* leaves the socket it wrote to alone.
CopyEndsOpen(c, x) ==
    /\ copy[c][x] = "on"
    /\ \/ AtEOF(c, x) /\ copy' = [copy EXCEPT ![c][x] = "eof"]
       \/ (ReadFails(c, x) \/ WriteFails(c, x)) /\ copy' = [copy EXCEPT ![c][x] = "error"]
    /\ UNCHANGED <<peer, sock, flowVars>>

\* The copier closes the socket it wrote to, in both directions: bytes of the
\* peer over there that nobody has read yet, and what this copier still holds,
\* are dropped.
CopyEnds(c, x) ==
    LET y == Other(x)
    IN  /\ copy[c][x] = "on"
        /\ \/ AtEOF(c, x) /\ copy' = [copy EXCEPT ![c][x] = "eof"]
           \/ (ReadFails(c, x) \/ WriteFails(c, x)) /\ copy' = [copy EXCEPT ![c][x] = "error"]
        /\ sock' = [sock EXCEPT ![c][y] = "closed"]
        /\ lost' = [lost EXCEPT ![c][x] = @ \/ held[c][x] # <<>>,
                                ![c][y] = @ \/ (sock[c][y] = "open" /\ inbox[c][y] # <<>>)]
        /\ held' = [held EXCEPT ![c][x] = <<>>]
        /\ inbox' = [inbox EXCEPT ![c][y] = <<>>]
        /\ UNCHANGED <<peer, sent, buf, written, outbox>>

CopyStep(c, x) == CopyRead(c, x) \/ CopyWrite(c, x) \/ CopyEnds(c, x)

PeerStep(c, x) == PeerReads(c, x) \/ PeerShuts(c, x) \/ PeerGoes(c, x)

\* wg.Wait of BiCopy can return.
BothCopied(c) == \A x \in Ends : copy[c][x] \in {"eof", "error"}

=============================================================================
