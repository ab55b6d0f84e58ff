---------------------------- MODULE CliProtocol ----------------------------
(***************************************************************************)
(* One request and its reply, byte by byte: the client (cli_client.c)      *)
(* encodes its arguments into a stack buffer, writes them, and later reads *)
(* the reply into the same buffer; do_accept (cli_server.c) reads up to    *)
(* \r\n, decodes, runs the command, which prints into the output buffer of *)
(* module CmdPrint, and writes what cdp_output returns.  Clients come one  *)
(* after the other; waiting, timeouts and the life of the server are       *)
(* module CliServer.                                                       *)
(*                                                                         *)
(* A cell is a character, NUL, JUNK (memory nobody has written) or a       *)
(* number: a uint32_t, four bytes in the code, is one cell.  No length or  *)
(* count within the client's limits has the bytes of \r\n, so a number is  *)
(* never taken for the end of a request.                                   *)
(***************************************************************************)
EXTENDS CmdPrint, SequencesExt

CONSTANTS Requests,     \* what users type: [sub, args], sequences of characters
          Known,        \* the registered command names
          MaxLen,       \* COMMAND_MAX_LEN: longest word with its NUL
          MaxArgc,      \* COMMAND_MAX_ARGC
          BufBytes      \* 1024: the client's buffer and the server's

CR == "\r"
LF == "\n"
Numbers == <<"#0", "#1", "#2", "#3", "#4", "#5">>

ASSUME ProtocolAssumption ==
    /\ MaxLen \in 1 .. 5 /\ MaxArgc \in 0 .. 5 /\ BufBytes \in Nat \ {0}
    /\ \A s \in Known : s # <<>> /\ Head(s) \in Texts

VARIABLES client,   \* [st, req, buf, pos, w]: where it is, its request, its buffer,
                    \* the reading position and the arguments of safe_write
          server,   \* [st, cmd, pos, call, w]: call is the decoded request
          up, down, \* bytes on their way to the server and to the client
          reply,    \* history: what the command printed for this client
          shown     \* history: the lines the client has printed

protoVars == <<client, server, up, down, reply, shown>>
allVars   == <<vars, protoVars>>

NoCall == [sub |-> <<>>, args |-> <<>>]
Idle   == [st |-> "idle", cmd |-> Fresh(0), pos |-> 0, call |-> NoCall, w |-> [b |-> 0, len |-> 0]]
Ended  == {"none", "refused", "done", "killed", "smashed", "sigpipe"}

-----------------------------------------------------------------------------
(***************************************************************************)
(* msg_encode and msg_decode                                               *)
(***************************************************************************)
U32(n)      == Numbers[n + 1]
IsU32(c)    == \E n \in DOMAIN Numbers : Numbers[n] = c
U32Value(c) == (CHOOSE n \in DOMAIN Numbers : Numbers[n] = c) - 1

EncodeWord(s) == <<U32(Len(s) + 1)>> \o s \o <<NUL>>

msg_encode(r) ==
    EncodeWord(r.sub) \o <<U32(Len(r.args))>>
      \o FlattenSeq([i \in DOMAIN r.args |-> EncodeWord(r.args[i])]) \o <<CR, LF>>

\* what a pointer into a buffer reads as a C string; <<>> when no NUL follows
StringAt(buf, off) ==
    LET ends == {i \in DOMAIN buf : i >= off /\ buf[i] = NUL}
    IN  IF ends = {} THEN <<>>
        ELSE [i \in 1 .. (CHOOSE e \in ends : \A f \in ends : e <= f) - off |-> buf[off + i - 1]]

NumberAt(buf, off) == IF off \in DOMAIN buf /\ IsU32(buf[off]) THEN U32Value(buf[off]) ELSE 0

\* offset of the i-th argument's length word, after the command and the count
ArgOffset(buf, argc) ==
    LET f[i \in 1 .. argc + 1] == IF i = 1 THEN 1 + NumberAt(buf, 0) + 1
                                  ELSE f[i - 1] + 1 + NumberAt(buf, f[i - 1])
    IN  f

\* The words where the lengths say they are.  "garbage": a length or the count
\* is read from memory that holds none.
msg_decode(buf) ==
    LET count == 1 + NumberAt(buf, 0)
        argc  == NumberAt(buf, count)
        at    == ArgOffset(buf, argc)
        words == {0, count} \cup {at[i] : i \in 1 .. argc}
    IN  [garbage |-> \E o \in words : o \notin DOMAIN buf \/ ~IsU32(buf[o]),
         call    |-> [sub  |-> StringAt(buf, 1),
                      args |-> [i \in 1 .. argc |-> StringAt(buf, at[i] + 1)]]]

-----------------------------------------------------------------------------
(***************************************************************************)
(* safe_write: one write() of its loop, w = [b, len]                       *)
(***************************************************************************)
\* faulty variant: a short write passes for a whole one
WroteAll(w, n) == [b |-> w.b + n, len |-> 0]

Wrote(w, n) == [b |-> w.b + n, len |-> w.len - n]

\* write() fails with EINTR: err is compared, then len -= -1 and b += -1
Interrupted(w) == [b |-> w.b - 1, len |-> w.len + 1]

\* the bytes written; those before or after the buffer are somebody else's
Bytes(mem, w, n) == [i \in 1 .. n |-> IF w.b + i - 1 \in DOMAIN mem THEN mem[w.b + i - 1] ELSE JUNK]

\* a sequence as memory that starts at 0
Memory(s) == [i \in 0 .. Len(s) - 1 |-> s[i + 1]]

-----------------------------------------------------------------------------
(***************************************************************************)
(* The client                                                              *)
(***************************************************************************)
ProtoInit ==
    /\ Init
    /\ client = [st |-> "none", req |-> NoCall, buf |-> Fresh(0), pos |-> 0, w |-> [b |-> 0, len |-> 0]]
    /\ server = Idle /\ up = <<>> /\ down = <<>> /\ reply = <<>> /\ shown = <<>>

\* main's checks of argc and of every word
WithinLimits(r) ==
    /\ Len(r.args) <= MaxArgc /\ Len(r.sub) + 1 <= MaxLen
    /\ \A i \in DOMAIN r.args : Len(r.args[i]) + 1 <= MaxLen

\* A new process: checks, connect, msg_encode into char buffer[1024].  The
\* limits allow a longer message, which overruns the stack: the process ends
\* there or sends it all the same.
Start(r) ==
    LET msg == msg_encode(r)
        mem == [i \in 0 .. (IF Len(msg) > BufBytes THEN Len(msg) ELSE BufBytes) - 1 |->
                  IF i < Len(msg) THEN msg[i + 1] ELSE JUNK]
        Become(st) == client' = [st |-> st, req |-> r, buf |-> mem, pos |-> 0,
                                 w |-> [b |-> 0, len |-> Len(msg)]]
    IN  /\ client.st \in Ended /\ server.st = "idle"
        /\ \/ ~WithinLimits(r) /\ Become("refused")
           \/ WithinLimits(r) /\ Become("sending")
           \/ WithinLimits(r) /\ Len(msg) > BufBytes /\ Become("smashed")
        /\ server' = [Idle EXCEPT !.st = IF client'.st = "sending" THEN "read" ELSE "idle",
                                  !.cmd = Fresh(BufBytes)]
        /\ up' = <<>> /\ down' = <<>> /\ reply' = <<>> /\ shown' = <<>>
        /\ UNCHANGED vars

\* the server has closed the connection, or ended
Hungup == server.st \in {"idle", "dead"}

\* one write() of safe_write; a server that has closed makes it raise SIGPIPE
ClientWrite(n) ==
    /\ client.st = "sending" /\ n <= client.w.len
    /\ \/ /\ Hungup
          /\ client' = [client EXCEPT !.st = "sigpipe"] /\ UNCHANGED up
       \/ /\ ~Hungup
          /\ up' = up \o Bytes(client.buf, client.w, n)
          /\ client' = [client EXCEPT !.w = Wrote(@, n),
                                      !.st = IF Wrote(client.w, n).len <= 0 THEN "reading" ELSE @]
    /\ UNCHANGED <<vars, server, down, reply, shown>>

ClientInterrupted ==
    /\ client.st = "sending" /\ client.w.b >= 0
    /\ client' = [client EXCEPT !.w = Interrupted(@)]
    /\ UNCHANGED <<vars, server, up, down, reply, shown>>

\* the process is killed while it sends or waits
Kill ==
    /\ client.st \in {"sending", "reading"}
    /\ client' = [client EXCEPT !.st = "killed"]
    /\ UNCHANGED <<vars, server, up, down, reply, shown>>

\* The printed line: buffer[pos] = '\0', then %s.  At pos = sizeof(buffer) the
\* NUL lies behind the array.
Line(buf, pos) == StringAt([i \in 0 .. pos |-> IF i < pos THEN buf[i] ELSE NUL], 0)

\* faulty variant: the loop goes on as long as nothing has been read
ReadEndSpins ==
    /\ client.st = "reading" /\ down = <<>> /\ Hungup
    /\ IF client.pos > 0
       THEN shown' = Append(shown, Line(client.buf, client.pos)) /\ client' = [client EXCEPT !.st = "done"]
       ELSE UNCHANGED <<client, shown>>
    /\ UNCHANGED <<vars, server, up, down, reply>>

\* End of file.  With nothing read so far the loop falls through to ++pos and
\* comes back here: buffer[0] is printed, whatever it held before.
ReadEnd ==
    /\ client.st = "reading" /\ down = <<>> /\ Hungup
    /\ IF client.pos > 0
       THEN shown' = Append(shown, Line(client.buf, client.pos)) /\ client' = [client EXCEPT !.st = "done"]
       ELSE client' = [client EXCEPT !.pos = 1] /\ UNCHANGED shown
    /\ UNCHANGED <<vars, server, up, down, reply>>

\* one byte; a full buffer is printed and filled again, and its terminator,
\* one byte behind it, may be the end of the process
ReadByte ==
    /\ client.st = "reading" /\ down # <<>>
    /\ down' = Tail(down)
    /\ LET buf  == [client.buf EXCEPT ![client.pos] = Head(down)]
           full == client.pos + 1 >= BufBytes
       IN  \/ /\ ~full /\ client' = [client EXCEPT !.buf = buf, !.pos = @ + 1] /\ UNCHANGED shown
           \/ /\ full /\ client' = [client EXCEPT !.buf = buf, !.pos = 0]
              /\ shown' = Append(shown, Line(buf, BufBytes))
           \/ full /\ client' = [client EXCEPT !.st = "smashed"] /\ UNCHANGED shown
    /\ UNCHANGED <<vars, server, up, reply>>

-----------------------------------------------------------------------------
(***************************************************************************)
(* The server: do_accept                                                   *)
(***************************************************************************)
\* \r\n ends a request
EndsRequest(cmd, pos) == pos > 0 /\ cmd[pos] = LF /\ cmd[pos - 1] = CR

\* close(connection_fd) without a reply
Drop == server' = Idle

\* faulty variant: what was read so far is executed at end of file
ServeAtEof ==
    /\ server.st = "read" /\ up = <<>> /\ client.st = "killed"
    /\ server' = [server EXCEPT !.st = "execute", !.call = msg_decode(server.cmd).call]
    /\ UNCHANGED <<vars, client, up, down, reply, shown>>

\* the client is gone before its request was complete
ServerEof ==
    /\ server.st = "read" /\ up = <<>> /\ client.st = "killed"
    /\ Drop
    /\ UNCHANGED <<vars, client, up, down, reply, shown>>

\* One byte of the request; at its end msg_decode.  Reading a length that is
\* not there leads anywhere: server "dead", after which nothing is said.
ServerRead ==
    /\ server.st = "read" /\ up # <<>>
    /\ up' = Tail(up)
    /\ LET cmd == [server.cmd EXCEPT ![server.pos] = Head(up)]
           d   == msg_decode(cmd)
       IN  \/ /\ EndsRequest(cmd, server.pos)
              /\ server' = [server EXCEPT !.st = IF d.garbage THEN "dead" ELSE "execute",
                                          !.cmd = cmd, !.call = d.call]
           \/ /\ ~EndsRequest(cmd, server.pos) /\ server.pos + 1 < BufBytes
              /\ server' = [server EXCEPT !.cmd = cmd, !.pos = @ + 1]
           \/ /\ ~EndsRequest(cmd, server.pos) /\ server.pos + 1 >= BufBytes
              /\ Drop
    /\ UNCHANGED <<vars, client, down, reply, shown>>

\* a registered command prints; its output is known by the command's letter
ServerPrints(off) ==
    /\ server.st = "execute" /\ server.call.sub \in Known
    /\ PrintText(Head(server.call.sub), off)
    /\ UNCHANGED protoVars

\* the command returns, or command_find knows no such name
ServerReturns ==
    /\ server.st = "execute"
    /\ server' = [server EXCEPT !.st = "reply", !.w = [b |-> 0, len |-> Len(cdp_output(cdp))]]
    /\ reply' = IF printed = <<>> THEN SUCCESS ELSE printed
    /\ UNCHANGED <<vars, client, up, down, shown>>

\* One write() of safe_write, then cdp_reinit and close; SIGPIPE ends the
\* server when the client has gone.
ServerWrite(n) ==
    /\ server.st = "reply" /\ n <= server.w.len
    /\ \/ /\ client.st \in Ended
          /\ server' = [server EXCEPT !.st = "dead"] /\ UNCHANGED <<vars, down>>
       \/ /\ client.st \notin Ended
          /\ down' = down \o Bytes(Memory(cdp_output(cdp)), server.w, n)
          /\ IF Wrote(server.w, n).len <= 0
             THEN server' = Idle /\ Reinit
             ELSE server' = [server EXCEPT !.w = Wrote(@, n)] /\ UNCHANGED vars
    /\ UNCHANGED <<client, up, reply, shown>>

ServerInterrupted ==
    /\ server.st = "reply" /\ server.w.b >= 0
    /\ server' = [server EXCEPT !.w = Interrupted(@)]
    /\ UNCHANGED <<vars, client, up, down, reply, shown>>

-----------------------------------------------------------------------------
ClientSteps == (\E n \in 1 .. client.w.len : ClientWrite(n)) \/ ReadByte \/ ReadEnd
ServerSteps == ServerRead \/ ServerEof \/ ServerReturns \/ (\E n \in 1 .. server.w.len : ServerWrite(n))

ProtoNext ==
    \/ \E r \in Requests : Start(r)
    \/ ClientSteps \/ Kill
    \/ ServerSteps
    \/ \E off \in 0 .. MaxPrint : ServerPrints(off)

ProtoSpec == ProtoInit /\ [][ProtoNext]_allVars

\* the same in a process whose signal handlers interrupt write()
SignalSpec == ProtoInit /\ [][ProtoNext \/ ClientInterrupted \/ ServerInterrupted]_allVars

\* Both processes keep running; a command returns (it belongs to the
\* application); nobody has to start or kill a client or send a signal.
FairProtoSpec == ProtoSpec /\ WF_allVars(ClientSteps) /\ WF_allVars(ServerSteps)

-----------------------------------------------------------------------------
\* no word of the request contains the end mark itself
Plain(r) == \A s \in {r.sub} \cup Range(r.args) :
              ~\E i \in 1 .. Len(s) - 1 : s[i] = CR /\ s[i + 1] = LF

\* The command runs with exactly the words the user typed, however the bytes
\* arrive, and never with part of a request: not one cut off by the client's
\* end, nor one that the buffers cannot hold.
ExecutesTheRequest ==
    server.st \in {"execute", "reply"} /\ Plain(client.req)
      => server.call = client.req /\ Len(msg_encode(client.req)) <= BufBytes

\* The lines a client prints for a reply s: pieces of BufBytes cells.  If
\* that leaves nothing for the last piece (an empty reply is one such case),
\* a single stale byte is printed: the buffer's first, which came with the
\* last piece or is left of the request.
LinesOf(s, stale) ==
    LET k == Len(s) \div BufBytes
        r == Len(s) % BufBytes
        Piece(i) == SubSeq(s, BufBytes * (i - 1) + 1, BufBytes * i)
    IN  [i \in 1 .. k + 1 |-> IF i <= k THEN Piece(i)
                              ELSE IF r > 0 THEN SubSeq(s, BufBytes * k + 1, Len(s))
                              ELSE IF k > 0 THEN <<s[BufBytes * (k - 1) + 1]>> ELSE <<stale>>]

\* From print to print: what a client shows is what its command printed,
\* nothing lost or doubled by short writes, buffer growth, earlier clients or
\* the client's own buffer limit, save for the stale byte of LinesOf.
ShowsTheReply ==
    client.st = "done" /\ server.st # "dead" =>
        shown = LinesOf(reply, msg_encode(client.req)[1])

\* Every client comes to its end, also when the server closes without a reply
\* and the loop's end-of-file test falls through.
ClientEnds == client.st = "sending" ~> client.st \in Ended

\* (violated under SignalSpec) "Handle EINTR and short writes": what has been
\* read of a reply and what is still on its way is the beginning of the reply.
WritesTheBuffer ==
    server.st = "reply" /\ client.st = "reading" =>
        IsPrefix(FlattenSeq(shown) \o [i \in 1 .. client.pos |-> client.buf[i - 1]] \o down, reply)
=============================================================================
