----------------------------- MODULE CliServer -----------------------------
(***************************************************************************)
(* The CLI server (src/src/cli/cli_server.c): the application's main       *)
(* thread calls cli_create, cli_destroy and exit, the poll thread          *)
(* (msg_poll, do_accept) serves one client at a time, and clients          *)
(* (cli_client.c) connect, send a request, wait for the reply with a       *)
(* timeout, or die.  Composes the output buffer of module CmdPrint; the    *)
(* command table is module CliRegistry, of which one entry is kept here:   *)
(* that of the command the "known" requests name, one of cli_create's own  *)
(* or of the application's.  The bytes of a request are module CliProtocol. *)
(*                                                                         *)
(* cli_create starts the poll thread before it fills in the handler, so    *)
(* the thread may read what malloc left there: h.state is then any member  *)
(* of GarbageState, and using the output buffer is undefined behaviour     *)
(* (proc = "ub", after which nothing is said).                             *)
(***************************************************************************)
EXTENDS Integers, Sequences

CONSTANTS Clients,
          Backlog,        \* 5: connections listen() lets wait
          GarbageState,   \* what an uninitialised h->state may read as
          Faults,         \* may pipe or pthread_create fail, a signal interrupt poll?
          Impatient,      \* clients that may reach COMMAND_TIMEOUT or be killed
          MaxCreates,     \* bound: calls of cli_create
          BufInit, ShrinkAbove, MaxPrint, MaxBuf   \* of CmdPrint

CLI_INIT == "CLI_INIT"
CLI_DOWN == "CLI_DOWN"
CLI_FINI == "CLI_FINI"

NONE == "none"

ASSUME CliServerAssumption ==
    /\ Backlog \in Nat \ {0} /\ MaxCreates \in Nat
    /\ GarbageState \subseteq {CLI_INIT, CLI_DOWN, CLI_FINI}
    /\ Faults \in BOOLEAN /\ Impatient \subseteq Clients /\ NONE \notin Clients
    /\ BufInit \in Nat /\ ShrinkAbove \in Nat /\ MaxPrint \in Nat /\ MaxBuf \in Nat
    /\ 0 < BufInit /\ MaxPrint <= BufInit /\ Clients \cap {"nul", "junk"} = {}

VARIABLES
    main,      \* where the application's main thread is
    thread,    \* where the poll thread is
    ready,     \* did the last poll() report the listening socket?
    conn,      \* the client whose connection do_accept holds
    h,         \* the cli_handler_t: [alive, state, sock]
    published, \* cmd_handler # NULL
    hooked,    \* atexit and signal handlers are installed
    woken,     \* the wakeup pipe holds a byte
    sockfile,  \* the socket file exists in the file system
    backlog,   \* connected clients, not yet accepted
    cl,        \* per client: [st, req, got, said]; said is history, the
               \* characters its command has printed
    proc,      \* the process: running, or how it ended
    creates,   \* calls of cli_create so far
    entry,     \* the entry in commands[]: "absent", "half" (its name, no
               \* execute yet) or "there"
    cdp, printed

threadVars == <<thread, ready, conn>>
mainVars   == <<main, h, published, hooked, woken, creates, entry>>
bufVars    == <<cdp, printed>>
envVars    == <<sockfile, backlog, cl>>
vars       == <<mainVars, threadVars, bufVars, envVars, proc>>

Buf == INSTANCE CmdPrint WITH Texts <- Clients

\* what a client sends: the command's name or another one, too much, or a
\* word with \r\n in it, at which do_accept takes the request for complete
Requests   == {"known", "unknown", "toolong", "malformed"}
NoReply    == <<"no reply">>

Running == proc = "running"

Init ==
    /\ main = "down" /\ thread = NONE /\ ready = FALSE /\ conn = NONE
    /\ h \in [alive : {FALSE}, state : GarbageState, sock : {"bad"}]
    /\ published = FALSE /\ hooked = FALSE /\ woken = FALSE
    /\ sockfile = FALSE /\ backlog = <<>>
    /\ cl \in [Clients -> [st : {"idle"}, req : Requests, got : {NoReply}, said : {0}]]
    /\ proc = "running" /\ creates = 0
    /\ entry = "absent"          \* cli_register needs cmd_handler for its lock
    /\ cdp = Buf!cdp_destroy(Buf!cdp_init) /\ printed = <<>>

Listening == h.alive /\ h.sock = "listening"
EndsAs(p) == proc' = p /\ UNCHANGED <<mainVars, threadVars, bufVars, envVars>>

-----------------------------------------------------------------------------
(***************************************************************************)
(* cli_create                                                              *)
(***************************************************************************)
\* bind_and_listen: bind fails when the file exists, and so does the second
\* bind.  It then returns errno > 0, which the caller's "ret < 0" misses:
\* cli_create goes on with an uninitialised socket_fd.
bind_and_listen ==
    IF sockfile
    THEN h' = [h EXCEPT !.alive = TRUE, !.sock = "bad"] /\ UNCHANGED sockfile
    ELSE h' = [h EXCEPT !.alive = TRUE, !.sock = "listening"] /\ sockfile' = TRUE

CreateBind ==
    /\ Running /\ main = "down" /\ creates < MaxCreates
    /\ bind_and_listen
    /\ main' = "bound" /\ creates' = creates + 1
    /\ UNCHANGED <<published, hooked, woken, entry, threadVars, bufVars, backlog, cl, proc>>

\* what the clients of a socket that is closed see: end of file
Hangup(q) == [c \in Clients |-> IF \E i \in 1 .. Len(q) : q[i] = c
                                THEN [cl[c] EXCEPT !.st = IF @ = "gone" THEN @ ELSE "done"]
                                ELSE cl[c]]

CreatePipe ==
    /\ Running /\ main = "bound"
    /\ main' = "piped" /\ woken' = FALSE
    /\ UNCHANGED <<h, published, hooked, creates, entry, threadVars, bufVars, envVars, proc>>

\* pipe() fails: the socket is closed and the handler freed, the socket file
\* stays
CreatePipeFails ==
    /\ Running /\ main = "bound" /\ Faults
    /\ main' = "down" /\ h' = [h EXCEPT !.alive = FALSE]
    /\ cl' = Hangup(backlog) /\ backlog' = <<>>
    /\ UNCHANGED <<published, hooked, woken, creates, entry, threadVars, bufVars, sockfile, proc>>

CreateThread ==
    /\ Running /\ main = "piped"
    /\ main' = "threaded" /\ thread' = "poll"
    /\ UNCHANGED <<h, published, hooked, woken, creates, entry, ready, conn, bufVars, envVars, proc>>

\* pthread_create reports errors as positive numbers, which "ret < 0" misses:
\* cli_create goes on without a thread
CreateThreadFails ==
    /\ Running /\ main = "piped" /\ Faults
    /\ main' = "threaded"
    /\ UNCHANGED <<h, published, hooked, woken, creates, entry, threadVars, bufVars, envVars, proc>>

CreateCdp ==
    /\ Running /\ main = "threaded"
    /\ main' = "cdpready" /\ cdp' = Buf!cdp_init /\ printed' = <<>>
    /\ UNCHANGED <<h, published, hooked, woken, creates, entry, threadVars, envVars, proc>>

CreatePublish ==
    /\ Running /\ main = "cdpready"
    /\ main' = "published" /\ h' = [h EXCEPT !.state = CLI_INIT] /\ published' = TRUE
    /\ UNCHANGED <<hooked, woken, creates, entry, threadVars, bufVars, envVars, proc>>

\* atexit and signal
CreateHooks ==
    /\ Running /\ main = "published"
    /\ main' = "hooked" /\ hooked' = TRUE
    /\ UNCHANGED <<h, published, woken, creates, entry, threadVars, bufVars, envVars, proc>>

\* cli_register, called by cli_create for "help" and "test" and by the
\* application later on, while the poll thread serves clients: the entry's
\* name may be seen before its execute, or the other way round
Register ==
    /\ Running /\ main \in {"hooked", "up"} /\ entry = "absent"
    /\ main' = "registering" /\ entry' \in {"absent", "half"}
    /\ UNCHANGED <<h, published, hooked, woken, creates, threadVars, bufVars, envVars, proc>>

RegisterReturns ==
    /\ Running /\ main = "registering"
    /\ main' = "up" /\ entry' = "there"
    /\ UNCHANGED <<h, published, hooked, woken, creates, threadVars, bufVars, envVars, proc>>

\* cli_create has registered its own commands and returns
CreateReturns ==
    /\ Running /\ main = "hooked"
    /\ main' = "up"
    /\ UNCHANGED <<h, published, hooked, woken, creates, entry, threadVars, bufVars, envVars, proc>>

-----------------------------------------------------------------------------
(***************************************************************************)
(* cli_destroy, exit and SIGINT                                            *)
(***************************************************************************)
DestroyDown ==
    /\ Running /\ main = "up"
    /\ main' = "stopping" /\ h' = [h EXCEPT !.state = CLI_DOWN]
    /\ UNCHANGED <<published, hooked, woken, creates, entry, thread, ready, conn, bufVars, envVars, proc>>

\* faulty variant: the poll thread is not woken
WakeupForgotten ==
    /\ Running /\ main = "stopping"
    /\ main' = "joining"
    /\ UNCHANGED <<h, published, hooked, woken, creates, entry, threadVars, bufVars, envVars, proc>>

DestroyWakeup ==
    /\ Running /\ main = "stopping"
    /\ main' = "joining" /\ woken' = TRUE
    /\ UNCHANGED <<h, published, hooked, creates, entry, threadVars, bufVars, envVars, proc>>

\* faulty variant: cli_destroy does not wait for the thread
JoinSkipped ==
    /\ Running /\ main = "joining"
    /\ main' = "joined"
    /\ UNCHANGED <<h, published, hooked, woken, creates, entry, threadVars, bufVars, envVars, proc>>

DestroyJoin ==
    /\ Running /\ main = "joining" /\ thread = "done"
    /\ main' = "joined" /\ thread' = NONE
    /\ UNCHANGED <<h, published, hooked, woken, creates, entry, ready, conn, bufVars, envVars, proc>>

\* there is no thread: pthread_join of an uninitialised pthread_t
DestroyJoinNobody == Running /\ main = "joining" /\ thread = NONE /\ EndsAs("ub")

\* cdp_destroy, close of the three descriptors, CLI_FINI, free.  The socket
\* file is not unlinked.
DestroyFree ==
    /\ Running /\ main = "joined"
    /\ main' = "freed" /\ h' = [h EXCEPT !.alive = FALSE, !.state = CLI_FINI]
    /\ woken' = FALSE
    /\ Buf!Destroy
    /\ cl' = Hangup(backlog) /\ backlog' = <<>>
    /\ UNCHANGED <<published, hooked, creates, entry, threadVars, sockfile, proc>>

\* faulty variant: cmd_handler keeps pointing to the freed block
ClearForgotten ==
    /\ Running /\ main = "freed"
    /\ main' = "down" /\ published' = published
    /\ \E s \in GarbageState : h' = [h EXCEPT !.state = s]
    /\ UNCHANGED <<hooked, woken, creates, entry, threadVars, bufVars, envVars, proc>>

\* cmd_handler = NULL; the block may come back from malloc with anything in it
DestroyClear ==
    /\ Running /\ main = "freed"
    /\ main' = "down" /\ published' = FALSE
    /\ \E s \in GarbageState : h' = [h EXCEPT !.state = s]
    /\ UNCHANGED <<hooked, woken, creates, entry, threadVars, bufVars, envVars, proc>>

\* the atexit hook formats the path from cmd_handler->name and unlinks it
remove_all_cleanup_files == proc' = "exited" /\ sockfile' = FALSE

\* exit(): runs the hook, which dereferences cmd_handler whatever it is
Exit ==
    /\ Running
    /\ \/ ~hooked /\ proc' = "exited" /\ UNCHANGED sockfile
       \/ hooked /\ ~published /\ proc' = "segv" /\ UNCHANGED sockfile
       \/ hooked /\ published /\ ~h.alive /\ proc' = "ub" /\ UNCHANGED sockfile
       \/ hooked /\ published /\ h.alive /\ remove_all_cleanup_files
    /\ UNCHANGED <<mainVars, threadVars, bufVars, backlog, cl>>

\* the application ends itself, with or without cli_destroy
AppExit == main \in {"up", "down"} /\ creates > 0 /\ Exit

\* common_signal calls exit(-1) wherever the process is; before signal() the
\* default action ends it and nothing is cleaned up
SigInt ==
    \/ hooked /\ Exit
    \/ Running /\ ~hooked /\ creates > 0 /\ EndsAs("killed")

-----------------------------------------------------------------------------
(***************************************************************************)
(* The poll thread: msg_poll and do_accept                                 *)
(***************************************************************************)
\* the kernel's poll(): ready for a waiting connection or the wakeup pipe; a
\* descriptor that is not open reports POLLNVAL at once
PollReturns ==
    /\ Running /\ thread = "poll"
    /\ backlog # <<>> \/ woken \/ h.sock = "bad"
    /\ ready' = (h.sock = "listening" /\ backlog # <<>>)
    /\ thread' = "check"
    /\ UNCHANGED <<mainVars, conn, bufVars, envVars, proc>>

\* poll() returns -1 with errno EINTR; "ret == EINTR" does not see it and the
\* thread returns
PollInterrupted ==
    /\ Running /\ thread = "poll" /\ Faults
    /\ thread' = "done"
    /\ UNCHANGED <<mainVars, ready, conn, bufVars, envVars, proc>>

CheckState ==
    /\ Running /\ thread = "check"
    /\ thread' = IF h.state = CLI_DOWN THEN "done" ELSE IF ready THEN "accept" ELSE "poll"
    /\ UNCHANGED <<mainVars, ready, conn, bufVars, envVars, proc>>

Accept ==
    /\ Running /\ thread = "accept"
    /\ conn' = Head(backlog) /\ backlog' = Tail(backlog)
    /\ thread' = "read"
    /\ UNCHANGED <<mainVars, ready, bufVars, sockfile, cl, proc>>

\* close(connection_fd): the client reads end of file
CloseConn ==
    /\ conn' = NONE /\ thread' = "poll"
    /\ cl' = [cl EXCEPT ![conn].st = IF cl[conn].st = "gone" THEN "gone" ELSE "done"]

\* faulty variant: a bad request's connection is not closed
DropLeaks == conn' = NONE /\ thread' = "poll" /\ UNCHANGED cl

\* the connection is closed without a reply
DropRequest == CloseConn

\* byte by byte up to \r\n: a request cut short by the client's end, or of
\* 1024 bytes, is dropped without a reply
ReadRequest ==
    /\ Running /\ thread = "read"
    /\ \/ /\ cl[conn].st # "connected" /\ cl[conn].req \in {"partial", "toolong"}
          /\ DropRequest
       \/ /\ cl[conn].st \in {"sent", "gone"} /\ cl[conn].req \in {"known", "unknown"}
          /\ thread' = "find" /\ UNCHANGED <<conn, cl>>
    /\ UNCHANGED <<mainVars, ready, bufVars, sockfile, backlog, proc>>

\* msg_decode of a request that ended early reads lengths and words from
\* whatever the stack held: its asserts abort, argv[32] is overrun, or a name
\* comes out, the command's or another one
DecodeMalformed ==
    /\ Running /\ thread = "read"
    /\ cl[conn].st \in {"sent", "gone"} /\ cl[conn].req = "malformed"
    /\ \/ proc' \in {"abort", "ub"} /\ UNCHANGED <<thread, cl>>
       \/ /\ \E r \in {"known", "unknown"} : cl' = [cl EXCEPT ![conn].req = r]
          /\ thread' = "find" /\ UNCHANGED proc
    /\ UNCHANGED <<mainVars, ready, conn, bufVars, sockfile, backlog>>

\* command_find, which takes no lock: an entry counts once it has its name
FindCommand ==
    /\ Running /\ thread = "find"
    /\ thread' = IF cl[conn].req = "known" /\ entry # "absent" THEN "call" ELSE "reply"
    /\ UNCHANGED <<mainVars, ready, conn, bufVars, envVars, proc>>

\* cmd->execute(...): a call through NULL if it has not been stored by now
CallCommand ==
    /\ Running /\ thread = "call"
    /\ \/ entry = "half" /\ proc' = "nullcall" /\ UNCHANGED thread
       \/ entry = "there" /\ thread' = "execute" /\ UNCHANGED proc
    /\ UNCHANGED <<mainVars, ready, conn, bufVars, envVars>>

\* one cdp_print of the command's function, into whatever buffer there is
HandlerPrints ==
    /\ Running /\ thread = "execute"
    /\ IF cdp.freed THEN proc' = "ub" /\ UNCHANGED <<bufVars, cl>>
       ELSE /\ \E off \in 1 .. MaxPrint :
                 /\ Buf!PrintText(conn, off)
                 /\ cl' = [cl EXCEPT ![conn].said = cl[conn].said + IF Buf!Accepted(off) THEN off ELSE 0]
            /\ UNCHANGED proc
    /\ UNCHANGED <<mainVars, threadVars, sockfile, backlog>>

\* the function returns
HandlerReturns ==
    /\ Running /\ thread = "execute"
    /\ thread' = "reply"
    /\ UNCHANGED <<mainVars, ready, conn, bufVars, envVars, proc>>

\* cdp_output and safe_write.  A client that closed its end makes write()
\* raise SIGPIPE, which ends the process.  Without cdp_init, pos and buf are
\* garbage: the reply is "success" if pos reads as 0.
Reply ==
    /\ Running /\ thread = "reply"
    /\ \/ cdp.freed /\ proc' = "ub" /\ UNCHANGED <<thread, cl>>
       \/ cl[conn].st = "gone" /\ proc' = "sigpipe" /\ UNCHANGED <<thread, cl>>
       \/ /\ cl[conn].st = "sent"
          /\ cl' = [cl EXCEPT ![conn].got = IF cdp.freed THEN Buf!SUCCESS ELSE Buf!cdp_output(cdp),
                              ![conn].st = "replied"]
          /\ thread' = "reinit" /\ UNCHANGED proc
    /\ UNCHANGED <<mainVars, ready, conn, bufVars, sockfile, backlog>>

\* faulty variant: the connection is closed, the buffer left as it is
ReinitForgotten ==
    /\ Running /\ thread = "reinit"
    /\ CloseConn
    /\ UNCHANGED <<mainVars, ready, bufVars, sockfile, backlog, proc>>

Reinit ==
    /\ Running /\ thread = "reinit"
    /\ CloseConn
    /\ IF cdp.freed THEN UNCHANGED bufVars ELSE Buf!Reinit
    /\ UNCHANGED <<mainVars, ready, sockfile, backlog, proc>>

-----------------------------------------------------------------------------
(***************************************************************************)
(* Clients (cli_client.c)                                                  *)
(***************************************************************************)
\* finds the socket file of a live process and connects
Connect(c) ==
    /\ Running /\ cl[c].st = "idle"
    /\ sockfile /\ Listening /\ Len(backlog) < Backlog
    /\ cl' = [cl EXCEPT ![c].st = "connected"]
    /\ backlog' = Append(backlog, c)
    /\ UNCHANGED <<mainVars, threadVars, bufVars, sockfile, proc>>

\* its request, up to the first \r\n
Send(c) ==
    /\ Running /\ cl[c].st = "connected"
    /\ cl' = [cl EXCEPT ![c].st = "sent"]
    /\ UNCHANGED <<mainVars, threadVars, bufVars, sockfile, backlog, proc>>

\* killed before its request is complete
DieSending(c) ==
    /\ Running /\ c \in Impatient /\ cl[c].st = "connected"
    /\ cl' = [cl EXCEPT ![c].st = "gone", ![c].req = "partial"]
    /\ UNCHANGED <<mainVars, threadVars, bufVars, sockfile, backlog, proc>>

\* select() ran into COMMAND_TIMEOUT, or the client was killed while waiting
TimeOut(c) ==
    /\ Running /\ c \in Impatient /\ cl[c].st = "sent"
    /\ cl' = [cl EXCEPT ![c].st = "gone"]
    /\ UNCHANGED <<mainVars, threadVars, bufVars, sockfile, backlog, proc>>

-----------------------------------------------------------------------------
MainStep == \/ CreatePipe \/ CreateThread \/ CreateCdp \/ CreatePublish \/ CreateHooks
            \/ CreateReturns \/ RegisterReturns \/ DestroyWakeup \/ DestroyJoin \/ DestroyJoinNobody
            \/ DestroyFree \/ DestroyClear

AppChoice == \/ CreateBind \/ CreatePipeFails \/ CreateThreadFails \/ Register
             \/ DestroyDown \/ AppExit \/ SigInt

ThreadStep == \/ PollReturns \/ CheckState \/ Accept \/ ReadRequest \/ DecodeMalformed
              \/ FindCommand \/ CallCommand \/ HandlerReturns \/ Reply \/ Reinit

ClientStep(c) == Connect(c) \/ Send(c) \/ DieSending(c) \/ TimeOut(c)

Next == \/ MainStep \/ AppChoice \/ ThreadStep \/ HandlerPrints \/ PollInterrupted
        \/ \E c \in Clients : ClientStep(c)

Spec == Init /\ [][Next]_vars

\* The scheduler runs both threads; a connected client either completes its
\* request or dies.  Nobody has to call, connect, exit or time out.
FairSpec == /\ Spec /\ WF_vars(MainStep) /\ WF_vars(ThreadStep)
            /\ \A c \in Clients : WF_vars(Send(c) \/ DieSending(c))

-----------------------------------------------------------------------------
\* Clients share one output buffer, one after the other: what a client reads
\* is all that its own command printed, "success" if that was nothing, and no
\* byte of another client's reply.
ReplyIsExact ==
    \A c \in Clients : cl[c].got # NoReply =>
        cl[c].got = IF cl[c].said = 0 THEN Buf!SUCCESS ELSE Buf!Repeat(c, cl[c].said)

\* cli_destroy frees the handler only after the poll thread is gone: the
\* thread never looks at a freed handler, a closed socket or a freed buffer.
NoUseAfterFree ==
    thread \notin {NONE, "done"} => h.alive /\ (cdp.freed => main = "threaded")

\* What has to come together for the server to crash in each of the ways
\* modelled here (the commands' own functions and failing library calls are
\* not).  Undefined behaviour needs a malformed request, a command served
\* before cdp_init has run, a SIGINT between free(cmd_handler) and
\* cmd_handler = NULL, or the join of a thread that could not be created.
\* abort() needs a malformed request.  A call through NULL needs a request
\* for the very command that is being registered at that moment, cli_create's
\* own included: never once cli_register has returned.  The exit hook meets a
\* NULL cmd_handler only when a cli_destroy has returned and no later
\* cli_create got that far.  SIGPIPE needs a client that gave up during its
\* own command.
CrashesExplained ==
    LET Malformed == thread = "read" /\ cl[conn].req = "malformed"
    IN  /\ proc = "ub" => \/ main \in {"threaded", "freed"} \/ Malformed
                          \/ main = "joining" /\ thread = NONE
        /\ proc = "abort" => Malformed
        /\ proc = "nullcall" => main = "registering" /\ cl[conn].req = "known"
        /\ proc = "segv" => main \in {"down", "bound", "piped", "threaded", "cdpready"} /\ sockfile
        /\ proc = "sigpipe" => conn \in Impatient /\ cl[conn].st = "gone" /\ cl[conn].req # "partial"

\* (violated with a second cli_create) "The old UNIX domain socket must still
\* be there. Let's unlink it and try again.": a successful cli_create listens.
CreateListens == main = "up" => h.sock = "listening"

\* cli_destroy returns: the wakeup byte gets the thread out of poll() and no
\* accepted connection holds it for ever.
DestroyReturns == main = "joining" ~> (main = "down" \/ ~Running)

\* Every client that connected is answered or sees its connection closed,
\* unless the process ends or the poll thread of a running server is lost: it
\* could not be created, was stopped by an interrupted poll() or read a
\* garbage state as CLI_DOWN.
ClientsFinish ==
    \A c \in Clients : cl[c].st = "connected" ~>
        \/ cl[c].st \in {"done", "gone"}
        \/ ~Running
        \/ main = "up" /\ thread \in {NONE, "done"}
=============================================================================
