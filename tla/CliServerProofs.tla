-------------------------- MODULE CliServerProofs --------------------------
(***************************************************************************)
(* The CLI server for every number of clients, every backlog, buffer size  *)
(* and print limit, with faults and impatient clients: the poll thread     *)
(* never uses freed memory, each crash the model knows needs the           *)
(* circumstances CrashesExplained names, and a client reads its own reply. *)
(***************************************************************************)
EXTENDS CliServer, SequenceTheorems, TLAPS

\* the results on the output buffer
Out == INSTANCE CmdPrintProofs WITH Texts <- Clients

\* what a client may have read
Replies == Seq(Clients \cup {"success", "no reply"})

ClRecs == [st : {"idle", "connected", "sent", "replied", "gone", "done"},
           req : {"known", "unknown", "toolong", "malformed", "partial"},
           got : Replies, said : Nat]

\* the poll thread holds a connection
Serves == {"read", "find", "call", "execute", "reply", "reinit"}

TypeInv ==
    /\ main \in {"down", "bound", "piped", "threaded", "cdpready", "published", "hooked",
                 "registering", "up", "stopping", "joining", "joined", "freed"}
    /\ thread \in Serves \cup {NONE, "poll", "check", "accept", "done"}
    /\ ready \in BOOLEAN /\ conn \in Clients \cup {NONE}
    /\ h \in [alive : BOOLEAN, state : {CLI_INIT, CLI_DOWN, CLI_FINI}, sock : {"bad", "listening"}]
    /\ published \in BOOLEAN /\ hooked \in BOOLEAN /\ woken \in BOOLEAN /\ sockfile \in BOOLEAN
    /\ backlog \in Seq(Clients) /\ cl \in [Clients -> ClRecs]
    /\ proc \in {"running", "exited", "killed", "segv", "sigpipe", "ub", "abort", "nullcall"}
    /\ creates \in Nat /\ entry \in {"absent", "half", "there"}

\* what there is in each phase of cli_create and cli_destroy
PhaseInv ==
    /\ main \in {"down", "freed"} => ~h.alive
    /\ main \notin {"down", "freed"} => h.alive
    /\ published => main \in {"published", "hooked", "registering", "up", "stopping", "joining", "joined", "freed"}
    /\ ~published => main \in {"down", "bound", "piped", "threaded", "cdpready"}
    /\ cdp.freed => main \in {"down", "bound", "piped", "threaded", "freed"}
    /\ ~cdp.freed => main \in {"cdpready", "published", "hooked", "registering", "up", "stopping", "joining", "joined"}
    /\ thread # NONE => main \in {"threaded", "cdpready", "published", "hooked", "registering", "up",
                                  "stopping", "joining"}
    /\ entry = "half" => main = "registering"
    /\ hooked \/ main # "down" => sockfile \/ proc = "exited"

\* not served yet
Unserved(c) == cl[c].got = NoReply /\ cl[c].said = 0

\* the connections: those of the backlog have not been served, the poll
\* thread holds at most one
ConnInv ==
    /\ conn \in Clients => thread \in Serves
    /\ thread \in Serves => conn \in Clients
    /\ thread = "accept" \/ (thread = "check" /\ ready) => backlog # <<>>
    /\ \A i, j \in 1 .. Len(backlog) : backlog[i] = backlog[j] => i = j
    /\ \A i \in 1 .. Len(backlog) : LET c == backlog[i] IN c # conn /\ Unserved(c) /\ cl[c].st # "idle"
    /\ \A c \in Clients : cl[c].st = "idle" => c # conn /\ Unserved(c)
    /\ \A c \in Clients : cl[c].st = "gone" => c \in Impatient
    /\ thread \in {"read", "find", "call"} => Unserved(conn)
    /\ thread = "call" => cl[conn].req = "known"
    /\ thread \in {"find", "call", "execute", "reply"} =>
         cl[conn].got = NoReply /\ cl[conn].st \in {"sent", "gone"} /\ cl[conn].req \in {"known", "unknown"}

\* the buffer holds what the command of the connection has printed
TextInv ==
    /\ Out!IInv
    /\ thread \in {"execute", "reply", "reinit"} => printed = Buf!Repeat(conn, cl[conn].said)
    /\ thread \notin {"execute", "reply", "reinit"} => printed = <<>>
    /\ cdp.freed => printed = <<>>

IInv == TypeInv /\ PhaseInv /\ ConnInv /\ TextInv /\ CrashesExplained /\ ReplyIsExact

-----------------------------------------------------------------------------
(***************************************************************************)
(* The output buffer                                                       *)
(***************************************************************************)
\* The sizes are those the results on the buffer ask for.
LEMMA Sizes == Out!CmdPrintAssumption
BY CliServerAssumption DEF Out!NUL, Out!JUNK

\* A print keeps the buffer in step with the text.
LEMMA BufPrint ==
    ASSUME Out!IInv, NEW c \in Clients, NEW off \in 1 .. MaxPrint, Buf!PrintText(c, off)
    PROVE  /\ Out!IInv' /\ ~cdp.freed /\ ~cdp'.freed
           /\ printed' = IF Buf!Accepted(off) THEN printed \o Buf!Repeat(c, off) ELSE printed
<1>1. Out!PrintText(c, off)
  BY DEF Buf!PrintText, Out!PrintText, Buf!Grown, Out!Grown, Buf!NeedsRoom, Out!NeedsRoom,
         Buf!Realloc, Out!Realloc, Buf!JUNK, Out!JUNK, Buf!NUL, Out!NUL, Buf!cdp_print, Out!cdp_print,
         Buf!Accepted, Out!Accepted, Buf!Store, Out!Store, Buf!Repeat, Out!Repeat
<1>2. off \in 0 .. MaxPrint
  BY CliServerAssumption
<1>3. Out!IInv'
  BY <1>1, <1>2, Sizes, Out!PrintKeeps
<1>4. ~cdp.freed /\ ~cdp'.freed
  <2>1. (~cdp.freed /\ cdp' = cdp) \/ cdp'.freed = Buf!Grown(cdp, off).freed
    BY DEF Buf!PrintText, Buf!cdp_print, Buf!Store
  <2>2. cdp \in Out!Live(cdp.buf_size)
    BY <1>1 DEF Out!IInv, Out!PrintText
  <2>3. Buf!Grown(cdp, off).freed = cdp.freed
    BY <2>2 DEF Buf!Grown, Out!Live
  <2>4. QED BY <2>1, <2>3 DEF Buf!PrintText
<1>5. QED BY <1>3, <1>4 DEF Buf!PrintText

\* cdp_reinit leaves it empty.
LEMMA BufReinit == ASSUME Out!IInv, Buf!Reinit PROVE Out!IInv' /\ ~cdp.freed /\ ~cdp'.freed /\ printed' = <<>>
<1>1. Out!Reinit
  BY DEF Buf!Reinit, Out!Reinit, Buf!cdp_reinit, Out!cdp_reinit, Buf!cdp_init, Out!cdp_init,
         Buf!Fresh, Out!Fresh, Buf!JUNK, Out!JUNK
<1>2. Out!IInv'
  BY <1>1, Sizes, Out!ReinitKeeps
<1>3. ~cdp.freed /\ cdp \in Out!Live(cdp.buf_size)
  BY <1>1 DEF Out!IInv, Out!Reinit
<1>4. ~cdp'.freed
  BY <1>3 DEF Buf!Reinit, Buf!cdp_reinit, Buf!cdp_init, Out!Live
<1>5. QED BY <1>2, <1>3, <1>4 DEF Buf!Reinit

\* cdp_destroy frees it.
LEMMA BufDestroy == ASSUME Out!IInv, Buf!Destroy PROVE Out!IInv' /\ cdp'.freed /\ printed' = <<>>
<1>1. Out!Destroy
  BY DEF Buf!Destroy, Out!Destroy, Buf!cdp_destroy, Out!cdp_destroy
<1>2. Out!IInv'
  BY <1>1, Sizes, Out!DestroyKeeps
<1>3. cdp \in Out!Live(cdp.buf_size)
  BY <1>1 DEF Out!IInv, Out!Destroy
<1>4. cdp'.freed
  BY <1>3 DEF Buf!Destroy, Buf!cdp_destroy, Out!Live
<1>5. QED BY <1>2, <1>4 DEF Buf!Destroy

\* cdp_init makes a fresh one.
LEMMA BufInitialised ==
    ASSUME cdp' = Buf!cdp_init, printed' = <<>> PROVE Out!IInv' /\ ~cdp'.freed
<1>1. Buf!cdp_init = Out!cdp_init
  BY DEF Buf!cdp_init, Out!cdp_init, Buf!Fresh, Out!Fresh, Buf!JUNK, Out!JUNK
<1>2. Out!cdp_init \in Out!Live(BufInit) /\ Out!Holds(Out!cdp_init, <<>>)
  BY Sizes, Out!FreshHolds
<1>3. cdp' \in Out!Live(BufInit) /\ Out!Holds(cdp', printed') /\ cdp'.buf_size = BufInit /\ BufInit \in Nat
  BY <1>1, <1>2, CliServerAssumption DEF Out!Live
<1>4. cdp'.freed = FALSE /\ cdp'.pos \in Nat /\ cdp'.buf \in [0 .. BufInit - 1 -> Out!Cells] /\ printed' \in Seq(Clients)
  <2>1. printed' \in Seq(Clients)
    OBVIOUS
  <2>2. QED BY <1>3, <2>1, Sizes, Out!LiveTyped
<1>5. QED BY <1>3, <1>4 DEF Out!IInv, Out!TypeOK

\* What cdp_output returns.
LEMMA BufOutput ==
    ASSUME Out!IInv, ~cdp.freed
    PROVE  Buf!cdp_output(cdp) = IF printed = <<>> THEN Buf!SUCCESS ELSE printed
<1>1. Out!cdp_output(cdp) = IF printed = <<>> THEN Out!SUCCESS ELSE printed
  BY Sizes, Out!OutputHolds DEF Out!OutputIsPrinted
<1>2. QED BY <1>1 DEF Buf!cdp_output, Out!cdp_output, Buf!CString, Out!CString, Buf!NUL, Out!NUL,
                     Buf!SUCCESS, Out!SUCCESS

\* The texts of one client.
LEMMA Repeats ==
    ASSUME NEW c \in Clients, NEW m \in Nat, NEW n \in Nat
    PROVE  /\ Buf!Repeat(c, m) \in Seq(Clients) /\ Buf!Repeat(c, 0) = <<>>
           /\ Buf!Repeat(c, m) \o Buf!Repeat(c, n) = Buf!Repeat(c, m + n)
           /\ Buf!Repeat(c, m) = <<>> => m = 0
<1> DEFINE s == Buf!Repeat(c, m)
           t == Buf!Repeat(c, n)
<1>1. /\ s \in Seq(Clients) /\ Len(s) = m /\ \A i \in 1 .. m : s[i] = c
      /\ t \in Seq(Clients) /\ Len(t) = n /\ \A i \in 1 .. n : t[i] = c
  BY DEF Buf!Repeat
<1>2. Buf!Repeat(c, 0) = <<>>
  BY DEF Buf!Repeat
<1> HIDE DEF s, t
<1>3. s \o t = Buf!Repeat(c, m + n)
  <2> DEFINE u == Buf!Repeat(c, m + n)
  <2>1. u \in Seq(Clients) /\ Len(u) = m + n /\ \A i \in 1 .. m + n : u[i] = c
    BY DEF Buf!Repeat
  <2>2. s \o t \in Seq(Clients) /\ Len(s \o t) = m + n
    BY <1>1
  <2>3. \A i \in 1 .. m + n : (s \o t)[i] = c
    BY <1>1
  <2> HIDE DEF u
  <2>4. s \o t = u
    BY <2>1, <2>2, <2>3, SeqEqual
  <2>5. QED BY <2>4 DEF u
<1>4. QED BY <1>1, <1>2, <1>3 DEF s, t

(***************************************************************************)
(* Types                                                                   *)
(***************************************************************************)
States == {"idle", "connected", "sent", "replied", "gone", "done"}

\* A client's state changes, the rest of its record stays.
LEMMA StateSet ==
    ASSUME cl \in [Clients -> ClRecs], NEW c \in Clients, NEW x \in States, cl' = [cl EXCEPT ![c].st = x]
    PROVE  /\ cl' \in [Clients -> ClRecs] /\ \A d \in Clients \ {c} : cl'[d] = cl[d]
           /\ cl'[c].st = x /\ cl'[c].req = cl[c].req /\ cl'[c].got = cl[c].got /\ cl'[c].said = cl[c].said
<1> DEFINE r == [cl[c] EXCEPT !.st = x]
<1>1. cl[c] \in ClRecs
  OBVIOUS
<1>2. r \in ClRecs /\ r.st = x /\ r.req = cl[c].req /\ r.got = cl[c].got /\ r.said = cl[c].said
  BY <1>1 DEF ClRecs, States
<1>3. cl' = [cl EXCEPT ![c] = r]
  OBVIOUS
<1> HIDE DEF r
<1>4. QED BY <1>2, <1>3

\* Closing the socket ends the clients that wait, and changes nothing else.
LEMMA HangupIs ==
    ASSUME cl \in [Clients -> ClRecs], NEW q \in Seq(Clients), cl' = Hangup(q)
    PROVE  /\ cl' \in [Clients -> ClRecs]
           /\ \A c \in Clients : /\ cl'[c].req = cl[c].req /\ cl'[c].got = cl[c].got /\ cl'[c].said = cl[c].said
                                 /\ cl'[c].st = cl[c].st \/ (cl'[c].st = "done" /\ cl[c].st # "gone")
<1>1. ASSUME NEW c \in Clients
      PROVE  /\ cl'[c] \in ClRecs
             /\ cl'[c].req = cl[c].req /\ cl'[c].got = cl[c].got /\ cl'[c].said = cl[c].said
             /\ cl'[c].st = cl[c].st \/ (cl'[c].st = "done" /\ cl[c].st # "gone")
  <2>1. cl[c] \in ClRecs
    OBVIOUS
  <2>2. cl'[c] = IF \E i \in 1 .. Len(q) : q[i] = c
                 THEN [cl[c] EXCEPT !.st = IF cl[c].st = "gone" THEN cl[c].st ELSE "done"] ELSE cl[c]
    BY DEF Hangup
  <2>3. CASE \E i \in 1 .. Len(q) : q[i] = c
    <3> DEFINE x == IF cl[c].st = "gone" THEN cl[c].st ELSE "done"
               r == [cl[c] EXCEPT !.st = x]
    <3>1. x \in States
      BY <2>1 DEF ClRecs, States
    <3>2. r \in ClRecs /\ r.st = x /\ r.req = cl[c].req /\ r.got = cl[c].got /\ r.said = cl[c].said
      <4> HIDE DEF x
      <4> QED BY <2>1, <3>1 DEF ClRecs, States
    <3>3. cl'[c] = r
      BY <2>2, <2>3
    <3> HIDE DEF r
    <3>4. QED BY <3>2, <3>3
  <2>4. CASE ~\E i \in 1 .. Len(q) : q[i] = c
    BY <2>1, <2>2, <2>4
  <2>5. QED BY <2>3, <2>4
<1>2. DOMAIN cl' = Clients /\ cl' = [c \in Clients |-> cl'[c]]
  BY DEF Hangup
<1>3. QED BY <1>1, <1>2

\* A command that has printed off more cells.
LEMMA SaidSet ==
    ASSUME cl \in [Clients -> ClRecs], NEW c \in Clients, NEW n \in Nat, cl' = [cl EXCEPT ![c].said = n]
    PROVE  /\ cl' \in [Clients -> ClRecs] /\ \A d \in Clients \ {c} : cl'[d] = cl[d]
           /\ cl'[c].said = n /\ cl'[c].st = cl[c].st /\ cl'[c].req = cl[c].req /\ cl'[c].got = cl[c].got
<1> DEFINE r == [cl[c] EXCEPT !.said = n]
<1>1. cl[c] \in ClRecs
  OBVIOUS
<1>2. r \in ClRecs /\ r.said = n /\ r.req = cl[c].req /\ r.got = cl[c].got /\ r.st = cl[c].st
  BY <1>1 DEF ClRecs
<1>3. cl' = [cl EXCEPT ![c] = r]
  OBVIOUS
<1> HIDE DEF r
<1>4. QED BY <1>2, <1>3

\* A request taken for another one.
LEMMA ReqSet ==
    ASSUME cl \in [Clients -> ClRecs], NEW c \in Clients, NEW x \in {"known", "unknown"}, cl' = [cl EXCEPT ![c].req = x]
    PROVE  /\ cl' \in [Clients -> ClRecs] /\ \A d \in Clients \ {c} : cl'[d] = cl[d]
           /\ cl'[c].req = x /\ cl'[c].st = cl[c].st /\ cl'[c].got = cl[c].got /\ cl'[c].said = cl[c].said
<1> DEFINE r == [cl[c] EXCEPT !.req = x]
<1>1. cl[c] \in ClRecs
  OBVIOUS
<1>2. r \in ClRecs /\ r.req = x /\ r.st = cl[c].st /\ r.got = cl[c].got /\ r.said = cl[c].said
  BY <1>1 DEF ClRecs
<1>3. cl' = [cl EXCEPT ![c] = r]
  OBVIOUS
<1> HIDE DEF r
<1>4. QED BY <1>2, <1>3

\* A client that has its reply.
LEMMA ReplySet ==
    ASSUME cl \in [Clients -> ClRecs], NEW c \in Clients, NEW s \in Replies,
           cl' = [cl EXCEPT ![c].got = s, ![c].st = "replied"]
    PROVE  /\ cl' \in [Clients -> ClRecs] /\ \A d \in Clients \ {c} : cl'[d] = cl[d]
           /\ cl'[c].said = cl[c].said /\ cl'[c].st = "replied" /\ cl'[c].req = cl[c].req /\ cl'[c].got = s
<1> DEFINE r == [cl[c] EXCEPT !.got = s, !.st = "replied"]
<1>1. cl[c] \in ClRecs
  OBVIOUS
<1>2. r \in ClRecs /\ r.said = cl[c].said /\ r.req = cl[c].req /\ r.got = s /\ r.st = "replied"
  BY <1>1 DEF ClRecs
<1>3. cl' = [cl EXCEPT ![c] = r]
  OBVIOUS
<1> HIDE DEF r
<1>4. QED BY <1>2, <1>3

\* A client that dies before its request is complete.
LEMMA PartialSet ==
    ASSUME cl \in [Clients -> ClRecs], NEW c \in Clients, cl' = [cl EXCEPT ![c].st = "gone", ![c].req = "partial"]
    PROVE  /\ cl' \in [Clients -> ClRecs] /\ \A d \in Clients \ {c} : cl'[d] = cl[d]
           /\ cl'[c].said = cl[c].said /\ cl'[c].st = "gone" /\ cl'[c].req = "partial" /\ cl'[c].got = cl[c].got
<1> DEFINE r == [cl[c] EXCEPT !.st = "gone", !.req = "partial"]
<1>1. cl[c] \in ClRecs
  OBVIOUS
<1>2. r \in ClRecs /\ r.said = cl[c].said /\ r.req = "partial" /\ r.got = cl[c].got /\ r.st = "gone"
  BY <1>1 DEF ClRecs
<1>3. cl' = [cl EXCEPT ![c] = r]
  OBVIOUS
<1> HIDE DEF r
<1>4. QED BY <1>2, <1>3

(***************************************************************************)
(* cli_create, cli_destroy and the end of the process                      *)
(***************************************************************************)
\* The connections and the text do not depend on the main thread's state.
LEMMA Frame ==
    ASSUME ConnInv, TextInv, ReplyIsExact,
           UNCHANGED <<thread, ready, conn, backlog, cl, cdp, printed>>
    PROVE  ConnInv' /\ TextInv' /\ ReplyIsExact'
<1>1. ConnInv'
  BY DEF ConnInv, Unserved
<1>2. TextInv'
  BY DEF TextInv, Out!IInv, Out!TypeOK, Out!Holds, Out!Live
<1>3. ReplyIsExact'
  BY DEF ReplyIsExact
<1>4. QED BY <1>1, <1>2, <1>3

\* Nothing crashes while the process runs.
LEMMA NoCrash == proc = "running" => CrashesExplained
BY DEF CrashesExplained

\* The same of the next state.
LEMMA NoCrashNext == proc' = "running" => CrashesExplained'
BY DEF CrashesExplained

\* The steps of cli_create that leave the thread alone.
LEMMA CreateKeeps ==
    ASSUME IInv, CreateBind \/ CreatePipe \/ CreateThreadFails \/ CreatePublish \/ CreateHooks \/ CreateReturns
    PROVE  IInv'
<1> USE CliServerAssumption
<1>0. TypeInv /\ PhaseInv /\ ConnInv /\ TextInv /\ ReplyIsExact
  BY DEF IInv
<1>1. UNCHANGED <<thread, ready, conn, backlog, cl, cdp, printed, proc, entry>> /\ proc = "running"
  BY DEF CreateBind, CreatePipe, CreateThreadFails, CreatePublish, CreateHooks, CreateReturns, bind_and_listen,
         threadVars, bufVars, envVars, mainVars, Running
<1>2. ConnInv' /\ TextInv' /\ ReplyIsExact' /\ CrashesExplained'
  BY <1>0, <1>1, Frame, NoCrashNext
<1>3. CASE CreateBind
  <2>1. /\ h' = [h EXCEPT !.alive = TRUE, !.sock = "bad"] \/ h' = [h EXCEPT !.alive = TRUE, !.sock = "listening"]
        /\ sockfile' = TRUE /\ UNCHANGED <<published, hooked, woken>> /\ main' = "bound" /\ main = "down" /\ creates' = creates + 1
    BY <1>0, <1>3 DEF CreateBind, bind_and_listen, TypeInv
  <2>2. TypeInv'
    <3>1. h' \in [alive : BOOLEAN, state : {CLI_INIT, CLI_DOWN, CLI_FINI}, sock : {"bad", "listening"}]
      BY <1>0, <2>1 DEF TypeInv
    <3>2. QED BY <1>0, <1>1, <2>1, <3>1 DEF TypeInv
  <2>3. h'.alive
    BY <1>0, <2>1 DEF TypeInv
  <2>4. PhaseInv'
    BY <1>0, <1>1, <2>1, <2>3 DEF PhaseInv
  <2>5. QED BY <1>2, <2>2, <2>4 DEF IInv
<1>4. CASE CreatePipe \/ CreateThreadFails
  <2>1. /\ UNCHANGED <<h, published, hooked, creates, entry, sockfile>> /\ woken' \in BOOLEAN
        /\ (main = "bound" /\ main' = "piped") \/ (main = "piped" /\ main' = "threaded")
    BY <1>0, <1>4 DEF CreatePipe, CreateThreadFails, envVars, TypeInv
  <2>2. TypeInv' /\ PhaseInv'
    BY <1>0, <1>1, <2>1 DEF TypeInv, PhaseInv
  <2>3. QED BY <1>2, <2>2 DEF IInv
<1>5. CASE CreatePublish
  <2>1. /\ UNCHANGED <<hooked, woken, creates, entry, sockfile>> /\ main = "cdpready" /\ main' = "published"
        /\ h' = [h EXCEPT !.state = CLI_INIT] /\ published' = TRUE
    BY <1>5 DEF CreatePublish, envVars
  <2>2. TypeInv'
    BY <1>0, <1>1, <2>1 DEF TypeInv
  <2>3. h'.alive = h.alive
    BY <1>0, <2>1 DEF TypeInv
  <2>4. PhaseInv'
    BY <1>0, <1>1, <2>1, <2>3 DEF PhaseInv
  <2>5. QED BY <1>2, <2>2, <2>4 DEF IInv
<1>6. CASE CreateHooks \/ CreateReturns
  <2>1. /\ UNCHANGED <<h, published, woken, creates, entry, sockfile>>
        /\ \/ main = "published" /\ main' = "hooked" /\ hooked' = TRUE
           \/ main = "hooked" /\ main' = "up" /\ hooked' = hooked
    BY <1>6 DEF CreateHooks, CreateReturns, envVars
  <2>2. TypeInv' /\ PhaseInv'
    <3>1. CASE main = "published" /\ main' = "hooked" /\ hooked' = TRUE
      BY <1>0, <1>1, <2>1, <3>1 DEF TypeInv, PhaseInv
    <3>2. CASE main = "hooked" /\ main' = "up" /\ hooked' = hooked
      BY <1>0, <1>1, <2>1, <3>2 DEF TypeInv, PhaseInv
    <3>3. QED BY <2>1, <3>1, <3>2
  <2>3. QED BY <1>2, <2>2 DEF IInv
<1>7. QED BY <1>3, <1>4, <1>5, <1>6

\* cli_register: a half-filled entry is gone when it returns.
LEMMA RegisterKeeps ==
    ASSUME IInv, Register \/ RegisterReturns
    PROVE  IInv'
<1>0. TypeInv /\ PhaseInv /\ ConnInv /\ TextInv /\ ReplyIsExact
  BY DEF IInv
<1>1. /\ UNCHANGED <<h, published, hooked, woken, creates, thread, ready, conn, cdp, printed, sockfile, backlog, cl, proc>>
      /\ proc = "running"
      /\ \/ main \in {"hooked", "up"} /\ main' = "registering" /\ entry' \in {"absent", "half"}
         \/ main = "registering" /\ main' = "up" /\ entry' = "there"
  BY DEF Register, RegisterReturns, threadVars, bufVars, envVars, Running
<1>2. ConnInv' /\ TextInv' /\ ReplyIsExact' /\ CrashesExplained'
  BY <1>0, <1>1, Frame, NoCrashNext
<1>3. TypeInv' /\ PhaseInv'
  BY <1>0, <1>1 DEF TypeInv, PhaseInv
<1>4. QED BY <1>2, <1>3 DEF IInv

\* The steps of cli_destroy that leave the thread alone.
LEMMA DestroyKeeps ==
    ASSUME IInv, DestroyDown \/ DestroyWakeup \/ DestroyClear
    PROVE  IInv'
<1> USE CliServerAssumption
<1>0. TypeInv /\ PhaseInv /\ ConnInv /\ TextInv /\ ReplyIsExact
  BY DEF IInv
<1>1. /\ UNCHANGED <<thread, ready, conn, backlog, cl, cdp, printed, proc, sockfile, creates, entry, hooked>> /\ proc = "running"
  BY DEF DestroyDown, DestroyWakeup, DestroyClear, threadVars, bufVars, envVars, mainVars, Running
<1>2. ConnInv' /\ TextInv' /\ ReplyIsExact' /\ CrashesExplained'
  BY <1>0, <1>1, Frame, NoCrashNext
<1>3. TypeInv' /\ PhaseInv'
  <2>1. CASE DestroyDown
    BY <1>0, <1>1, <2>1 DEF DestroyDown, TypeInv, PhaseInv
  <2>2. CASE DestroyWakeup
    BY <1>0, <1>1, <2>2 DEF DestroyWakeup, TypeInv, PhaseInv
  <2>3. CASE DestroyClear
    <3>1. PICK s \in GarbageState : h' = [h EXCEPT !.state = s]
      BY <2>3 DEF DestroyClear
    <3>2. s \in {CLI_INIT, CLI_DOWN, CLI_FINI}
      OBVIOUS
    <3>3. QED BY <1>0, <1>1, <2>3, <3>1, <3>2 DEF DestroyClear, TypeInv, PhaseInv
  <2>4. QED BY <2>1, <2>2, <2>3
<1>4. QED BY <1>2, <1>3 DEF IInv

\* The steps that end the process.
LEMMA EndKeeps ==
    ASSUME IInv, AppExit \/ SigInt \/ DestroyJoinNobody
    PROVE  IInv'
<1> USE CliServerAssumption
<1>0. TypeInv /\ PhaseInv /\ ConnInv /\ TextInv /\ ReplyIsExact
  BY DEF IInv
<1>1. UNCHANGED <<mainVars, threadVars, bufVars, backlog, cl>> /\ proc = "running"
  BY DEF AppExit, SigInt, DestroyJoinNobody, Exit, EndsAs, envVars, Running
<1>2. ConnInv' /\ TextInv' /\ ReplyIsExact'
  BY <1>0, <1>1, Frame DEF mainVars, threadVars, bufVars
<1>3. \/ proc' \in {"exited", "killed"} /\ (sockfile' = sockfile \/ (sockfile' = FALSE /\ proc' = "exited"))
      \/ proc' = "segv" /\ hooked /\ ~published /\ UNCHANGED sockfile
      \/ proc' = "ub" /\ hooked /\ published /\ ~h.alive /\ UNCHANGED sockfile
      \/ proc' = "ub" /\ main = "joining" /\ thread = NONE /\ UNCHANGED sockfile
  BY DEF AppExit, SigInt, DestroyJoinNobody, Exit, EndsAs, envVars, remove_all_cleanup_files
<1>4. TypeInv'
  <2>1. sockfile' \in BOOLEAN /\ proc' \in {"exited", "killed", "segv", "ub"}
    BY <1>0, <1>3 DEF TypeInv
  <2>2. QED BY <2>1, <1>0, <1>1, <1>3 DEF TypeInv, mainVars, threadVars, bufVars
<1>5. PhaseInv'
  BY <1>0, <1>1, <1>3 DEF PhaseInv, mainVars, threadVars, bufVars
<1>6. CrashesExplained'
  <2>1. proc' = "ub" => main \in {"threaded", "freed"} \/ (main = "joining" /\ thread = NONE)
    BY <1>0, <1>3 DEF PhaseInv
  <2>2. proc' = "segv" => main \in {"down", "bound", "piped", "threaded", "cdpready"} /\ sockfile /\ UNCHANGED sockfile
    BY <1>0, <1>1, <1>3 DEF PhaseInv
  <2>3. proc' \notin {"sigpipe", "abort", "nullcall"}
    BY <1>3
  <2>4. QED BY <1>1, <2>1, <2>2, <2>3 DEF CrashesExplained, mainVars, threadVars
<1>7. QED BY <1>2, <1>4, <1>5, <1>6 DEF IInv

\* The poll thread is created and joined.
LEMMA ThreadKeeps ==
    ASSUME IInv, CreateThread \/ DestroyJoin
    PROVE  IInv'
<1>0. TypeInv /\ PhaseInv /\ ConnInv /\ TextInv /\ ReplyIsExact
  BY DEF IInv
<1>1. /\ UNCHANGED <<h, published, hooked, woken, creates, entry, ready, conn, cdp, printed, sockfile, backlog, cl, proc>>
      /\ proc = "running"
      /\ \/ main = "piped" /\ main' = "threaded" /\ thread' = "poll"
         \/ main = "joining" /\ thread = "done" /\ main' = "joined" /\ thread' = NONE
  BY DEF CreateThread, DestroyJoin, bufVars, envVars, Running
<1>2. thread \in {NONE, "done"} /\ thread' \in {NONE, "poll"}
  BY <1>0, <1>1 DEF PhaseInv
<1>3. TypeInv' /\ PhaseInv'
  BY <1>0, <1>1 DEF TypeInv, PhaseInv
<1>4. ConnInv'
  BY <1>0, <1>1, <1>2 DEF ConnInv, Unserved, Serves, NONE
<1>5. TextInv'
  <2>1. Out!IInv'
    BY <1>0, <1>1 DEF TextInv, Out!IInv, Out!TypeOK, Out!Holds, Out!Live
  <2>2. QED BY <1>0, <1>1, <1>2, <2>1 DEF TextInv, NONE
<1>6. ReplyIsExact' /\ CrashesExplained'
  BY <1>0, <1>1, NoCrashNext DEF ReplyIsExact
<1>7. QED BY <1>3, <1>4, <1>5, <1>6 DEF IInv

\* The buffer is made.
LEMMA CdpKeeps == ASSUME IInv, CreateCdp PROVE IInv'
<1>0. TypeInv /\ PhaseInv /\ ConnInv /\ TextInv /\ ReplyIsExact
  BY DEF IInv
<1>1. /\ UNCHANGED <<h, published, hooked, woken, creates, entry, thread, ready, conn, sockfile, backlog, cl, proc>>
      /\ proc = "running" /\ main = "threaded" /\ main' = "cdpready"
      /\ cdp' = Buf!cdp_init /\ printed' = <<>>
  BY DEF CreateCdp, threadVars, envVars, Running
<1>2. Out!IInv' /\ ~cdp'.freed
  BY <1>1, BufInitialised
<1>3. cdp.freed
  BY <1>0, <1>1 DEF PhaseInv
<1>4. TypeInv' /\ PhaseInv'
  BY <1>0, <1>1, <1>2 DEF TypeInv, PhaseInv
<1>5. ConnInv' /\ ReplyIsExact' /\ CrashesExplained'
  BY <1>0, <1>1, NoCrashNext DEF ConnInv, Unserved, ReplyIsExact
<1>6. TextInv'
  BY <1>0, <1>1, <1>2, <1>3 DEF TextInv
<1>7. QED BY <1>4, <1>5, <1>6 DEF IInv

\* The socket is closed and the handler freed: no thread serves anybody.
LEMMA FreeKeeps ==
    ASSUME IInv, CreatePipeFails \/ DestroyFree
    PROVE  IInv'
<1>0. TypeInv /\ PhaseInv /\ ConnInv /\ TextInv /\ ReplyIsExact
  BY DEF IInv
<1>1. /\ UNCHANGED <<published, hooked, creates, entry, thread, ready, conn, sockfile, proc>>
      /\ proc = "running" /\ cl' = Hangup(backlog) /\ backlog' = <<>>
  BY DEF CreatePipeFails, DestroyFree, threadVars, Running
<1>2. \/ /\ main = "bound" /\ main' = "down" /\ UNCHANGED <<cdp, printed, woken>> /\ h' = [h EXCEPT !.alive = FALSE]
      \/ /\ main = "joined" /\ main' = "freed" /\ Buf!Destroy /\ woken' = FALSE
         /\ h' = [h EXCEPT !.alive = FALSE, !.state = CLI_FINI]
  BY DEF CreatePipeFails, DestroyFree, bufVars
<1>3. thread = NONE
  BY <1>0, <1>2 DEF PhaseInv
<1>4. /\ cl' \in [Clients -> ClRecs]
      /\ \A c \in Clients : /\ cl'[c].req = cl[c].req /\ cl'[c].got = cl[c].got /\ cl'[c].said = cl[c].said
                            /\ cl'[c].st = cl[c].st \/ (cl'[c].st = "done" /\ cl[c].st # "gone")
  BY <1>0, <1>1, HangupIs DEF TypeInv
<1>5. /\ h' \in [alive : BOOLEAN, state : {CLI_INIT, CLI_DOWN, CLI_FINI}, sock : {"bad", "listening"}]
      /\ ~h'.alive
  BY <1>0, <1>2 DEF TypeInv
<1>6. Out!IInv' /\ printed' = <<>> /\ cdp'.freed
  <2>1. CASE UNCHANGED <<cdp, printed>> /\ main = "bound"
    <3>1. Out!IInv'
      BY <1>0, <2>1 DEF TextInv, Out!IInv, Out!TypeOK, Out!Holds, Out!Live
    <3>2. cdp.freed
      BY <1>0, <2>1 DEF PhaseInv
    <3>3. QED BY <1>0, <2>1, <3>1, <3>2 DEF TextInv
  <2>2. CASE Buf!Destroy
    BY <1>0, <2>2, BufDestroy DEF TextInv
  <2>3. QED BY <1>2, <2>1, <2>2
<1>7. TypeInv'
  <2>1. woken' \in BOOLEAN /\ main' \in {"down", "freed"}
    BY <1>0, <1>2 DEF TypeInv
  <2>2. backlog' \in Seq(Clients)
    BY <1>1
  <2>3. QED BY <1>0, <1>1, <1>4, <1>5, <2>1, <2>2 DEF TypeInv
<1>8. PhaseInv'
  BY <1>0, <1>1, <1>2, <1>3, <1>5, <1>6 DEF PhaseInv
<1>9. ConnInv'
  <2>1. Len(backlog') = 0 /\ 1 .. 0 = {} /\ thread' = NONE /\ conn' = conn
    BY <1>1, <1>3
  <2>2. \A c \in Clients : cl'[c].st = "idle" => c # conn /\ Unserved(c)'
    BY <1>0, <1>4 DEF ConnInv, Unserved
  <2>3. \A c \in Clients : cl'[c].st = "gone" => c \in Impatient
    BY <1>0, <1>4 DEF ConnInv
  <2>4. conn \notin Clients
    BY <1>0, <1>3 DEF ConnInv, Serves, NONE
  <2>5. QED BY <2>1, <2>2, <2>3, <2>4 DEF ConnInv, Serves, NONE
<1>10. TextInv'
  BY <1>1, <1>3, <1>6 DEF TextInv, NONE
<1>11. ReplyIsExact' /\ CrashesExplained'
  BY <1>0, <1>1, <1>4, NoCrashNext DEF ReplyIsExact
<1>12. QED BY <1>7, <1>8, <1>9, <1>10, <1>11 DEF IInv

(***************************************************************************)
(* The poll thread                                                         *)
(***************************************************************************)
\* The steps that only move it.
LEMMA MoveKeeps ==
    ASSUME IInv, PollReturns \/ PollInterrupted \/ CheckState \/ HandlerReturns
    PROVE  IInv'
<1>0. TypeInv /\ PhaseInv /\ ConnInv /\ TextInv /\ ReplyIsExact
  BY DEF IInv
<1>1. /\ UNCHANGED <<mainVars, conn, bufVars, envVars, proc>> /\ proc = "running"
      /\ \/ thread = "poll" /\ thread' = "check" /\ ready' \in BOOLEAN /\ (ready' => backlog # <<>>)
         \/ thread = "poll" /\ thread' = "done" /\ UNCHANGED ready
         \/ thread = "check" /\ thread' \in {"done", "poll"} /\ UNCHANGED ready
         \/ thread = "check" /\ thread' = "accept" /\ ready /\ UNCHANGED ready
         \/ thread = "execute" /\ thread' = "reply" /\ UNCHANGED ready
  BY DEF PollReturns, PollInterrupted, CheckState, HandlerReturns, Running
<1>2. UNCHANGED <<main, h, published, hooked, woken, creates, entry, conn, cdp, printed, sockfile, backlog, cl, proc>>
  BY <1>1 DEF mainVars, bufVars, envVars
<1>3. TypeInv' /\ PhaseInv'
  BY <1>0, <1>1, <1>2 DEF TypeInv, PhaseInv, Serves, NONE
<1>4. ConnInv'
  <2>1. /\ conn \in Clients => thread' \in Serves
        /\ thread' \in Serves => conn \in Clients
        /\ thread' = "accept" \/ (thread' = "check" /\ ready') => backlog # <<>>
        /\ thread' \notin {"read", "find", "call"} /\ (thread' \in {"execute", "reply"} => thread = "execute")
    BY <1>0, <1>1 DEF ConnInv, Serves
  <2>2. QED BY <1>0, <1>2, <2>1 DEF ConnInv, Unserved
<1>5. TextInv'
  <2>1. Out!IInv'
    BY <1>0, <1>2 DEF TextInv, Out!IInv, Out!TypeOK, Out!Holds, Out!Live
  <2>2. thread' \in {"execute", "reply", "reinit"} <=> thread \in {"execute", "reply", "reinit"}
    BY <1>1
  <2>3. QED BY <1>0, <1>2, <2>1, <2>2 DEF TextInv
<1>6. ReplyIsExact' /\ CrashesExplained'
  BY <1>0, <1>1, <1>2, NoCrashNext DEF ReplyIsExact
<1>7. QED BY <1>3, <1>4, <1>5, <1>6 DEF IInv

\* The clients of the backlog are not the one that is served.
LEMMA Waiting == ASSUME TypeInv, ConnInv PROVE \A i \in 1 .. Len(backlog) : backlog[i] \in Clients \ {conn}
<1>1. backlog \in Seq(Clients)
  BY DEF TypeInv
<1>2. \A i \in 1 .. Len(backlog) : backlog[i] \in Clients
  BY <1>1
<1>3. QED BY <1>2 DEF ConnInv

\* accept() takes the first of the backlog.
LEMMA AcceptKeeps == ASSUME IInv, Accept PROVE IInv'
<1>0. TypeInv /\ PhaseInv /\ ConnInv /\ TextInv /\ ReplyIsExact
  BY DEF IInv
<1>1. /\ UNCHANGED <<main, h, published, hooked, woken, creates, entry, ready, cdp, printed, sockfile, cl, proc>>
      /\ proc = "running" /\ thread = "accept" /\ thread' = "read"
      /\ conn' = Head(backlog) /\ backlog' = Tail(backlog)
  BY DEF Accept, Running, mainVars, bufVars
<1>2. backlog \in Seq(Clients) /\ backlog # <<>>
  BY <1>0, <1>1 DEF TypeInv, ConnInv
<1>3. /\ Len(backlog) \in Nat /\ Len(backlog) > 0 /\ conn' = backlog[1] /\ conn' \in Clients
      /\ backlog' \in Seq(Clients) /\ Len(backlog') = Len(backlog) - 1
      /\ \A i \in 1 .. Len(backlog') : backlog'[i] = backlog[i + 1] /\ i + 1 \in 1 .. Len(backlog) /\ i + 1 # 1
      /\ 1 \in 1 .. Len(backlog)
  BY <1>1, <1>2
<1>4. TypeInv' /\ PhaseInv'
  BY <1>0, <1>1, <1>3 DEF TypeInv, PhaseInv, Serves, NONE
<1>5. ConnInv'
  <2>1. cl'[conn'].got = NoReply /\ cl'[conn'].said = 0 /\ cl'[conn'].st # "idle"
    BY <1>0, <1>1, <1>3 DEF ConnInv, Unserved
  <2>2. \A i \in 1 .. Len(backlog') : backlog'[i] # conn'
    BY <1>0, <1>3 DEF ConnInv
  <2>3. \A i, j \in 1 .. Len(backlog') : backlog'[i] = backlog'[j] => i = j
    <3>1. TAKE i, j \in 1 .. Len(backlog')
    <3>2. HAVE backlog'[i] = backlog'[j]
    <3>3. i + 1 = j + 1
      BY <1>0, <1>3, <3>2 DEF ConnInv
    <3>4. QED BY <1>3, <3>3
  <2>4. \A i \in 1 .. Len(backlog') : LET c == backlog'[i] IN cl'[c].got = NoReply /\ cl'[c].said = 0 /\ cl'[c].st # "idle"
    BY <1>0, <1>1, <1>3 DEF ConnInv, Unserved
  <2>5. \A c \in Clients : cl'[c].st = "idle" => c # conn' /\ Unserved(c)'
    BY <1>0, <1>1, <2>1 DEF ConnInv, Unserved
  <2>6. QED BY <1>0, <1>1, <1>3, <2>1, <2>2, <2>3, <2>4, <2>5 DEF ConnInv, Serves, Unserved
<1>6. TextInv'
  <2>1. Out!IInv'
    BY <1>0, <1>1 DEF TextInv, Out!IInv, Out!TypeOK, Out!Holds, Out!Live
  <2>2. QED BY <1>0, <1>1, <2>1 DEF TextInv
<1>7. ReplyIsExact' /\ CrashesExplained'
  BY <1>0, <1>1, NoCrashNext DEF ReplyIsExact
<1>8. QED BY <1>4, <1>5, <1>6, <1>7 DEF IInv

\* The connection is closed: its client is done, unless it was gone before.
LEMMA CloseKeeps ==
    ASSUME TypeInv, PhaseInv, ConnInv, ReplyIsExact, thread \in Serves, CloseConn,
           UNCHANGED <<mainVars, ready, sockfile, backlog, proc>>, cdp'.freed = cdp.freed
    PROVE  TypeInv' /\ PhaseInv' /\ ConnInv' /\ ReplyIsExact' /\ thread' = "poll"
<1>1. conn \in Clients /\ conn' = NONE /\ thread' = "poll"
  BY DEF ConnInv, CloseConn
<1>2. UNCHANGED <<main, h, published, hooked, woken, creates, entry>>
  BY DEF mainVars
<1>3. PICK x \in {"gone", "done"} : cl' = [cl EXCEPT ![conn].st = x] /\ (x = "gone" => cl[conn].st = "gone")
  BY DEF CloseConn
<1>4. /\ cl' \in [Clients -> ClRecs] /\ \A d \in Clients \ {conn} : cl'[d] = cl[d]
      /\ cl'[conn].st = x /\ cl'[conn].req = cl[conn].req /\ cl'[conn].got = cl[conn].got /\ cl'[conn].said = cl[conn].said
  BY <1>1, <1>3, StateSet DEF TypeInv, States
<1>5. TypeInv'
  BY <1>1, <1>2, <1>4 DEF TypeInv
<1>6. PhaseInv'
  BY <1>1, <1>2 DEF PhaseInv, Serves, NONE
<1>7. ConnInv'
  <2>1. backlog \in Seq(Clients) /\ NONE \notin Clients
    BY CliServerAssumption DEF TypeInv
  <2>2. \A i \in 1 .. Len(backlog) : backlog[i] \in Clients \ {conn} /\ backlog[i] # NONE
    BY <2>1 DEF ConnInv
  <2>3. \A c \in Clients : (cl'[c].st = "idle" => c # NONE /\ Unserved(c)') /\ (cl'[c].st = "gone" => c \in Impatient)
    BY <1>3, <1>4, <2>1 DEF ConnInv, Unserved
  <2>4. \A i \in 1 .. Len(backlog) : Unserved(backlog[i])' /\ cl'[backlog[i]].st # "idle"
    BY <1>4, <2>2 DEF ConnInv, Unserved
  <2>5. QED BY <1>1, <2>1, <2>2, <2>3, <2>4 DEF ConnInv, Serves
<1>8. ReplyIsExact'
  <2>1. \A c \in Clients : cl'[c].got = cl[c].got /\ cl'[c].said = cl[c].said
    BY <1>1, <1>4
  <2>2. QED BY <2>1 DEF ReplyIsExact
<1>9. QED BY <1>1, <1>5, <1>6, <1>7, <1>8

\* A complete request is executed, any other dropped.
LEMMA ReadKeeps == ASSUME IInv, ReadRequest PROVE IInv'
<1>0. TypeInv /\ PhaseInv /\ ConnInv /\ TextInv /\ ReplyIsExact
  BY DEF IInv
<1>1. /\ UNCHANGED <<mainVars, ready, cdp, printed, sockfile, backlog, proc>>
      /\ proc = "running" /\ thread = "read"
      /\ \/ CloseConn
         \/ /\ cl[conn].st \in {"sent", "gone"} /\ cl[conn].req \in {"known", "unknown"}
            /\ thread' = "find" /\ UNCHANGED <<conn, cl>>
  BY DEF ReadRequest, DropRequest, Running, bufVars
<1>2. Out!IInv'
  BY <1>0, <1>1 DEF TextInv, Out!IInv, Out!TypeOK, Out!Holds, Out!Live
<1>3. CrashesExplained'
  BY <1>1, NoCrashNext
<1>4. CASE CloseConn
  <2>1. TypeInv' /\ PhaseInv' /\ ConnInv' /\ ReplyIsExact' /\ thread' = "poll"
    BY <1>0, <1>1, <1>4, CloseKeeps DEF Serves
  <2>2. TextInv'
    BY <1>0, <1>1, <1>2, <2>1 DEF TextInv
  <2>3. QED BY <1>3, <2>1, <2>2 DEF IInv
<1>5. CASE UNCHANGED <<conn, cl>> /\ thread' = "find" /\ cl[conn].st \in {"sent", "gone"} /\ cl[conn].req \in {"known", "unknown"}
  <2>1. UNCHANGED <<main, h, published, hooked, woken, creates, entry>>
    BY <1>1 DEF mainVars
  <2>2. TypeInv' /\ PhaseInv'
    BY <1>0, <1>1, <1>5, <2>1 DEF TypeInv, PhaseInv, Serves, NONE
  <2>3. conn \in Clients /\ Unserved(conn)
    BY <1>0, <1>1 DEF ConnInv, Serves
  <2>4. ConnInv'
    BY <1>0, <1>1, <1>5, <2>3 DEF ConnInv, Unserved, Serves
  <2>5. TextInv'
    BY <1>0, <1>1, <1>2, <1>5 DEF TextInv
  <2>6. ReplyIsExact'
    BY <1>0, <1>5 DEF ReplyIsExact
  <2>7. QED BY <1>3, <2>2, <2>4, <2>5, <2>6 DEF IInv
<1>6. QED BY <1>1, <1>4, <1>5

\* A request that ended early: the process ends, or a name is looked up.
LEMMA DecodeKeeps == ASSUME IInv, DecodeMalformed PROVE IInv'
<1>0. TypeInv /\ PhaseInv /\ ConnInv /\ TextInv /\ ReplyIsExact
  BY DEF IInv
<1>1. /\ UNCHANGED <<main, h, published, hooked, woken, creates, entry, ready, conn, cdp, printed, sockfile, backlog>>
      /\ proc = "running" /\ thread = "read" /\ cl[conn].req = "malformed" /\ cl[conn].st \in {"sent", "gone"}
      /\ \/ proc' \in {"abort", "ub"} /\ UNCHANGED <<thread, cl>>
         \/ /\ \E r \in {"known", "unknown"} : cl' = [cl EXCEPT ![conn].req = r]
            /\ thread' = "find" /\ UNCHANGED proc
  BY DEF DecodeMalformed, Running, mainVars, bufVars
<1>2. conn \in Clients /\ Unserved(conn)
  BY <1>0, <1>1 DEF ConnInv, Serves
<1>3. CASE proc' \in {"abort", "ub"} /\ UNCHANGED <<thread, cl>>
  <2>1. ConnInv' /\ TextInv' /\ ReplyIsExact'
    BY <1>0, <1>1, <1>3, Frame
  <2>2. TypeInv' /\ PhaseInv'
    BY <1>0, <1>1, <1>3 DEF TypeInv, PhaseInv
  <2>3. CrashesExplained'
    BY <1>1, <1>3 DEF CrashesExplained
  <2>4. QED BY <2>1, <2>2, <2>3 DEF IInv
<1>4. ASSUME NEW r \in {"known", "unknown"}, cl' = [cl EXCEPT ![conn].req = r], thread' = "find", UNCHANGED proc
      PROVE  IInv'
  <2>1. /\ cl' \in [Clients -> ClRecs] /\ \A d \in Clients \ {conn} : cl'[d] = cl[d]
        /\ cl'[conn].req = r /\ cl'[conn].st = cl[conn].st /\ cl'[conn].got = cl[conn].got /\ cl'[conn].said = cl[conn].said
    BY <1>0, <1>2, <1>4, ReqSet DEF TypeInv
  <2>2. TypeInv' /\ PhaseInv'
    BY <1>0, <1>1, <1>4, <2>1 DEF TypeInv, PhaseInv, Serves, NONE
  <2>3. \A c \in Clients : cl'[c].st = cl[c].st /\ cl'[c].got = cl[c].got /\ cl'[c].said = cl[c].said
    BY <2>1
  <2>4. ConnInv'
    <3>1. \A i \in 1 .. Len(backlog) : backlog[i] \in Clients \ {conn}
      BY <1>0, Waiting
    <3>2. \A c \in Clients : (cl'[c].st = "idle" => c # conn /\ Unserved(c)') /\ (cl'[c].st = "gone" => c \in Impatient)
      BY <1>0, <2>3 DEF ConnInv, Unserved
    <3>3. \A i \in 1 .. Len(backlog) : Unserved(backlog[i])' /\ cl'[backlog[i]].st # "idle"
      <4>1. \A i \in 1 .. Len(backlog) : Unserved(backlog[i]) /\ cl[backlog[i]].st # "idle"
        BY <1>0 DEF ConnInv
      <4>2. \A i \in 1 .. Len(backlog) : cl'[backlog[i]] = cl[backlog[i]]
        BY <2>1, <3>1
      <4>3. QED BY <1>1, <4>1, <4>2 DEF Unserved
    <3>4. Unserved(conn)' /\ cl'[conn].st \in {"sent", "gone"} /\ cl'[conn].req \in {"known", "unknown"}
      BY <1>1, <1>2, <2>1 DEF Unserved
    <3>5. QED BY <1>0, <1>1, <1>2, <1>4, <3>1, <3>2, <3>3, <3>4 DEF ConnInv, Serves, Unserved
  <2>5. TextInv'
    <3>1. Out!IInv'
      BY <1>0, <1>1 DEF TextInv, Out!IInv, Out!TypeOK, Out!Holds, Out!Live
    <3>2. QED BY <1>0, <1>1, <1>4, <3>1 DEF TextInv
  <2>6. ReplyIsExact' /\ CrashesExplained'
    BY <1>0, <1>1, <1>4, <2>3, NoCrashNext DEF ReplyIsExact
  <2>7. QED BY <2>2, <2>4, <2>5, <2>6 DEF IInv
<1>5. QED BY <1>1, <1>3, <1>4

\* The lookup and the call: only an entry without its execute is fatal, and
\* such an entry is one that is being registered.
LEMMA CallKeeps == ASSUME IInv, FindCommand \/ CallCommand PROVE IInv'
<1>0. TypeInv /\ PhaseInv /\ ConnInv /\ TextInv /\ ReplyIsExact
  BY DEF IInv
<1>1. /\ UNCHANGED <<main, h, published, hooked, woken, creates, entry, ready, conn, cdp, printed, sockfile, backlog, cl>>
      /\ proc = "running" /\ thread \in {"find", "call"}
      /\ \/ thread = "call" /\ entry = "half" /\ proc' = "nullcall" /\ thread' = thread
         \/ thread = "find" /\ cl[conn].req = "known" /\ thread' = "call" /\ proc' = proc
         \/ thread' \in {"execute", "reply"} /\ proc' = proc
  BY DEF FindCommand, CallCommand, Running, mainVars, bufVars, envVars
<1>2. /\ conn \in Clients /\ Unserved(conn) /\ printed = <<>>
      /\ cl[conn].st \in {"sent", "gone"} /\ cl[conn].req \in {"known", "unknown"}
  BY <1>0, <1>1 DEF ConnInv, Serves, TextInv
<1>3. TypeInv' /\ PhaseInv'
  BY <1>0, <1>1 DEF TypeInv, PhaseInv, Serves, NONE
<1>4. ConnInv'
  <2>1. thread' \in {"call", "execute", "reply"} /\ (thread' = "call" => cl[conn].req = "known")
    BY <1>0, <1>1 DEF ConnInv
  <2>2. QED BY <1>0, <1>1, <1>2, <2>1 DEF ConnInv, Unserved, Serves
<1>5. TextInv'
  <2>1. Out!IInv'
    BY <1>0, <1>1 DEF TextInv, Out!IInv, Out!TypeOK, Out!Holds, Out!Live
  <2>2. Buf!Repeat(conn, cl[conn].said) = <<>>
    BY <1>2, Repeats DEF Unserved
  <2>3. QED BY <1>0, <1>1, <1>2, <2>1, <2>2 DEF TextInv
<1>6. ReplyIsExact'
  BY <1>0, <1>1 DEF ReplyIsExact
<1>7. CrashesExplained'
  <2>1. CASE proc' = proc
    BY <1>1, <2>1, NoCrashNext
  <2>2. CASE thread = "call" /\ entry = "half" /\ proc' = "nullcall"
    <3>1. main = "registering" /\ cl[conn].req = "known"
      BY <1>0, <2>2 DEF PhaseInv, ConnInv
    <3>2. QED BY <1>1, <2>2, <3>1 DEF CrashesExplained
  <2>3. QED BY <1>1, <2>1, <2>2
<1>8. QED BY <1>3, <1>4, <1>5, <1>6, <1>7 DEF IInv

\* The command of the connection prints.
LEMMA PrintKeeps == ASSUME IInv, HandlerPrints PROVE IInv'
<1>0. TypeInv /\ PhaseInv /\ ConnInv /\ TextInv /\ ReplyIsExact
  BY DEF IInv
<1>1. /\ UNCHANGED <<main, h, published, hooked, woken, creates, entry, thread, ready, conn, sockfile, backlog>>
      /\ proc = "running" /\ thread = "execute"
  BY DEF HandlerPrints, Running, mainVars, threadVars
<1>2. conn \in Clients /\ cl[conn].got = NoReply /\ cl[conn].st \in {"sent", "gone"} /\ cl[conn].said \in Nat
  BY <1>0, <1>1 DEF ConnInv, Serves, TypeInv, ClRecs
<1>3. CASE cdp.freed /\ proc' = "ub" /\ UNCHANGED <<bufVars, cl>>
  <2>1. ConnInv' /\ TextInv' /\ ReplyIsExact'
    BY <1>0, <1>1, <1>3, Frame DEF bufVars
  <2>2. TypeInv' /\ PhaseInv'
    BY <1>0, <1>1, <1>3 DEF TypeInv, PhaseInv, bufVars
  <2>3. main = "threaded"
    BY <1>0, <1>1, <1>3 DEF PhaseInv, NONE
  <2>4. CrashesExplained'
    BY <1>1, <1>3, <2>3 DEF CrashesExplained
  <2>5. QED BY <2>1, <2>2, <2>4 DEF IInv
<1>4. ASSUME NEW off \in 1 .. MaxPrint, Buf!PrintText(conn, off), UNCHANGED proc,
             cl' = [cl EXCEPT ![conn].said = cl[conn].said + IF Buf!Accepted(off) THEN off ELSE 0]
      PROVE  IInv'
  <2>1. /\ Out!IInv' /\ ~cdp.freed /\ ~cdp'.freed
        /\ printed' = IF Buf!Accepted(off) THEN printed \o Buf!Repeat(conn, off) ELSE printed
    BY <1>0, <1>2, <1>4, BufPrint DEF TextInv
  <2>2. PICK n \in Nat : n = cl[conn].said + IF Buf!Accepted(off) THEN off ELSE 0
    BY <1>2, CliServerAssumption
  <2>3. /\ cl' \in [Clients -> ClRecs] /\ \A d \in Clients \ {conn} : cl'[d] = cl[d]
        /\ cl'[conn].said = n /\ cl'[conn].st = cl[conn].st /\ cl'[conn].req = cl[conn].req /\ cl'[conn].got = cl[conn].got
    BY <1>0, <1>2, <1>4, <2>2, SaidSet DEF TypeInv
  <2>4. TypeInv' /\ PhaseInv'
    BY <1>0, <1>1, <1>4, <2>1, <2>3 DEF TypeInv, PhaseInv
  <2>5. ConnInv'
    <3>1. backlog' = backlog /\ backlog \in Seq(Clients)
      BY <1>0, <1>1 DEF TypeInv
    <3>2. \A i \in 1 .. Len(backlog) : backlog[i] \in Clients \ {conn}
      BY <1>0, Waiting
    <3>3. \A c \in Clients : cl'[c].st = cl[c].st
      BY <2>3
    <3>4. \A c \in Clients : cl'[c].st = "idle" => c # conn /\ Unserved(c)'
      BY <1>0, <2>3, <3>3 DEF ConnInv, Unserved
    <3>5. \A i \in 1 .. Len(backlog) : Unserved(backlog[i])' /\ cl'[backlog[i]].st # "idle"
      BY <1>0, <2>3, <3>1, <3>2 DEF ConnInv, Unserved
    <3>6. QED BY <1>0, <1>1, <2>3, <3>2, <3>3, <3>4, <3>5 DEF ConnInv
  <2>6. printed' = Buf!Repeat(conn, n)
    <3>1. printed = Buf!Repeat(conn, cl[conn].said)
      BY <1>0, <1>1 DEF TextInv
    <3>2. CASE Buf!Accepted(off)
      <4>1. off \in Nat /\ n = cl[conn].said + off
        BY <2>2, <3>2, CliServerAssumption
      <4>2. Buf!Repeat(conn, cl[conn].said) \o Buf!Repeat(conn, off) = Buf!Repeat(conn, cl[conn].said + off)
        BY <1>2, <4>1, Repeats
      <4>3. QED BY <2>1, <3>1, <3>2, <4>1, <4>2
    <3>3. CASE ~Buf!Accepted(off)
      BY <1>2, <2>1, <2>2, <3>1, <3>3
    <3>4. QED BY <3>2, <3>3
  <2>7. TextInv'
    BY <1>1, <2>1, <2>3, <2>6 DEF TextInv
  <2>8. ReplyIsExact'
    BY <1>0, <1>2, <2>3 DEF ReplyIsExact
  <2>9. CrashesExplained'
    BY <1>1, <1>4, NoCrashNext
  <2>10. QED BY <2>4, <2>5, <2>7, <2>8, <2>9 DEF IInv
<1>5. QED BY <1>3, <1>4 DEF HandlerPrints

\* The reply is what the command has printed.
LEMMA ReplyKeeps == ASSUME IInv, Reply PROVE IInv'
<1>0. TypeInv /\ PhaseInv /\ ConnInv /\ TextInv /\ ReplyIsExact
  BY DEF IInv
<1>1. /\ UNCHANGED <<main, h, published, hooked, woken, creates, entry, ready, conn, cdp, printed, sockfile, backlog>>
      /\ proc = "running" /\ thread = "reply"
  BY DEF Reply, Running, mainVars, bufVars
<1>2. /\ conn \in Clients /\ cl[conn].got = NoReply /\ cl[conn].st \in {"sent", "gone"} /\ cl[conn].said \in Nat
      /\ cl[conn].req \in {"known", "unknown"}
  BY <1>0, <1>1 DEF ConnInv, Serves, TypeInv, ClRecs
<1>3. ASSUME UNCHANGED <<thread, cl>>, (cdp.freed /\ proc' = "ub") \/ (cl[conn].st = "gone" /\ proc' = "sigpipe")
      PROVE  IInv'
  <2>1. ConnInv' /\ TextInv' /\ ReplyIsExact'
    BY <1>0, <1>1, <1>3, Frame
  <2>2. TypeInv' /\ PhaseInv'
    BY <1>0, <1>1, <1>3 DEF TypeInv, PhaseInv
  <2>3. CASE cdp.freed /\ proc' = "ub"
    <3>1. main = "threaded"
      BY <1>0, <1>1, <2>3 DEF PhaseInv, NONE
    <3>2. CrashesExplained'
      BY <1>1, <2>3, <3>1 DEF CrashesExplained
    <3>3. QED BY <2>1, <2>2, <3>2 DEF IInv
  <2>4. CASE cl[conn].st = "gone" /\ proc' = "sigpipe"
    <3>1. conn \in Impatient
      BY <1>0, <1>2, <2>4 DEF ConnInv
    <3>2. CrashesExplained'
      BY <1>1, <1>2, <1>3, <2>4, <3>1 DEF CrashesExplained
    <3>3. QED BY <2>1, <2>2, <3>2 DEF IInv
  <2>5. QED BY <1>3, <2>3, <2>4
<1>4. ASSUME thread' = "reinit", UNCHANGED proc,
             cl' = [cl EXCEPT ![conn].got = IF cdp.freed THEN Buf!SUCCESS ELSE Buf!cdp_output(cdp),
                              ![conn].st = "replied"]
      PROVE  IInv'
  <2>1. printed = Buf!Repeat(conn, cl[conn].said) /\ printed \in Seq(Clients)
    BY <1>0, <1>1, <1>2, Repeats DEF TextInv
  <2>2. (IF cdp.freed THEN Buf!SUCCESS ELSE Buf!cdp_output(cdp)) = IF printed = <<>> THEN Buf!SUCCESS ELSE printed
    <3>1. CASE cdp.freed
      BY <1>0, <3>1 DEF TextInv
    <3>2. CASE ~cdp.freed
      BY <1>0, <3>2, BufOutput DEF TextInv
    <3>3. QED BY <3>1, <3>2
  <2>3. (printed = <<>>) <=> (cl[conn].said = 0)
    BY <1>2, <2>1, Repeats
  <2>4. PICK s \in Replies :
          /\ s = IF cdp.freed THEN Buf!SUCCESS ELSE Buf!cdp_output(cdp)
          /\ s = IF cl[conn].said = 0 THEN Buf!SUCCESS ELSE Buf!Repeat(conn, cl[conn].said)
    <3>1. Buf!SUCCESS \in Replies
      BY DEF Buf!SUCCESS, Replies
    <3>2. Buf!Repeat(conn, cl[conn].said) \in Replies
      <4>1. PICK m \in Nat, c \in Clients : m = cl[conn].said /\ c = conn
        BY <1>2
      <4> DEFINE S == Clients \cup {"success", "no reply"}
      <4>2. c \in S
        OBVIOUS
      <4> HIDE DEF S
      <4>3. [i \in 1 .. m |-> c] \in Seq(S)
        BY <4>2
      <4>4. QED BY <4>1, <4>3 DEF Buf!Repeat, Replies, S
    <3>3. QED BY <2>1, <2>2, <2>3, <3>1, <3>2
  <2>5. /\ cl' \in [Clients -> ClRecs] /\ \A d \in Clients \ {conn} : cl'[d] = cl[d]
        /\ cl'[conn].said = cl[conn].said /\ cl'[conn].st = "replied" /\ cl'[conn].req = cl[conn].req /\ cl'[conn].got = s
    <3>1. cl \in [Clients -> ClRecs] /\ conn \in Clients
      BY <1>0, <1>2 DEF TypeInv
    <3>2. cl' = [cl EXCEPT ![conn].got = s, ![conn].st = "replied"]
      BY <1>4, <2>4
    <3>3. QED BY <3>1, <3>2, ReplySet
  <2>6. TypeInv' /\ PhaseInv'
    BY <1>0, <1>1, <1>4, <2>5 DEF TypeInv, PhaseInv, Serves, NONE
  <2>7. ConnInv'
    <3>1. backlog' = backlog /\ backlog \in Seq(Clients)
      BY <1>0, <1>1 DEF TypeInv
    <3>2. \A i \in 1 .. Len(backlog) : backlog[i] \in Clients \ {conn}
      BY <1>0, Waiting
    <3>3. \A c \in Clients : (cl'[c].st = "idle" => c # conn /\ Unserved(c)') /\ (cl'[c].st = "gone" => c \in Impatient)
      BY <1>0, <2>5 DEF ConnInv, Unserved
    <3>4. \A i \in 1 .. Len(backlog) : Unserved(backlog[i])' /\ cl'[backlog[i]].st # "idle"
      BY <1>0, <2>5, <3>1, <3>2 DEF ConnInv, Unserved
    <3>5. QED BY <1>0, <1>1, <1>2, <1>4, <3>2, <3>3, <3>4 DEF ConnInv, Serves
  <2>8. TextInv'
    <3>1. Out!IInv'
      BY <1>0, <1>1 DEF TextInv, Out!IInv, Out!TypeOK, Out!Holds, Out!Live
    <3>2. QED BY <1>0, <1>1, <1>4, <2>1, <2>5, <3>1 DEF TextInv
  <2>9. ReplyIsExact'
    BY <1>0, <2>4, <2>5 DEF ReplyIsExact
  <2>10. CrashesExplained'
    BY <1>1, <1>4, NoCrashNext
  <2>11. QED BY <2>6, <2>7, <2>8, <2>9, <2>10 DEF IInv
<1>5. QED BY <1>3, <1>4 DEF Reply

\* The buffer is emptied for the next client.
LEMMA ReinitKeeps == ASSUME IInv, Reinit PROVE IInv'
<1>0. TypeInv /\ PhaseInv /\ ConnInv /\ TextInv /\ ReplyIsExact
  BY DEF IInv
<1>1. /\ UNCHANGED <<mainVars, ready, sockfile, backlog, proc>>
      /\ proc = "running" /\ thread = "reinit" /\ CloseConn
  BY DEF Reinit, Running
<1>2. Out!IInv' /\ cdp'.freed = cdp.freed /\ printed' = <<>>
  <2>1. CASE cdp.freed
    BY <1>0, <2>1 DEF Reinit, bufVars, TextInv, Out!IInv, Out!TypeOK, Out!Holds, Out!Live
  <2>2. CASE ~cdp.freed
    <3>1. Out!IInv' /\ ~cdp.freed /\ ~cdp'.freed /\ printed' = <<>>
      BY <1>0, <2>2, BufReinit DEF Reinit, TextInv
    <3>2. cdp.freed \in BOOLEAN /\ cdp'.freed \in BOOLEAN
      BY <1>0, <3>1 DEF TextInv, Out!IInv, Out!TypeOK
    <3>3. QED BY <3>1, <3>2
  <2>3. QED BY <2>1, <2>2
<1>3. TypeInv' /\ PhaseInv' /\ ConnInv' /\ ReplyIsExact' /\ thread' = "poll"
  BY <1>0, <1>1, <1>2, CloseKeeps DEF Serves
<1>4. TextInv'
  BY <1>2, <1>3 DEF TextInv
<1>5. QED BY <1>1, <1>3, <1>4, NoCrashNext DEF IInv

(***************************************************************************)
(* The clients                                                             *)
(***************************************************************************)
\* A client's step changes the state of that client, and Connect the backlog.
LEMMA ClientKeeps == ASSUME IInv, NEW c \in Clients, ClientStep(c) PROVE IInv'
<1>0. TypeInv /\ PhaseInv /\ ConnInv /\ TextInv /\ ReplyIsExact
  BY DEF IInv
<1>1. /\ UNCHANGED <<main, h, published, hooked, woken, creates, entry, thread, ready, conn, cdp, printed, sockfile, proc>>
      /\ proc = "running"
  BY DEF ClientStep, Connect, Send, DieSending, TimeOut, Running, mainVars, threadVars, bufVars
<1>2. /\ cl' \in [Clients -> ClRecs] /\ \A d \in Clients \ {c} : cl'[d] = cl[d]
      /\ cl'[c].got = cl[c].got /\ cl'[c].said = cl[c].said
      /\ \/ /\ cl[c].st = "idle" /\ cl'[c].st = "connected" /\ cl'[c].req = cl[c].req /\ backlog' = Append(backlog, c)
         \/ /\ cl[c].st = "connected" /\ cl'[c].st = "sent" /\ cl'[c].req = cl[c].req /\ backlog' = backlog
         \/ /\ cl[c].st = "connected" /\ cl'[c].st = "gone" /\ c \in Impatient /\ backlog' = backlog
         \/ /\ cl[c].st = "sent" /\ cl'[c].st = "gone" /\ cl'[c].req = cl[c].req /\ c \in Impatient /\ backlog' = backlog
  <2>1. CASE Connect(c)
    BY <1>0, <2>1, StateSet DEF Connect, TypeInv, States
  <2>2. CASE Send(c)
    BY <1>0, <2>2, StateSet DEF Send, TypeInv, States
  <2>3. CASE DieSending(c)
    BY <1>0, <2>3, PartialSet DEF DieSending, TypeInv
  <2>4. CASE TimeOut(c)
    BY <1>0, <2>4, StateSet DEF TimeOut, TypeInv, States
  <2>5. QED BY <2>1, <2>2, <2>3, <2>4 DEF ClientStep
<1>3. backlog \in Seq(Clients) /\ backlog' \in Seq(Clients)
  BY <1>0, <1>2 DEF TypeInv
<1>4. TypeInv' /\ PhaseInv'
  BY <1>0, <1>1, <1>2, <1>3 DEF TypeInv, PhaseInv
<1>5. \A d \in Clients : /\ cl'[d].got = cl[d].got /\ cl'[d].said = cl[d].said
                         /\ (cl'[d].st = "idle" => cl[d].st = "idle") /\ (cl'[d].st = "gone" => cl[d].st = "gone" \/ d \in Impatient)
  BY <1>2
<1>6. ConnInv'
  <2>1. \A d \in Clients : (cl'[d].st = "idle" => d # conn /\ Unserved(d)') /\ (cl'[d].st = "gone" => d \in Impatient)
    BY <1>0, <1>5 DEF ConnInv, Unserved
  <2>2. thread \in {"read", "find", "call"} => cl'[conn].got = NoReply /\ cl'[conn].said = 0
    BY <1>0, <1>5 DEF ConnInv, Unserved, Serves
  <2>3. thread \in {"find", "call", "execute", "reply"} =>
          cl'[conn].got = NoReply /\ cl'[conn].st \in {"sent", "gone"} /\ cl'[conn].req \in {"known", "unknown"}
    <3>1. SUFFICES ASSUME thread \in {"find", "call", "execute", "reply"}
                   PROVE  cl'[conn].got = NoReply /\ cl'[conn].st \in {"sent", "gone"} /\ cl'[conn].req \in {"known", "unknown"}
      OBVIOUS
    <3>2. conn \in Clients /\ cl[conn].got = NoReply /\ cl[conn].st \in {"sent", "gone"} /\ cl[conn].req \in {"known", "unknown"}
      BY <1>0, <3>1 DEF ConnInv, Serves
    <3>3. CASE c = conn
      BY <1>2, <3>2, <3>3
    <3>4. CASE c # conn
      BY <1>2, <3>2, <3>4
    <3>5. QED BY <3>3, <3>4
  <2>3a. thread = "call" => cl'[conn].req = "known"
    <3>1. SUFFICES ASSUME thread = "call" PROVE cl'[conn].req = "known"
      OBVIOUS
    <3>2. conn \in Clients /\ cl[conn].st \in {"sent", "gone"} /\ cl[conn].req = "known"
      BY <1>0, <3>1 DEF ConnInv, Serves
    <3>3. CASE c = conn
      BY <1>2, <3>2, <3>3
    <3>4. CASE c # conn
      BY <1>2, <3>2, <3>4
    <3>5. QED BY <3>3, <3>4
  <2>4. /\ \A i, j \in 1 .. Len(backlog') : backlog'[i] = backlog'[j] => i = j
        /\ \A i \in 1 .. Len(backlog') : LET d == backlog'[i] IN
              d # conn /\ cl'[d].got = NoReply /\ cl'[d].said = 0 /\ cl'[d].st # "idle"
        /\ backlog # <<>> => backlog' # <<>>
    <3>1. \A i \in 1 .. Len(backlog) : LET d == backlog[i] IN
            d \in Clients /\ d # conn /\ cl'[d].got = NoReply /\ cl'[d].said = 0 /\ cl[d].st # "idle" /\ cl'[d].st # "idle"
      <4>1. \A i \in 1 .. Len(backlog) : backlog[i] \in Clients
        BY <1>3
      <4>2. QED BY <1>0, <1>5, <4>1 DEF ConnInv, Unserved
    <3>2. \A i, j \in 1 .. Len(backlog) : backlog[i] = backlog[j] => i = j
      BY <1>0 DEF ConnInv
    <3>3. CASE backlog' = backlog
      BY <3>1, <3>2, <3>3
    <3>4. CASE cl[c].st = "idle" /\ cl'[c].st = "connected" /\ backlog' = Append(backlog, c)
      <4>1. c # conn /\ cl'[c].got = NoReply /\ cl'[c].said = 0 /\ cl'[c].st # "idle"
        BY <1>0, <1>5, <3>4 DEF ConnInv, Unserved
      <4>2. \A i \in 1 .. Len(backlog) : backlog[i] # c
        BY <3>1, <3>4
      <4>3. /\ Len(backlog) \in Nat /\ Len(backlog') = Len(backlog) + 1 /\ backlog'[Len(backlog')] = c
            /\ \A i \in 1 .. Len(backlog) : backlog'[i] = backlog[i]
        BY <1>3, <3>4
      <4>4. \A i \in 1 .. Len(backlog') : i \in 1 .. Len(backlog) \/ i = Len(backlog')
        BY <4>3
      <4>5. \A i \in 1 .. Len(backlog') : LET d == backlog'[i] IN
              d # conn /\ cl'[d].got = NoReply /\ cl'[d].said = 0 /\ cl'[d].st # "idle"
        BY <3>1, <4>1, <4>3, <4>4
      <4>6. \A i, j \in 1 .. Len(backlog') : backlog'[i] = backlog'[j] => i = j
        BY <3>2, <4>2, <4>3, <4>4
      <4>7. backlog' # <<>>
        BY <4>3
      <4>8. QED BY <4>5, <4>6, <4>7
    <3>5. QED BY <1>2, <3>3, <3>4
  <2>5. QED BY <1>0, <1>1, <2>1, <2>2, <2>3, <2>3a, <2>4 DEF ConnInv, Unserved
<1>7. TextInv'
  <2>1. Out!IInv'
    BY <1>0, <1>1 DEF TextInv, Out!IInv, Out!TypeOK, Out!Holds, Out!Live
  <2>2. conn \in Clients => cl'[conn].said = cl[conn].said
    BY <1>5
  <2>3. QED BY <1>0, <1>1, <2>1, <2>2 DEF TextInv, ConnInv, Serves
<1>8. ReplyIsExact' /\ CrashesExplained'
  BY <1>0, <1>1, <1>5, NoCrashNext DEF ReplyIsExact
<1>9. QED BY <1>4, <1>6, <1>7, <1>8 DEF IInv

-----------------------------------------------------------------------------
\* The invariant holds initially.
LEMMA InitHolds == Init => IInv
<1> SUFFICES ASSUME Init PROVE IInv
  OBVIOUS
<1>1. /\ \A c \in Clients : cl[c].st = "idle" /\ cl[c].got = NoReply /\ cl[c].said = 0
      /\ cl \in [Clients -> ClRecs]
  <2>1. NoReply \in Replies
    BY DEF NoReply, Replies
  <2>2. cl \in [Clients -> [st : {"idle"}, req : Requests, got : {NoReply}, said : {0}]]
    BY DEF Init
  <2>3. ASSUME NEW c \in Clients
        PROVE  cl[c].st = "idle" /\ cl[c].got = NoReply /\ cl[c].said = 0 /\ cl[c] \in ClRecs
    <3>1. cl[c] \in [st : {"idle"}, req : Requests, got : {NoReply}, said : {0}]
      BY <2>2
    <3> HIDE DEF NoReply
    <3>2. QED BY <2>1, <3>1 DEF ClRecs, Requests
  <2>4. QED BY <2>2, <2>3
<1>2. h \in [alive : BOOLEAN, state : {CLI_INIT, CLI_DOWN, CLI_FINI}, sock : {"bad", "listening"}] /\ ~h.alive
  BY CliServerAssumption DEF Init
<1>3. TypeInv
  <2>1. backlog \in Seq(Clients) /\ creates \in Nat
    BY DEF Init
  <2>2. QED BY <1>1, <1>2, <2>1 DEF Init, TypeInv
<1>4. cdp.freed = TRUE /\ cdp.pos = 0 /\ cdp.buf_size = 0 /\ printed = <<>>
  BY DEF Init, Buf!cdp_destroy, Buf!cdp_init
<1>5. Out!IInv
  <2>1. printed \in Seq(Clients)
    BY <1>4
  <2>2. cdp.pos \in Nat /\ cdp.buf_size \in Nat
    BY <1>4
  <2>3. cdp.freed \in BOOLEAN /\ cdp.freed
    BY <1>4, Zenon
  <2>4. QED BY <2>1, <2>2, <2>3, Zenon DEF Out!IInv, Out!TypeOK
<1>6. PhaseInv
  BY <1>2, <1>4 DEF Init, PhaseInv
<1>7. ConnInv
  <2>1. backlog = <<>> /\ Len(backlog) = 0 /\ 1 .. 0 = {} /\ NONE \notin Clients
    BY CliServerAssumption DEF Init
  <2>2. QED BY <1>1, <2>1 DEF Init, ConnInv, Unserved, Serves, NONE
<1>8. TextInv
  BY <1>4, <1>5 DEF Init, TextInv, NONE
<1>9. ReplyIsExact /\ CrashesExplained
  BY <1>1, NoCrash DEF Init, ReplyIsExact
<1>10. QED BY <1>3, <1>6, <1>7, <1>8, <1>9 DEF IInv

\* The inductive invariant, for every instance.
THEOREM Invariant == Spec => []IInv
<1>1. IInv /\ UNCHANGED vars => IInv'
  <2> SUFFICES ASSUME IInv, UNCHANGED vars PROVE IInv'
    OBVIOUS
  <2>1. UNCHANGED <<main, h, published, hooked, woken, creates, entry, thread, ready, conn, cdp, printed, sockfile, backlog, cl, proc>>
    BY DEF vars, mainVars, threadVars, bufVars, envVars
  <2>2. ConnInv' /\ TextInv' /\ ReplyIsExact'
    BY <2>1, Frame DEF IInv
  <2>3. TypeInv' /\ PhaseInv' /\ CrashesExplained'
    BY <2>1 DEF IInv, TypeInv, PhaseInv, CrashesExplained
  <2>4. QED BY <2>2, <2>3 DEF IInv
<1>2. IInv /\ [Next]_vars => IInv'
  BY <1>1, CreateKeeps, RegisterKeeps, DestroyKeeps, EndKeeps, ThreadKeeps, CdpKeeps, FreeKeeps, MoveKeeps, AcceptKeeps,
     ReadKeeps, DecodeKeeps, CallKeeps, PrintKeeps, ReplyKeeps, ReinitKeeps, ClientKeeps
     DEF Next, MainStep, AppChoice, ThreadStep
<1>3. QED BY <1>2, InitHolds, PTL DEF Spec

\* The poll thread never looks at a freed handler, a closed socket or a freed
\* buffer, and at an uninitialised one only before cdp_init has run.
THEOREM NoFreedUse == Spec => []NoUseAfterFree
<1>1. IInv => NoUseAfterFree
  BY DEF IInv, PhaseInv, NoUseAfterFree
<1>2. QED BY <1>1, Invariant, PTL

\* Every crash the model knows needs what CrashesExplained names.
THEOREM Crashes == Spec => []CrashesExplained
<1>1. IInv => CrashesExplained
  BY DEF IInv
<1>2. QED BY <1>1, Invariant, PTL

\* A client reads what its own command printed, whatever other clients,
\* timeouts and kills there are.
THEOREM ExactReply == Spec => []ReplyIsExact
<1>1. IInv => ReplyIsExact
  BY DEF IInv
<1>2. QED BY <1>1, Invariant, PTL
=============================================================================
