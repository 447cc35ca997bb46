# Verification of UNIFESP-SD

UNIFESP-SD holds the programs of a distributed systems course. Its core is a
central-server mutual exclusion protocol: clients ask a server for a token, the
one that has it increments a shared counter and gives both back. There is a
UDP version (`src/LAB2-NETKIT`) and a Sun RPC version (`src/LAB07-SD`), the
queue of both in a program of its own (`src/fila.c`), and, beside the RPC
version, a multithreaded RPC dictionary (`src/LAB07-SD/thread-RPC.c`). This
directory holds TLA+ models of all of them, their TLC runs and TLAPS proofs.

    tlc -config faulty.cfg MCCentralServer.tla     # any run: its .cfg
    tlapm CentralServerProofs.tla                  # any *Proofs.tla

## Inventory

| Part | State | Operations | Interacts by |
|---|---|---|---|
| UDP server, `LAB2-NETKIT/servidor.c` | `TEMPO`, `Token.flag`, `Token.valor`, `fila`, the datagram in `req` | loop: `recvfrom`, clock, ACK, `sleep(1)`, then the treatment of REQUEST_TOKEN or RELEASE_TOKEN | datagrams |
| UDP client, `LAB2-NETKIT/cliente.c` | `TEMPO`, `aguardar`, `resp->rec`, where it is in its loop | send REQUEST_TOKEN; wait for ACKs and REPLY_ALLOW; increment; send RELEASE_TOKEN | datagrams |
| Queue, `servidor.c` 28-117 (copies in every server and in `fila.c`) | linked list, `tamanho`, `N` | `EstaNaFila`, `insere`, `removeItem`, `imprime` | called by the server |
| RPC server, `LAB07-SD/backup/servidor.c`, `server_cent_svc.c` | `TEMPO`, `TOKEN`, `fila` | `req_1_svc` (insert, then poll the head), `rel_1_svc` | one call at a time from `svc_run` |
| RPC client, `LAB07-SD/backup/cliente-2.c`, `server_cent_clnt.c` | `TEMPO`, the resource | `req_1`, work, `rel_1`, each with a 25 s timeout | calls over TCP |
| RPC marshalling, `server_cent_xdr.c` | none | encode and decode the three structures | called by both stubs |
| RPC dictionary, server half of `LAB07-SD/thread-RPC.c` | `dict`, `nwords`, the transport of `svc_run` | initialise, insert, delete, look up, in one thread for each call | memory shared by the threads |
| RPC dictionary, client half | the command and the word | read a command, call, print | calls over UDP |
| Queue program, `fila.c` | `fila`, `i`, `j` | insert ten items, remove ten | |
| `LAB07-SD/*.c`, `backup2-sem-M` | as the RPC version | unfinished copies that do not compile | |
| `AExemplo-RPC` | none | course examples | |
| Netkit files | none | configuration of the virtual machines, delays and rates | |

What is hard in the core: the treatment of a datagram is a second away from its
reception; UDP reorders, loses and duplicates; every process may stop at a
failed system call; clocks and counter are C ints that wrap; the owner of the
token is stored in a `char`; the queue has a fixed capacity, and nobody reads
the result of `insere`; the client has no timeout. `PROJECT.json` lists each
hazard at its line with the properties that cover it.

In the RPC version: the server's only thread polls the queue inside a call, so
that nobody else is served meanwhile, the client that could end the wait
included; a client gives up after 25 s, and its entry stays; the head of the
queue stands for the owner, but a smaller clock goes in front of it; `rel_1_svc`
does not ask who calls. In the dictionary: the threads share the words, their
number, and the transport with its request, which the next call overwrites;
UDP loses and repeats calls, and a call is sent again while the first is being
served; `insertw` has no bound.

What makes each part correct:

- *token*: one at most, and one client at most in its critical section; the
  owner noted in `flag` is the one that has it; not lost unless its datagram or
  its client is;
- *counter*: the holder has the current value, and what is stored is its
  successor;
- *queue*: sorted by the stamps, each client once, within its capacity, empty
  while the token is free;
- *client*: one request at a time, granted in the end;
- *clocks*: logical time goes forward along the token;
- *RPC version*: the same exclusion and the same resource, with the head of the
  queue as the owner; and a wait that never ends has a cause one can name;
- *dictionary*: each call, on its own, does to the content of the dictionary
  what its name says, once, with its own word, and answers accordingly; a
  client accepts no answer but that of its call; the server does not crash; a
  place that no call has earned is not written; and threads end;
- *queue program*: every item is removed, once, in the order of the stamps.

## Modules

| Module | Models |
|---|---|
| `Fila` | the queue: `EstaNaFila`, `insere`, `removeItem` as operators on a sequence whose first element is `fila->head` |
| `CentralServer` | the UDP server, its clients and the network between them, with the properties |
| `Exclusao` | what the handout (`lab-exclusao-2.pdf`) asks of any version: enter one at a time, read the resource, leave it updated |
| `RpcServer` | the RPC server, its clients and their connections, with the properties; it also implements `Exclusao` |
| `RpcDict` | the dictionary's clients, its main thread and the threads of its calls, with the properties |
| `Dicionario` | what the dictionary promises to callers that keep to its contract: a call has its effect on how often each word is there once, and is answered with its result |
| `FilaAvulsa` | the queue program, on top of `Fila` |
| `MCCentralServer`, `MCRpcServer`, `MCRpcDict` | the PIDs and the symmetry of the instances TLC checks |
| `FilaProofs` | lemmas about `Fila`, for every queue |
| `CentralServerProofs`, `RpcServerProofs`, `RpcDictProofs`, `FilaAvulsaProofs` | the theorems about each of the four |
| `RequestProofs` | the theorems about what a client of `CentralServer` asks for: its requests, its ACKs, the token that is not lost |

### How CentralServer corresponds to the code

A step is the code between two blocking calls.

| Action | Code |
|---|---|
| `SendRequest(c)` | `cliente.c` 53-67 |
| `ReceiveAck(c)` | `cliente.c` 69-95, with the branch that asks again |
| `ReceiveAllow(c)` | `cliente.c` 96-105; from here to `SendRelease` the client is in its critical section, `pc[c] = "crit"` |
| `SendRelease(c)` | `cliente.c` 106-124, with the division by zero of PID 0 |
| `ClientExit(c)` | a `sendto` or `recvfrom` that fails |
| `Receive(m)` | `servidor.c` 161-193, up to `sleep(1)` |
| `HandleRequest` | `servidor.c` 195-215: grant, or queue |
| `HandleRelease` | `servidor.c` 216-242: store the counter, free the token or pass it on |
| `ServerExit` | a `sendto` or `recvfrom` that fails |
| `Lose(m)` | UDP |

Data kept and data left out:

- The clock of the server is kept. It decides nothing: it goes into
  `ack->tempo`, which a client only prints, and into `rep->tempo`, which is
  never sent, because the grant is sent with `sizeof(rep)`, the size of a
  pointer, 8 bytes in a 64-bit build: `rec` and `cod`. So `Reply` has no `PID`
  and no `tempo`, and `Ack` has no `tempo`.
- `resp->rec` and `req` are reset when they are dead (after the release; after
  the treatment), where the code leaves an old value nobody reads.
- Where `servidor` has ended, its memory is kept as it was: nothing reads it.
- `net` is a set, so two identical datagrams in flight are one. This is only
  possible for two ACKs to one client, and an ACK changes nothing there. A
  REQUEST_TOKEN of the same stamp is at least a whole lap of the clock away, and
  `OneRequest` says there is one at a time; of the others there is one, by
  `TokenUnico`.
- A C int is `ToInt(max, x)`: two's complement, of width `max`. The clocks
  overflow in `++TEMPO` before the `%` of the same line, so that INT_MAX is
  followed by INT_MIN % INT_MAX = -1; `Rem` is the remainder of C, which takes
  the sign of its left operand. Signed overflow is undefined in C; the binaries
  of the repository wrap.
- `Token.flag` is a char, and a char is signed in that build: `ToChar`.
- `imprime`, addresses as bytes, and all printing are left out.

`CentralServer` refines `Exclusao` with `dentro` the clients in "crit", `pendente` a
RELEASE_TOKEN in flight or under treatment, and `valor` itself.

Definitions called variants (`HandleReleaseSemReset`, `PosicaoNoFim`, ...) are
plausible bugs of the code. They are no part of the specification; each is
substituted for the definition it varies to see that a property notices.

### How RpcServer corresponds to the code

Files of `src/LAB07-SD/backup`. A step is the code between two blocking calls;
`clnt_call` blocks, and so does the `sleep(1)` in the loop of `req_1_svc`.

| Action | Code |
|---|---|
| `CallReq(c)`, `CallRel(c)` | `cliente-2.c` 25-35, 45-52, with `clnt_call` of `server_cent_clnt.c` |
| `ReturnReq(c)`, `ReturnRel(c)` | `cliente-2.c` 35-44, 52-62; in between the client is in "crit" |
| `CallFails(c)`, `Timeout(c)` | `cliente-2.c` 35-38 and 52-55: an error as the answer, or none in 25 s |
| `ReqInsere(c)` | `servidor.c` 105-111: the call is dispatched, the client queued, and the loop entered; the next-state relation takes it in `Req(c)` |
| `ReqConcede(c)` | `servidor.c` 112-120: the loop ends, and the dispatcher sends the answer |
| `Rel(c)` | `servidor.c` 122-132 and its answer |
| `ClientExit(c)`, `ServerExit` | a process stopped from outside (external) |

- `emCurso` is the client whose call is in the loop: while there is one, no
  other call is served. A turn of the loop that finds another head changes
  nothing, and is a stutter.
- A connection is TCP: it loses nothing, and what a client has sent before it
  ended is served. It holds one call or one answer (`TypeOK`).
- `xdr_long` encodes what fits in 32 bits. Beyond it `clnt_call` fails at the
  client, and `svc_sendreply` at the server, which then sends an error.
- `TOKEN` and the fields `recurso` are longs, but the client computes in an int
  (`cliente-2.c` 45): `Dobro` wraps as an int does.
- The fields that are only printed, and `mutex`, which nothing uses, are left
  out.
- `EmOrdem` is no test of the code: it is the assumption under which the version
  is correct, that no request is stamped before the head of the queue when it
  arrives. It is kept out of `ReqInsere`, and added to it in `Req`; `MayOvertake`
  switches it off. So all that the run `rpc` and the theorems say of exclusion
  and of the resource is under this assumption, and `rpc_order` is the rest.

### How RpcDict corresponds to the code

Lines of `src/LAB07-SD/thread-RPC.c`. A step of a thread is one access to memory
that the threads share.

| Action | Code |
|---|---|
| `Call(c, p, w)`, `CallAny(c)` | `nextin` 417-469, and the switch 354-412 up to the call |
| `Return(c, m)`, `GiveUp(c)` | the rest of the switch: an answer, or a failure after 25 s |
| `Resend(c)` | the RPC library sends the call again after 5 s (external) |
| `Receive(m)` | `svc_run` receives a call, and `rdictprog_1`, 256-268, starts a thread |
| `Switch(t)` | `serv_request` 194-229: reads the procedure from the request |
| `GetArgs(t)` | 230-234: decodes, or answers that it cannot |
| `SendReply(t)`, `FreeArgs(t)` | 235-247 |
| `InitW(t)` | `initw` 52-57 |
| `Ins1(t)` ... `Ins5(t)` | `insertw` 58-64: read `nwords`, copy, read, write, read |
| `Laco(t)`, `Compara(t)` | the loop of `deletew` 65-70 and of `lookupw` 78-86 |
| `Del1(t)` ... `Del4(t)` | `deletew` 71-76: read `nwords`, write, read, copy |

- The code is compiled as the document says (line 308), without optimisation:
  each mention of `nwords` is an access.
- `pthread_create` gets pointers to `svc_run`'s request and transport. The
  request lies in a frame of `svc_run`'s, where the next call finds it again;
  so `transp` holds the last call received, for every thread.
- What UDP loses is a datagram never received: there is no action for it. What
  it duplicates is covered by `Resend`.
- `xdr` is what the transport's buffer is ready for. The library decodes a call
  once; after an answer has been encoded over it the decoding fails; after
  `svc_freeargs` it "frees", and leaves the argument NULL.
- `Switch` leaves out the NULLPROC and default branches (199-201, 226-228): no
  client of the repository calls them.
- `nwords`, and what a thread reads of it, is a C int: `Sucessor` and `Antecessor`
  wrap, and `IntMax` is INT_MAX.
- An access outside `dict` reads anything or crashes the server. A copy to a
  place outside `dict` may write the bytes of the word over `nwords`, which may lie
  behind it, so `Copia` leaves any int there; or it has no effect that matters,
  or it crashes the server. A copy from a place outside `dict` (`CopiaDeFora`) may
  besides be longer than a place, and go on over the next ones. A null word
  crashes the server.
- `deletew` copies the last word over the deleted one; when that is the deleted
  one, `strcpy` copies a string onto itself, which is undefined in C and leaves
  it as it was in the build.
- The results are not in the answers: the clients only print them. What is in
  an answer beside its number is history: `fez`, the procedure that the thread
  has run and the word it was given (`Servico`), or `SemServico` where
  `svc_getargs` failed. `fora` (two calls have been served at a time, or a word has
  been inserted into a full dictionary) and `estragado` (a copy has been made
  outside `dict`) are history too, read by the properties alone.
- A command that is not one of I, i, d, l and q prints a line; q or the end of
  the input ends the client, which is as if it gave no more commands.

`Dicionario` is refined with `conteudo` the number of places below `nwords` that
hold each word, where the place of a word being deleted counts as holding the
last word from the decrement of `nwords` on; `quantas` is `nwords`; `chamada` is the
call in the transport while a thread is in the middle of it; and `resultado` is
what that thread is going to answer, from the step on that has the effect. So a
call that is received must have one effect, with its word, before it is
answered, and its answer must be the result of that effect. A call that its
client sends again and that is received again is another call of `Dicionario`.

### How FilaAvulsa corresponds to the code

Lines of `src/fila.c`: `insereSempre` is `insere` (43-72), `Insere` a turn of the
first loop (110-111), `Muda` the way from one loop to the other, `Remove` a turn
of the second (114-117), `RemoveVazia` one that dereferences the NULL of an
empty queue, `Acaba` its end. `removeItem` allocates `sizeof(item)`, the size of
a pointer, and writes a whole item there: `Aborta` is the allocator that
notices.

## Runs

| Run | Instance | Shows |
|---|---|---|
| `faulty` | 2 endless clients (PIDs 1 and 300), every code may be lost, any process may stop | `TypeOK`, `TokenUnico`, `MutualExclusion`, `CounterHandedOver`, `FlagNamesHolder`, `OnlyOwnAcks`, `CounterStep`, and the refinement `ImplementsExclusao` |
| `faulty3` | 3 clients, one of PID 0, same faults | `FilaOK`, `OneRequest` |
| `liveness` | 3 clients, one of PID 0, nothing lost, fairness, deadlock checked | `NoForgottenRequest`, `TokenNeverLost`, and, under fairness, `EveryRequestGranted` |
| `duplicates` | 2 clients, REQUEST_TOKENs arrive any number of times | `MutualExclusion`, `CounterHandedOver`, `CounterStep` |
| `pid255` | a client of PID 255 | `MutualExclusion` fails: 255 is -1 in a char |
| `full_queue` | N = 1, 3 clients, nothing lost | `NoForgottenRequest` fails: the request `insere` refuses was acknowledged and is gone |
| `dup_release` | RELEASE_TOKENs may arrive twice | `MutualExclusion` fails: a release is obeyed whoever has the token |
| `clocks` | 2 clients, no fault | `TokenOrderIsClockOrder` fails: the clock of the server never reaches a client |
| `rpc` | RpcServer, 3 clients in the order of their stamps, any of which may time out or be stopped anywhere, and so may the server | `TypeOK`, `MutualExclusion`, `CounterHandedOver`, `HolderAtHead`, `WaitsForHolder`, `CounterStep`, the refinement `ImplementsExclusao`, and, under fairness, `WaitsAreExplained` |
| `rpc_order` | RpcServer, 2 clients, no fault, no order of the stamps | `MutualExclusion` fails: a request of a smaller clock is granted while another client has the token |
| `dict` | RpcDict, 2 clients, 2 threads, 2 words, 2 places, 3 calls and vain waits in all | `TypeOK`, `SerialAnswers`, `AnswerIsOwn`, `CrashCause`, `PlacesAreEarned`, the refinement `ImplementsDicionario`, and `ThreadsEnd` |
| `dict_overlap` | RpcDict, 2 clients, 2 calls, nothing lost | `ResultsAreOwn` fails: a result goes to the client of the call received last |

`FilaAvulsa` has no run: its three properties are proved.

What the `rpc` run says of a call that is never answered (`WaitsAreExplained`):
the server has ended; or a req waits behind the entry of a client that has ended
or that is itself waiting for the answer of its rel; or a rel waits while the
server is in the loop of another client's req. The last two are one deadlock,
and two clients are enough for it: one has the token, the other's req occupies
the only thread, and the rel that would end its loop is never dispatched. In
the program it ends after 25 s, when both clients end with a failed call; the
server stays in the loop for ever. No line of the code or of the notes says
otherwise, so it is listed as a hazard.

What the `dict` run says is of two kinds. `SerialAnswers`, `AnswerIsOwn`,
`CrashCause` and `ImplementsDicionario` are about calls served one at a time: `fora`
becomes TRUE when a call is received while a thread has not ended, or a word is
inserted into a full dictionary, and they promise nothing from then on. They
are about the code of the procedures and of `serv_request`, late and repeated calls
and answers included, and not about the interleaving of threads. `AnswerIsOwn`
compares what a thread has run, and with which word, with what the client that
accepts its answer has asked for.

`TypeOK`, `PlacesAreEarned` and `ThreadsEnd` hold whatever overlaps. Threads that read
and write `nwords` in the middle of each other lose updates, and write old values
back, but make none up: each call adds one at most, and an insertion that leaves
`dict` at its end has as many calls before it as `dict` has places. And a scan ends,
though others change `nwords` under it, even when a copy outside `dict` has made an
arbitrary int of it.

The document calls its code "thread-safe" (lines 2 and 102). What it says of
results is `ResultsAreOwn`, which `dict_overlap` refutes: the thread of one call is
behind `switch` when the next one is received, and answers the other client. The
overlap needs no second client, since a thread answers before it has freed the
arguments (236, 239).

### Bounds

- *Clients.* Two make every race for the token. Three make a queue in which an
  order matters, and a release that leaves somebody behind.
- *N.* 3 where nothing may be dropped: three clients can all be queued, since
  the owner's next request may overtake its release. 10, the code's value,
  where the queue cannot fill.
- *ClockMax* stands for INT_MAX and is 7, in `faulty3` and `duplicates` 4: a
  round of a client is three ticks, and 7 and 4, like 2^31 - 1, are 1 modulo 3,
  so that the overflow hits the tick the real one hits. With it the clocks go
  round, and no other bound on the rounds is needed: the state space is finite
  and the clients endless. In `clocks` it is 31, far beyond the
  counterexample, to keep the wrap out of it.
- *ValorMax* stands for INT_MAX of the counter: 1 (values -2 to 1) where the
  value matters, 0 where it does not. ValorInicial (30 in the code) is within
  that range, and the proofs leave it open.
- The PID 300 does not fit in a char; the PID 0 ends its client at
  `rand() % PID` after one round.
- *RpcServer.* ClockMax 15: a client ends when its clock no longer travels, so
  that the runs are finite; three clients reach it after several rounds, and on
  each side of a call. ValorMax 7: values -8 to 7, so that the resource goes -1,
  2, 4, -8, 2: it wraps, and starts again. N = 10 as in the code. In
  `rpc_order` ClockMax is 7, beyond the counterexample.
- *RpcDict.* Two clients and two threads make every overlap of two calls, and a
  third call finds no thread. DICTSIZ 2: the third insertion is the one too
  many, and a deletion may hit the last word or another. MaxCalls 3 bounds
  `gastos`, the calls, resends and failures of all clients together: two insertions and a
  deletion, or a call that is sent again and overlaps itself. IntMax 3 gives
  ints from -4 to 3: beyond both ends of `dict`, and as far as 3 calls can count;
  a copy outside `dict` makes any of them of `nwords`, the ends included, from which
  the next step wraps. In `dict_overlap` two calls are enough. Clients and words
  are interchangeable: SYMMETRY, with no liveness property in the run (the
  refinement and `StepsDescend` are about steps, and name no client and no word).

### Fairness

`FairSpec` assumes that a client that can go on does (weak: it has no other
thing to do), that the server finishes a treatment it has begun (weak), and
that what a client has sent is received (strong, because the server is at
`recvfrom` only in between). The last is what a socket buffer gives, first in,
first out, as long as the network loses nothing, which the `liveness` run
assumes. Under losses there is no liveness: the client has no timeout.

`FairSpec` of `RpcServer`: a client that can go on does, and so does the loop that
finds its client at the head (weak); `svc_run` serves in turn every connection
with a call in it, but only between calls (strong). Nothing is assumed of the
timeout, which would hide every deadlock, nor of the stops.

`RpcDict` assumes no fairness. That threads end is shown by `ThreadsEnd` as a
termination argument: a thread can always make a step, and each of its steps
lowers a number that no other thread raises (`StepsDescend`).

`EveryRequestGranted` is checked with one client of a single round and two
endless ones. With three endless clients it does not hold once the clocks wrap:
`insere` puts a stamp in front of its equals, except at the head, and a request
of the largest stamp can be overtaken for ever by clients that go round the
clock, each time with requests that overtake releases on the network. A lap
takes 2^31 ticks in the real program, so this is noted and not listed
as a finding.

## Proofs

`CentralServerProofs` proves, for any set of clients, PIDs, capacity, integer
width, losses and failures:

| Theorem | States |
|---|---|
| `TypeCorrect` | `Spec => []TypeOK` |
| `TokenUnique` | `Spec => []TokenUnico` |
| `Mutex` | `Spec => []MutualExclusion` |
| `CounterCorrect`, `CounterSteps` | `Spec => []CounterHandedOver`, `Spec => CounterStep` |
| `HolderNamed` | `Spec => []FlagNamesHolder` |
| `QueueCorrect` | `Spec => []FilaOK` |
| `Refinement` | `Spec => ImplementsExclusao` |

All but the first assume `TokenAssumption`: no REPLY_ALLOW and no RELEASE_TOKEN
is delivered twice, and no PID is -1 in a char. `dup_release` and `pid255` show
that exclusion fails without them. REQUEST_TOKENs and ACKs may be duplicated.

The argument. `MutualExclusion` is not inductive: nothing in it prevents a
REPLY_ALLOW in flight while a client is inside. `TokenUnico` is: among the
clients inside, the datagrams REPLY_ALLOW and RELEASE_TOKEN in flight and a
RELEASE_TOKEN under treatment there is at most one, and none when `flag` is -1.
Each action moves the token from one of these places to the next;
`HandleRequest` makes one only when `flag` is -1, and writes a value that is not
-1. `CounterHandedOver` and `FlagNamesHolder` are inductive relative to it:
since there is one token, the counter it carries is the one stored. `FilaOK`
rests on `FilaProofs`: the walk of `insere` always stops (the smallest place at
which it may stop exists, by well-foundedness of the naturals), what is in front
of that place is not larger and what is behind not smaller, so the insertion
keeps the order; the test of `EstaNaFila` keeps each PID single. The refinement
maps each step to a step of `Exclusao` or to a stutter, from the same
invariants.

`RpcServerProofs` proves, for any set of clients, PIDs, capacity, integer width,
timeouts and stops:

| Theorem | States |
|---|---|
| `RpcTypeCorrect` | `Spec => []TypeOK` |
| `HolderIsHead` | `Spec => []HolderAtHead` |
| `RpcMutex` | `Spec => []MutualExclusion` |
| `RpcCounterCorrect`, `RpcCounterSteps` | `Spec => []CounterHandedOver`, `Spec => CounterStep` |
| `RpcWaits` | `Spec => []WaitsForHolder` |
| `RpcRefinement` | `Spec => ImplementsExclusao` |

All but the first assume `OrderAssumption`: no request is stamped before the
head, and PIDs differ. `rpc_order` shows that exclusion fails without the first.

The argument. `TypeOK` says, beyond types, that a connection holds what its
client waits for (`Conversa`), and is inductive. `HolderAtHead` is inductive with
it: the client that has the token, or whose answer or rel is under way, is at
the head; while the server is in a loop, its client is not at the head unless
nobody has the token. An insertion keeps the head, since its stamp is not
smaller, and the distinct PIDs make the owner unique, which is `RpcMutex`. The
grant puts the token with the head; `Rel` can only be the head's. For `RpcWaits`
the queue is shown to have one entry at most between calls, and no more in a
loop whose client is at the head: a loop that begins behind another entry does
not end, and the entry it waits for is that of a client that has the token or
has ended. The refinement maps `ReturnReq`, `CallRel` and `Rel` to
steps of `Exclusao` and all others to stutters.

`RequestProofs` continues `CentralServerProofs`:

| Theorem | States | Assumes |
|---|---|---|
| `NoForeignAcks` | `Spec => []OnlyOwnAcks` | nothing |
| `RequestUnique` | `Spec => []OneRequest` | `RequestAssumption`: no REQUEST_TOKEN and no REPLY_ALLOW is delivered twice |
| `RequestsKept` | `Spec => []NoForgottenRequest` | `NoLossAssumption`: besides, none of them is lost, no process stops, PIDs differ, and N is at least the number of clients |
| `TokenKept` | `Spec => []TokenNeverLost` | `NoTokenLossAssumption`: `TokenAssumption`, no REPLY_ALLOW and no RELEASE_TOKEN is lost, no process stops |

The argument. The properties count places; the invariants speak of sets that
have no two elements, and become cardinalities at the end. A request is in
flight (or answered, and the answer is in flight), in the queue, or under
treatment, and `UmPedido` says: in one of the three, with one element, and in
none for a client that neither waits nor has stopped. It is inductive because a
step moves a request from one place to the next: lemmas of `FilaProofs` say that
`insere` adds one place for the sender and moves the others, and that
`removeItem` takes out the head alone. `NinguemEsquecido` (a client that waits
has a request somewhere) is inductive with it, except where `insere` refuses. It
does so for a PID already queued, whose client would have two requests, as PIDs
differ; and for a full queue: but the places of the queue map to clients one to
one, and not onto the sender, so that with N at least the number of clients
there is room (`HaLugar`). `full_queue` shows that this cannot be left out. For the
token, `TokenUnico` bounds it above and `TokenPresente` below.

`RpcDictProofs` proves, for any clients, words, threads, `DICTSIZ` and
`MaxCalls`, and with no assumption but those of `RpcDict`:

| Theorem | States |
|---|---|
| `DictTypeCorrect` | `Spec => []TypeOK` |
| `SerialInvariant` | `Spec => []Serial` |
| `CrashOnlyOutside` | `Spec => []CrashCause` |
| `AnswersMatchContent` | `Spec => []SerialAnswers` |
| `OwnAnswers` | `Spec => []AnswerIsOwn` |
| `DictImplements` | `Spec => ImplementsDicionario` |
| `PlacesEarned` | `Spec => []PlacesAreEarned` |
| `ThreadsDescend` | `Spec => StepsDescend`, the half of `ThreadsEnd` without ENABLED |

The argument. As long as `fora` is FALSE one thread at most is active, and the
proof is that of a sequential program: `Serial` has an assertion for each place of
the code. Before the arguments are decoded the buffer holds those of the call in
the transport, and the thread has that call's procedure and word from then on;
in `insertw` the value read of `nwords` is the one stored; in the scan no place
before `i` holds the word; when `deletew` copies, place `i` and place `nwords` are what
`Lugar` takes them for. `CrashCause` and `SerialAnswers` follow from it, by way of the
fact that a word is among the first `nwords` places if and only if its count is
not zero. `AnswerIsOwn` needs `Proprias` besides: a call in flight or in the
transport that has the number its client waits for is the call it waits for,
and an answer with that number comes from a service of it (`Atendida`), since by
`Serial` the thread that answers has run what the transport asks for. The
refinement goes action by action: the step that has the effect adds a place to
the set that holds a word, takes one out, empties all, or finds what it answers;
all others leave every count as it was. The subtle one is `Del2`, where `nwords` goes
down and the place of the deleted word begins to count as holding the last word:
it takes one occurrence of the deleted word out, and leaves the number of every
other, because the two places change roles.

`PlacesEarned` and `ThreadsDescend` are about what is left when calls do overlap.
`PlacesAreEarned` is not inductive: a thread may hold an old value of `nwords`, and
write its successor over a smaller one. `Contado` counts what may still change
`nwords` by one, the calls in flight and the threads that have not written it yet:
all other calls are `Mudancas`, and `nwords`, and every copy of it in a thread, is
between -`Mudancas` and `Mudancas`. A write of `nwords` takes its thread out of the first
group, so that `Mudancas` grows by one as the value may; a new call costs one of
`gastos`. A thread that is about to insert is in the first group itself, so the
value it has read is below `gastos`. After the first copy outside `dict` (`estragado`)
nothing is said of `nwords` but that it is an int.

The rank of a thread in the scan is 2 (`IntMax` - i) and what is left behind the scan.
It bounds the scan because `i < nwords` has been tested when `i` is incremented, and
`nwords` is an int, whoever has written it: `TypeOK` has it, with `Coerente` for the
threads (i is below INT_MAX at the comparison). Nothing is assumed of the values
others write.

`FilaAvulsaProofs` proves `DrainsInOrder` (what has been removed, followed by the
queue, is in the order of the stamps), `DrainsOnce` and `DrainsAll` (the queue is
never empty inside the second loop and empty after it), from `Cabem`: the queue
has room for all the turns, as 10 and 10 do. The invariant adds that every PID
in use is below the next one.

Only model-checked: the liveness properties `EveryRequestGranted` and
`WaitsAreExplained`, and the first half of `ThreadsEnd`, that an active thread can
go on, which is stated with ENABLED. Both are out of the prover's reach. Every
other property of the passing runs is a theorem.

## Plan

Done: every module above, its runs, and a theorem for each safety and action
property and each refinement. Next, in order:

1. The first half of `ThreadsEnd` without ENABLED: the guards of a thread's
   steps, written out, cover every place of the program, with a run that
   compares them with ENABLED.
2. `RpcServer`: that the deadlock of `WaitsAreExplained` is the only way for a call
   to wait with nothing under way, as an invariant; and that the token of the RPC
   version is lost only with its client.
3. `RpcDict`: which calls may be in the transport when a thread answers after an
   overlap, so that `ResultsAreOwn` can be stated for the calls that were not
   overwritten.
4. `CentralServer`: how many rounds of others a queued request can see in front
   of it as long as the clocks do not wrap.

## Not modelled

- `LAB07-SD/servidor.c`, `cliente.c`, `server_cent_svc.c` and `backup2-sem-M`: they do
  not compile, so there is no behaviour to model. Their queue and stubs are
  those of `backup`, which is modelled.
- `AExemplo-RPC`: course examples that keep no state between calls. The square
  server's `svc_run` is commented out, and the stub of `tempo_1` returns a value
  it never sets.
- The Netkit files: configuration of the virtual machines. What their delays and
  rates do to datagrams, the network of `CentralServer` does.
- Printing everywhere, and the addresses as bytes.
