# Verification of the multithreaded chat (Proyecto 01, CC3064)

This directory holds TLA+ models of the chat server, of the chat client, of the
two together, of the lines between them symbol by symbol, and of the stub server
the client was developed against; the TLC runs that check them on small
instances; and TLAPS proofs, for instances of any size, about the server, its
refinement of the room and of the service, the client, the stub, clients and server
together, and the lines on the wire.
Paths below are relative to the root of the repository; `refs` like
`handlers.c:50` name files of `src/server`, `src/client` or `src/common`.

## 1. Inventory of the system

| Part | State | Operations | Talks to |
|---|---|---|---|
| Session table (`session_manager.c`) | `g_sessions[MAX_CLIENTS]`, `g_sessions_mutex` | add, remove by descriptor, find by descriptor / name, list, mark inactive | every server thread, under the mutex; hands out pointers that are used after the unlock |
| Accept loop, shutdown (`accept_loop.c`) | `g_server_sockfd`, `g_server_running` | accept, add, start a thread, refuse; `server_shutdown` | session table, kernel, client threads |
| Client thread (`client_thread.c`) | its `session` pointer, its copy of the descriptor | WELCOME, receive, touch activity, PING / QUIT, dispatch, clean up | session table, handlers, socket |
| Handlers (`handlers.c`) | none of their own | REGISTER, LIST, INFO, STATUS, MSG, BROADCAST, QUIT | session table through eight functions the repository declares and never defines; sockets of other clients |
| Inactivity monitor (`inactivity.c`) | copied descriptors and names | wake, scan under the lock, send without it | session table, every socket |
| Server main, signal handler (`main_server.c`) | `g_server_running` | start, SIGINT/SIGTERM, shutdown, join | accept loop, monitor |
| Parser, builders, validation, socket helpers (`src/common`) | none | `parse_message`, `build_*`, `is_valid_*`, `send_line`, `recv_line` | server |
| Client main (`main_client.c`) | `ClientState` | connect, handshake, run, disconnect | socket, both client threads |
| Input loop (`input_loop.c`) | the typed line | fgets, parse, send | `ClientState.running`, `print_mutex`, socket |
| Receiver (`receiver_loop.c`) | the received line | recv, dispatch, end | the same |
| Terminal output (`ui.c`, `commands_local.c`) | `my_status` | printing | `print_mutex` held by the caller |
| Stub server (`tests/stub_server.c`) | `g_clients[3]`, `g_count`, `g_mutex` | accept, reserve a slot, start a thread; every command, sending under the lock | client |

What is hard to get right here, and hard to test:

- **Pointers and descriptors that outlive the lock.** A client thread keeps a
  pointer into `g_sessions`; the accept loop writes `thread_id` through one after
  the thread has started; handlers and the monitor send on descriptor numbers
  they looked up earlier, while the kernel reuses numbers.
- **Two critical sections for one decision.** `username_exists` and then
  `add_session`; `username_exists` and then the data of INFO.
- **Freeing on every path.** Slot and descriptor must each be given back once
  when the table is full, `pthread_create` fails, WELCOME cannot be sent, or a
  client vanishes in the middle of a command.
- **Order on the wire.** Answers of a client's own thread mix with what other
  threads and the monitor send on the same socket.
- **Bytes.** A line passes five buffers and three parsers with limits, escapes and
  separators of their own; `send` blocks when a socket is full, and nothing orders
  two senders to one socket.
- **Two programs that wait for each other.** The client's handshake takes the next
  line for the answer, whatever it is; its `/quit` ends when the server lets it;
  what it shows as the status is what it heard last.
- **Ending.** The signal may be handled on either thread, `main` may sit in
  `accept`, the monitor must be joined. In the client, two threads share a flag,
  a lock and a socket, and one of them sits in `fgets`.

What makes each part correct is listed with its properties in section 3.
`PROJECT.json` lists 40 hazards, each at its line and with the properties that
would catch it going wrong, or the reason why none does.

## 2. The modules

| Module | Models |
|---|---|
| `SessionTable` | the session record and the table's operations, as pure operators on a table |
| `ChatServer` (extends it) | main thread, client threads with all handlers, monitor, signal, descriptors, connections |
| `ChatServerProperties` | what the server must do, and the conjuncts of the inductive invariant |
| `ChatRoom` | the abstract specification: seats and names, no threads |
| `ChatServerRoom` | the refinement mapping from `ChatServer` to `ChatRoom` |
| `SeqFunctions` | what is computed along a sequence, as recursive functions the provers can unfold: parts of it, folds |
| `SeqInduction` | induction and recursion for the proofs, and what they give for parts of a sequence |
| `ChatServerProofs` | proofs about the server: types, ownership, and what follows |
| `ChatServerRefinements` | the proofs that the server implements the room and the service |
| `ChatClientProofs`, `StubServerProofs` | proofs about the client and the stub |
| `ChatSystemProofs` | proofs about clients and server together: who is seated and how it ends; messages and statuses |
| `ChatService` | the abstract specification of the dialogue: WELCOME, and one answer of the right kind per line |
| `ChatServerService` | the refinement mapping from `ChatServer` to `ChatService` |
| `ChatClient`, `ChatClientProperties` | the client process, and the server as its socket shows it |
| `ChatSystem`, `ChatSystemProperties` (extend `ChatServer`) | client programs and the server together |
| `LineFormat` | what each parser, builder and buffer limit makes of a line, as pure operators |
| `LineWire`, `LineWireProperties` (extend it) | the threads that send and receive, over sockets with bounded buffers |
| `LineFormatProofs`, `LineWireProofs` | proofs about the lines: what parsers, builders and limits keep of any string; nothing is lost, cut or mixed on the way |
| `StubServer`, `StubServerProperties` | the stub, and its refinement mapping to `ChatService` |
| `MC…` | instances for TLC |

### State and actions

One action of `ChatServer` is one critical section of `g_sessions_mutex`, one
`send`, one `recv_line`, or the unlocked code between two of these. `apc`, `pc[c]`
and `mpc` say which step main, the thread of client `c` and the monitor come to
next; threads are named after the connection they were created for, `conn`.

| In the model | In the code |
|---|---|
| `sess`, `running`, `listening`, `clock` | `g_sessions`, `g_server_running`, `g_server_sockfd >= 0`, `time(NULL)` |
| `fdtab`, `conn`, `gone` | the kernel: what a descriptor number refers to, the life of a connection, whether its peer has closed |
| `outq[c]`, `asked[c]` | all lines put on the wire to `c`; all lines of `c` that were read |
| `afd`, `aslot`, `atid` | `client_sockfd`, `session_slot`, `thread_id` of the accept loop |
| `slot[c]`, `fd[c]`, `job[c]` | `session`, `sockfd` and the locals of a thread and its handler |
| `mnow`, `notes` | `now` and the arrays of the monitor |
| `Loop … Close` | `server_start_accept_loop`, one disjunct per outcome of each call |
| `Begin, Recv, RecvEnd, Touch, Ping, Quit, Unparsed, Remove, CloseOwn` | `client_thread_main` |
| `HandleRegister, RegAdd` … `Reply` | the handlers, split where they take the lock again or send |
| `MonWake, MonScan, MonSend` | `inactivity_monitor_main` |
| `SignalMain, SignalOther, HandlerCloses` | `handle_termination_signal`, atomic for main, in two steps beside it |

Descriptor numbers are reused: `accept` may return any free number of `Fds`. A
line is the sequence of its `|`-separated fields, and `parse_message` keeps three
of them. A send to a peer that is gone is lost, and `send_line` may or may not
notice. `job[c].addressee` and the monitor's `owner` say whom a looked-up
descriptor was for; only properties read them.

`handlers.c` declares `username_exists`, `add_session`, `find_user_fd`,
`set_user_status`, `broadcast_*` and others `extern`; no file defines them, and
the Makefile's server target is commented out. They are modelled as external, by
the table operations of the same purpose, and in the most favourable way: each is
one critical section. What the runs refute about them holds all the more for
weaker ones.

`ChatClient` has the connection (`sent`, `inbox`, `server`, `reset`), the fields
of `ClientState`, and the places of the two threads. The server and the network
are external actions: `Answer` serves the oldest line not served yet, `Event` is
a line on behalf of others, the server may stop and the connection may be lost at any time, and `close` with
unread lines, or a send to a closed end, resets the connection. A reset makes
`send` fail and may make `recv` fail before it has returned what is queued. The
typed line is the sequence of its words, of which several together, as the rest of a
line, are one value (`Phrase`); parsing it and building the protocol line is `ToProto`.

`ChatSystem` adds to `ChatServer` where each client program is (`cpc`) and what
it has sent and the server has not read (`wire`). `Reads` joins the server's
`Recv` to the head of `wire`; a client's steps look at `outq`. Of the client only
what the server can notice is there: `Dial`, the handshake (`HearsWelcome`,
`HearsAnswer`, `GivesUp`), the commands, `/quit` with its second QUIT, and a
crash. That the receiver takes lines as they come, and may be late, is not visible
to the server; `ChatClient` has the threads behind it.

In `LineFormat` a line is a sequence of symbols: a keyword is one symbol, names
and texts are sequences of letters, and `|`, `;`, blank, backslash and newline are
symbols of their own. `LineWire` runs it: `Types` and `ClientPut` are the input
thread, `ClientGet` the receiver, `ServerGet` and `ServerPut` a thread of the
server, `Notify` the monitor. `send` puts as much on the wire as there is room
for, then waits. The `recv` calls of one byte that find a byte waiting are one
step, since nobody else reads that socket.

`StubServer` has one action per critical section, which sends included: the stub
holds `g_mutex` while it sends to others. The result of `pthread_create` is not
looked at, so `SpawnFails` leaves the slot and descriptor taken and hands
`pthread_detach` an id nobody set, after which the process may or may not live.
A `send` to a client that has gone may end it as well (no `MSG_NOSIGNAL`, SIGPIPE
not ignored). `g_count` beyond the table makes the duplicate check read behind it:
any outcome is allowed.

Definitions with an underscore and a word (`FreeSlot_ByRegistered`,
`Join_NoWait`, …) are plausible mistakes in the code of that name. No behaviour
uses them: with one of them in place of the real definition, TLC must find the
property violated that `PROJECT.json` names with it.

## 3. The runs

Passing runs; states are distinct states.

| Run | Instance | Checks |
|---|---|---|
| `lifecycle` (409 000) | 3 clients that register and vanish at any point, 2 slots, 2 descriptors | `SessionPinned`, the inductive invariant `Ownership` (with `SlotsClean`, `NoFdLeak` and `StrayOnlyAfterClose` among its conjuncts), and `ImplementsRoom` |
| `commands` (140 000) | 2 clients, each registers first and then sends any line of `AllCommands`; nobody disappears | `TypeOK`, `ImplementsService` |
| `liveness` (118 000) | 2 clients that quit or vanish, 1 slot, the clock runs, fairness | `CleanedUp`, `Accepted`, `OverdueMarked`; `NoFdLeak` when the server is full, `CloseOwnFd`, `NoPrematureInactive` |
| `shutdown` (303 000) | 2 clients, the signal at any moment on either thread, fairness | `Exits` |
| `client` (568 000) | 3 typed lines, 1 event, fairness | `TypeOK`, `SocketHeld`, `ChatsOnlyRegistered`, `StatusFollows`, `ExitsOnQuit`, `OneEnterEnough` |
| `system` (234 000) | 2 client programs, five plans (below), fairness | `StrayOnlyAfterClose`, `ChattingIsSeated`, `ByeIsLast`, `DriftAnnounced`, `OthersAgree`, `AckedArrives`, `HandshakeEnds`, `QuitEnds` |
| `wire` (57 000) | 2 of 4 users, 6 symbols per socket, lines of up to 11, fairness | `TypeOK`, `FramesKept`, `CommandsWhole`, `MessagesKept`, `ListsNames`, `AddresseeFound`, `AllAnswered` |
| `stub` (91 000) | 3 clients, 2 slots, fairness | `TypeOK`, `SlotHeld`, `SlotsAccounted`, `CountCovers`, `ImplementsService`, `Greeted`, `Ended` |

Runs that refute what the repository says; each has a finding with the quotation
in `PROJECT.json`.

| Run | Refuted | What the code does |
|---|---|---|
| `unique_names` | "Verificar que el servidor rechaza usernames ya registrados" | two threads pass `username_exists` before either registers |
| `private_delivery` | a private message appears on no other terminal | the descriptor is looked up, closed, reused, and then sent to |
| `registered_first` | "is_registered: 1 después de REGISTER_OK" | a DELIVER of another thread overtakes REGISTER_OK, and the client's handshake takes it for a wrong answer |
| `bars_kept` | a `\|` in a message does not break it, "el resto es mensaje" | the parser ends the field at every unescaped `\|`, and the client escapes none |

### What the properties of the later runs say

- `ImplementsService`, of the server and of the stub: each client hears WELCOME
  first and one answer of the right kind to each of its lines before the next is
  read, whatever other threads send to the same descriptor. A client developed
  against the stub meets the same dialogue at the server.
- `ChattingIsSeated`: a client whose user chats has a session that is registered
  under its own name. `ByeIsLast`: the BYE that lets it stop is the last answer,
  and its second QUIT is never read.
- `DriftAnnounced`: the server's status of a user differs from the one its client
  shows only if the monitor marked it, and then a notice has come or will, or if
  the user asked for INACTIVO and then did something, which silently makes it
  ACTIVO. The property looks back to the confirmation before the last one: the
  monitor may mark a session between `set_user_status` and the send of STATUS_OK,
  so that the notice comes first and the client shows OCUPADO all the same.
- `OthersAgree`: what a client last heard of another's status is what that one was
  last confirmed, or what the server has given it since: its status in the table, or
  the INACTIVO of which a notice has come or will. It asks no server to keep the
  monitor's mark from the others: one that tells them, as the test plan has it,
  satisfies it. That this one does not tell them is in section 5.
- `AckedArrives`: at least as many messages of `c` are on the wire to `d` as `c` was
  told are delivered.
- `HandshakeEnds`, `QuitEnds`: the user gets to chat or the client exits, and after
  `/quit` it ends, with the real server at the other end.
- `FramesKept`: lines arrive whole and in order, split only at a newline of their
  own, until two senders are in the middle of a line to the same client.
  `CommandsWhole`: no command of the client outgrows the line buffer.
  `MessagesWhole`: the private messages shown are those typed, whole, a `|` in them
  included; it is violated. `MessagesKept` says the same as long as no text to that
  user is one the parser breaks (`Breaks`: an unescaped `|`, or an escaped `n`, of
  which it makes a newline). Both read a text as documented and as every later
  reader takes it, its first `MaxChat - 1` symbols; a backslash, of which no document
  speaks, makes the next symbol literal and goes (`Cooked`), the only word for it
  being `protocol.c:26-29`. `ListsNames`: only the last name of a list may be cut, and
  only for lack of room. `AddresseeFound`: an ERROR comes only to who has typed a
  message to a name that is not online. In `wire` all names are shorter than the
  longest allowed; for a name of that length it is false (section 5).
  `AllAnswered`: full buffers never close a circle.
- `SlotHeld`, `SlotsAccounted`, `CountCovers`: a name in the stub's table has one
  slot and one thread that will clear it; the only slots lost are those of clients
  that never registered; `g_count` is never less than the names. That no two names
  are equal does not follow, and is false (section 5).

### Why these bounds

- Three clients are the fewest with which one leaves, its slot and number are
  taken by another, and a third still works with what it looked up; two slots and
  two descriptors make both run out and be reused. The proofs of section 4 remove
  these bounds for every property of `lifecycle`, the refinement among them, for
  the safety properties of `liveness`, `commands`, `client`, `stub` and `system`, and
  for those of `wire` that are about framing and about lists.
- `Timeout = 1` with `MaxClock = 1` has both sides of the comparison: a session
  exactly at the timeout, and one short of it. `Idle_OffByOne` is caught there.
- `MaxLines` bounds the lines per client, and with it the length of `outq`. Two
  lines (one to register, one of any kind) put two handlers of two clients side
  by side in every interleaving.
- `Closers` names the clients that may vanish. `commands` has none, because
  the answers are compared with the lines of clients that are still there; `stub`
  has one that drops, and `ChatService` says what may then be lost.
- A plan of `system` says who comes when, what may be typed and how much time
  passes: both come at once, one may crash and the other quit; Beto comes, and may
  quit, while Ana sends him two messages; Beto comes while Ana sets her status
  twice; Beto comes, Ana sets hers once, and a second passes, so that the monitor may
  mark either, or both, with the other there; Ana is alone and sets hers, with a
  second and one command more, enough for the monitor to mark her before, between
  and after, and for a chosen INACTIVO to be lost. One plan is chosen in `SysInit`.
- `wire` has line buffers of 12, with room for 11 symbols, texts of 3, names of 2 and
  sockets of 6, the smallest sizes that keep the real ones' inequality (`Fits`): a list of
  four names is cut in the middle of the last, every line takes more than one
  `send`, a long line splits, and a text of four is cut. All texts of up to three
  symbols over a letter, `n`, `|` and backslash are sent.
- `stub` has two slots for three clients, so that the third may find them taken or
  lost; the second may take the first one's name, and may drop.
- In `client`, three lines are enough to change the status twice and quit, or
  twice and break the connection; of the six lines one has an argument of several
  words, which /status refuses and /msg takes, and one a capital; one event can come at every point of the
  handshake and of the conversation.

Symmetry over clients is used in runs without liveness only: clients are
interchangeable in those instances. Deadlock is checked in every server run
except `shutdown`, where the process ends, and not in `client`, `system`, `wire`
and `stub`: the clients end, users stop typing, and the stub may be ended by
SIGPIPE. There the liveness properties say that nobody is stuck. The monitor never ends on its own, so that in the other runs
the absence of deadlock says little; that no thread is stuck is `CleanedUp` and
`Exits`.

### Fairness

`FairSpec` of the server asks weak fairness of main, of the monitor, of each
client thread and of a signal handler that has begun: the scheduler runs what is
not blocked. It is per thread and not per action, because a thread has one
program counter. Nothing obliges clients to connect, speak or leave, time to
pass, or a signal to come; `Recv` is an act of the client and has no fairness.
`Accepted` needs no fairness of `AcceptFails`: `accept` fails only while no
descriptor is free or the listening socket is closed.

`FairSpec` of the client asks weak fairness of both threads, of the server's
answers and of its close after BYE or after the client's close, which is what
`ImplementsService` and `CleanedUp` say of the server. `fgets` has none: the user
may never type again.

`ChatSystem` asks the same of the server's threads, now with `Reads` among them,
since what has been sent will be read, and of each client program (`Client`); what
users do, time and crashes have none. `LineWire` asks only that some thread runs
as long as one can (one weak fairness for all): the scripts are finite, so this is
enough for `AllAnswered`. `StubServer` asks it of main and of each thread, while
the process lives.

## 4. What is proved

For every number of slots, clients and descriptors, every timeout, every set of
inputs and every bound, from the assumptions on constants that the modules name:
`SessionTable` and `ChatServer` (at least one slot, `NoConn` is no client, the empty
name is not valid, descriptors are natural numbers, inputs are non-empty sequences
of fields, bounds are natural numbers), `ChatClient` (typed lines are sequences of
words; what others cause to be sent is a DELIVER, a BROADCAST_FROM or a
STATUS_CHANGED), `StubServer` (at least one slot, descriptors are natural numbers),
`ChatSystem` (clients have valid names; a plan's lines are what the client makes
of a command, and `MaxLines` leaves room for them), `LineFormat` (`Fits`: two names, a
text and a header fit in a line, as 32 + 32 + 900 do in 1024; newline is not in the
alphabet, and names have no separators) and `LineWire` (a socket holds at least one
symbol; what is typed ends at its first newline; the monitor is no user).

| Theorem | Says |
|---|---|
| `TypeCorrect` | `Spec => []TypeOK` of the server |
| `OwnershipStep`, `OwnershipCorrect` | `Ownership` is inductive with the types, and holds |
| `SessionsArePinned` | the pointer a thread keeps without the lock stays good |
| `NoSlotIsLost`, `NoFdIsLost` | every slot and descriptor has somebody who will free it |
| `SlotsStayClean` | no slot keeps data or a thread id of another client |
| `ThreadsTouchTheirOwn` | `update_session_activity` writes to its own session |
| `StraysOnlyAfterClose` | what is sent without the lock reaches its addressee as long as that is connected |
| `ClosesOwnFd` | nobody closes somebody else's connection |
| `NobodyIsMarkedEarly` | the monitor marks only sessions idle for the whole timeout |
| `ServerIsARoom` | `Spec => ImplementsRoom`: the server implements `ChatRoom`, step by step |
| `ServerGivesTheService`, `StubGivesTheService` | `Spec => ImplementsService`: the server and the stub both implement `ChatService`, step by step |
| `ClientTypesCorrect` | `Spec => []TypeOK` of the client |
| `SocketIsHeld` | the client does not close its socket while the receiver thread lives |
| `OnlyRegisteredChat` | the client's user chats only after the server has registered the name |
| `ShowsWhatWasAsked` | when all answers are in, the client shows the status last asked for |
| `StubInvariant`, `StubTypes` | the stub's invariant is inductive, and its types hold |
| `SlotsAreHeld`, `SlotsAreAccounted`, `CountIsEnough` | `SlotHeld`, `SlotsAccounted` and `CountCovers` of the stub |
| `SystemStep` | the invariant of clients and server together is inductive |
| `WhoChatsIsSeated`, `ByeEnds` | `ChattingIsSeated` and `ByeIsLast` |
| `AckedMessagesArrive` | `AckedArrives`, if no two users call themselves the same |
| `OthersKnow` | `OthersAgree`, by its first case, if besides nobody is called UNREGISTERED |
| `DriftIsAnnounced` | `DriftAnnounced`, if no two users call themselves the same |
| `WireTypes` | `Spec => []TypeOK` of the wire: no buffer of the client, the server or a socket holds more than its size |
| `WireCommandsWhole` | `CommandsWhole`: the server hears each command whole, in order and once |
| `WireFramesKept` | `FramesKept`: until two threads write to one client at once, it gets the lines sent to it, whole and in order |
| `WireListsNames` | `ListsNames`, if nobody types the keyword LIST_OK: every list shown has the registered names in the order of their slots, cut only where the buffer ends |
| `WireAddresseeFound` | `AddresseeFound`, if nobody types the keyword ERROR: and if all names in the table are shorter than the longest allowed: nobody gets an error who has not typed a message to a name that is offline |

**Types.** `TypeInv` is `TypeOK` with `Pointers`. The types alone are not
inductive: `Begin` reads `sess[slot[c]]`, which has a type only if `slot[c]` is a
slot, so `Pointers` says that a thread which holds its session, and main between
`find` and `settid`, point into the array. `ChatServerProofs` first states what
the operators return (`LowestIn` needs well-foundedness: the lowest of a non-empty
set of slots exists), then one lemma per thread.

**Ownership.** None of the properties is inductive alone. `SessionPinned` breaks
if another thread may remove this thread's session; it cannot, because removal
goes by descriptor number, active slots have different numbers and a thread knows
its own (`SlotInv`, `ThreadInv`). Active slots have different numbers because
`accept` returns a number that is free, and a number is free only when no active
slot has it: so `SlotInv` says that the number of an active slot refers to its
client, and `TableInv` that two numbers never refer to one connection. A slot
freed before its `close()` is covered by `ThreadInv` (`pc[c] = "close"` implies
the number still is its connection's). `MainInv` carries the same knowledge
through the steps of the accept loop; its `settid` conjunct says why the late
write of `thread_id` is harmless: only main itself fills slots, so a slot freed
meanwhile is still empty. `mnow <= clock` carries `NoPrematureInactive`: the time
read before the lock can only make the monitor late, never early. Each step has a
proof of its own, and the properties follow from the invariant.

**The room.** `ServerIsARoom` maps the server's steps to those of `ChatRoom`: `Add`
offers a seat or refuses, `RegAdd` names, `Remove` and `Drop` take the seat back,
and everything else leaves the room alone. The mapping reads a client's name and
life off the slots that have its address, which is a function only if there is at
most one: `SeatedOnce` derives that from `Ownership`, since a session belongs to main
or to its own client's thread, never to both.

**The service.** `ServerGivesTheService` and `StubGivesTheService` are one claim about
two programs: the client, developed against the stub, may rely on the same dialogue
with the server. In the mapping, `said` is `outq` without the notices that other
threads and the monitor cause. The mapping is a refinement only while a thread knows
what it works on: `Conversations` says that between `recv_line` and the answer the
line in the thread's hands is the last one heard, that a handler's later steps are
reached with a line of its own command only, and that the reply prepared is one
`Answers` allows. Then each step is `Greet`, `Refuse`, `Hear`, `Answer`, `End` or
`Close` for one client, or a stutter, and the rest is that nobody else answers in a
thread's place: a descriptor used again belongs to the new client and a thread sends
its answer to its own (`OwnDescriptor`, from `Ownership`), and everything sent to
others is a notice. What `outq` without notices is after one line more is a recursive
definition. It is written as a recursive function (`SeqFunctions`) and not with
`SelectSeq`, whose library definition is a `RECURSIVE` operator; `SeqInduction`
proves induction over the naturals for sets (`NatSetInduction`, from the
well-foundedness of `<`), from it that recursion defines a function (`Recursion`), and
from that `WithoutAppend`.

**The client.** `SocketHeld` follows from `Places`: during the handshake there is no
receiver, from `Spawn` to `Join` the socket is open, and after `Join` (or a failed
`Spawn`) the receiver is gone, so that `Disconnect` closes under nobody. Every step of
the receiver leaves the main thread where it is. `ChatsOnlyRegistered` follows from
`Seated`: a REGISTER_OK that is on its way means that the server has registered the
name. `Traffic` says which lines can be on the way at all: the answers to what the
client can send, notices and WELCOME; none of the last two is a REGISTER_OK. The types
(`Typing`) need `Traffic` too, since a line's third field becomes the status shown.
For `StatusFollows`, `Follows` says that there is always a status that the lines
served so far ask for, and that the lines still to be shown, after the one the
receiver holds, lead to; when no line is left, it is the one that is shown. `Early`
says that no status is asked for before the receiver runs.

**The stub.** `TypeInv`, `TableInv`, `MainInv`, `ThreadInv` and `NamesInv` of
`StubServerProofs`: a thread's copy of its slot's descriptor and name agrees with the
slot, and no two threads have one slot, because main takes the slot before it starts the thread
and no thread has it then. `CountCovers` needs arithmetic on the cardinality of the
set of named slots, which only a thread's own steps change.

**Clients and server.** Each step of `ChatSystem` is a step of `ChatServer` or leaves
the server alone, so that the server's whole invariant `Inv` holds here as well
(`ServerInvariant`). `SysInv` adds `OwnNames` (a session is registered under its own
client's name, or has none) and for each client `Sound`: `LinesSaid` (what is on the
wire, and the line a thread works on, may have been said by the client where it
is), `LineFits` (a thread is at a handler's step only with a line of its command,
and about to send only an answer to it), `ToldTrue` (who has REGISTER_OK, or is about
to get it, is registered), `ByeLast` and `Served` (nobody hangs up on a client that
stays, unless it is refused). `ByeIsLast` needs nearly all of it: the thread that
says BYE has read QUIT, so the client is leaving, and nothing of it is read again.

**Messages and statuses.** The last three theorems of `ChatSystemProofs` suppose
`DistinctNames`, that no two clients are started with the same name, and `OthersKnow`
besides `NobodyUnregistered`, that none is called UNREGISTERED. The first cannot
be derived: the server does register two users under one name (`unique_names`), and then a
message or a status goes to whichever has the lower slot. The second is needed
because the monitor calls a session without a name UNREGISTERED, so that its notice
would read as one about a user of that name. The instance of `system` satisfies both.
`AckedArrives` follows from `TalkInv`: what `c` has been told, and one more if `c` is
about to be told, is at most what was delivered; `StrayOnlyAfterClose` and `OwnNames`
say that DELIVER goes to the one of the name. `OthersAgree` follows from `AgreeInv`: who
has heard of `c` is registered and stays so, so that it hears of every further status
of `c` between its confirmation and the next, and nobody else speaks of `c`: of the cases
that `OthersAgree` allows, this server keeps to the first.
`DriftAnnounced` follows from `DriftInv`: the status in the table is the one about to
be confirmed, the one shown, or one that the monitor set; and in the last case its notice
is either still to be sent or came after the right confirmation. As the monitor
may look between `set_user_status` and STATUS_OK, the invariant looks back from the
last confirmation while the thread is about to send the next, and from the one before
afterwards.

**The wire.** `LineFormatProofs` says what the operators on lines do to any string,
by induction over its symbols: folds step by step (`FoldAppend`, `FlatMapConcat`), what
`parse_message` takes from a line (`ScannedIs`: each symbol ends up at most once in a
field), that what `command_to_proto` builds is a command that fits in its buffer
(`ToProtoIs`), that each line a handler sends, answers and messages to others, is either
closed by a newline or exactly as long as the buffer of its reader (`HandleIs`), and that
such a line is read as the frames `Lines` says (`SentFrames`). The limits enter here:
with a text or a name one longer, a DELIVER could be cut and its newline lost.
`LineWireProofs` puts them together. A reader that has frames before it takes the
first of them and no more (`ReadsFrame`); from this, `Inv` says of each user, in both
directions, that nothing is lost, whatever is still in the keyboard's buffer, in the
hands of a sender, on the wire or in the hands of a reader. `UpOk`: the commands heard,
those that `sbuf`, `up` and `csend` hold one after the other, and those that `fgets`
will make of the rest, are together what the user meant. `DownOk`: while no two senders
have mixed, at most one of them is in the middle of a line to the user, and the lines
shown with the frames that `cbuf`, `down` and the rest of that line hold are those
sent. Without the part about one sender the second is not inductive: `ServerPut` may
go on with any line that has been begun. The types hold only with these, since `sbuf`
is never complete because what follows is read in whole lines (`Open`).

**The list and the errors.** `WireListsNames` supposes `Untyped("LIST_OK")`, that LIST_OK
is not among the symbols that can be typed, as in the instance of `wire`. It cannot be
dropped: in a message, `\n` becomes a newline of its own, so that a text with `LIST_OK|`
after it would be shown as a list. `WireAddresseeFound` supposes the same of ERROR, for
the same reason, and `ShortNames`, that no name in the table has the greatest length
allowed, which it cannot do without (section 5). Both follow from `ToldOk(A)`: whatever is or will be sent to a client
`u` is in `A[u]`, for the list `Good`, the one line of the list (`TheList`) and all lines
without LIST_OK, and for the errors `Excused[u]`, the lines without ERROR unless `u`
is to blame for one, and then all. A step keeps it if the handlers and the monitor make
such lines of what is typed (`MayTell`), since what they read is what somebody meant
(`HeardIs`), which `UpOk` says. `ListingTold` and `ExcusedTold` show that they do; that
`Excused` changes as lines are typed does no harm, since who is to blame stays so
(`BlamedStays`). That a command which is no message to nobody is served
(`KnownServed`) rests on the fields: what `parse_message` finds in a line that
`command_to_proto` has built is its keyword and, up to the next bar, the name, as no
name has a mark in it (`FieldsAre`).

What a client reads of such lines is the list or no list, an error or none
(`ReadKeeps`). What `strtok` finds in a list is computed from the other end:
`Starting(k)`, by induction on `k`, is what it finds in each start of the first `k`
names with their separators, namely the first of them, the last one perhaps cut; and
the text after the keyword is such a start, however the list was cut to its buffer and the
line to its own (`TheListIs`, `ShownAre`).

Only model-checked:

- liveness under fairness (`CleanedUp`, `Accepted`, `OverdueMarked`, `Exits`,
  `ExitsOnQuit`, `OneEnterEnough`, `AllAnswered`, `HandshakeEnds`, `QuitEnds`,
  `Greeted`, `Ended`), which the prover does not treat;
- `MessagesKept`, which is about the texts themselves. It holds for the scripts of
  `wire`, where words are separated by single blanks. What `Cooked` makes of a text,
  by a rule for each position, and what `parse_message` makes of it symbol by symbol
  are compared by the run for every text of its letters that does not break.

## 5. What is not modelled, and other divergences seen

- The row past `fields` that a fourth field writes to (`protocol.c:40`): what the
  zero overwrites depends on the layout of the stack; `Scan` takes the outcome in
  which nothing that is used changes.
- INFO and STATUS symbol by symbol, tabs and carriage returns (`LineFormat` has
  /msg, /all and /list); in the other modules a line is the sequence of its fields
  and arrives whole or is lost.
- A foreign client that does not read: `send` then blocks, the monitor with it, and
  main never joins it (`inactivity.c:44`). The clients of `wire` always read.
- In `ChatSystem`, `pthread_create` of the client failing and a broken connection;
  `ChatClient` has both, against an abstract server.
- Command lines, `server_init`, and the failures before anything runs;
  `sessions_find_by_ip` and others nobody calls; the unlocked plain `int`s
  `running` (client) and `g_server_running` are taken as atomic and in order,
  as the build without optimisation (`CFLAGS` has no `-O`) makes them.
- Formatting, colours, the help text; the build.

Reading and modelling show these too, no run is spent on them:

- After `QUIT|x` the client gets BYE and its session goes on: `handlers.c:189` says
  the 1 returned for QUIT closes the session, `client_thread.c:93` takes it for
  success. The repository's client never sends a field with QUIT.
- After BYE or a lost connection the client stays in `fgets` until Enter
  (`input_loop.c:341`); `MARINES_LOG.md:77` says "El input_loop lo chequea y también
  sale".
- The INACTIVO notice goes to the idle client only (`inactivity.c:33-44`), while
  `tests/manual_test_plan.md:332` expects it at others.
- Any command of one who is INACTIVO makes it ACTIVO at the server
  (`client_thread.c:20-22`), and nobody is told, the client itself included, which
  goes on showing INACTIVO as its "Status actual" (`client.h:36`).
- BROADCAST loses its text: the handler sends the second argument
  (`handlers.c:99`), the parser puts the text in the first (`protocol.c:56-57`);
  `include/protocol.h:46` says "BROADCAST|<mensaje>\n".
- The INACTIVO notice, if it is sent before REGISTER is carried out, names
  UNREGISTERED; if it overtakes REGISTER_OK the client gives up (`GivesUp`).
- A backslash in a message is dropped, and before an `n` it makes a newline, so that
  one message typed is two lines read (`protocol.c:28-29`); the client escapes none.
- Both validators accept names of 32 characters (`validation.c:20`,
  `main_client.c:54`), the buffers of the client hold 31 (`input_loop.c:152`):
  nobody can write to such a user, and its client knows its own name cut
  (`main_client.c:181`).
- The stub loses the slot of every client that leaves unregistered or is refused
  for its name, so that it serves fewer than the "Capacidad: %d clientes
  simultáneos" it prints; two clients can get the same name, by a race or because the
  check reads the first `g_count` slots, whichever have names: with slot 0 taken by
  one who has not registered, a name in slot 1 is given again (`stub_server.c:137`);
  a MSG without text goes to whoever has
  reserved the first slot without a name.
- "Cuando input_loop retorna, state->running ya es 0" (`main_client.c:246`) is
  false after a failed send. After `/quit` the client sends QUIT twice.
  `ui_print_welcome` prints without `print_mutex`, the receiver beside it.
  `send(REGISTER)` has no `MSG_NOSIGNAL` (`main_client.c:157`). The comment of
  `ui_print_status_ok` says that `/help` shows `my_status`; nothing does after the
  welcome.

## 6. Plan

Done: `SessionTable`, `ChatServer`, its room (`ChatRoom`) and its service
(`ChatService`), the client, clients and server together, the lines symbol by
symbol, the stub, and the proofs of section 4, which cover every safety property
of the passing runs but those listed there as only model-checked. Left, in this order:

1. `MessagesKept` for all scripts whose messages have no backslash: with `FieldsAre` for
   the text as for the name, and an invariant that counts the messages from one user to
   another among the commands heard and the lines sent.
2. INFO and STATUS symbol by symbol in `LineFormat`.
