# TLA+ models of advanced_programming_ad2020

The repository holds the programs of a programming course and the libncftp
3.2.6 library that the final assignment uses.  Modelled are

* `src/extra_points/main.c`: a Taylor series summed by four threads;
* `src/final_assignment/keyForwarder.c`: a service that sends a file with
  libncftp from a second thread whenever the file changes;
* `src/libncftp-3.2.6/libncftp/`: the FTP client library, a protocol machine
  that talks to a server over two connections: opening and login, uploads,
  downloads, directory and question calls, tree walks, batches, the parser of
  listings and the line and file lists;
* `src/libncftp-3.2.6/sio/`: the socket calls with timeouts below it;
* `src/mission0/`: a registry of agents in memory with a dump in a file;
* `src/image_compression/`: a run-length code for images.

## Parts of the system

| part | state it keeps | operations | what is hard | what makes it correct | module |
|---|---|---|---|---|---|
| extra_points | ranges, one accumulator per thread, the result | create, sum, join, add | threads write what main reads; pthread_create may fail | each term is added exactly once; nobody writes after the join | ParallelSeries |
| keyForwarder | `finishedFlag` and the `FILE` in main's frame | fopen, create, poll, join; transfer thread | the thread uses main's frame; main polls a flag | the frame outlives the thread; the process ends | KeyForwarder |
| open / login / close | sockets, buffers, path cache, password, flags of `FTPConnectionInfo` | `FTPOpenHost`, `FTPLoginHost`, `FTPQueryFeatures`, `FTPCloseHost` | redials on top of what a failed dial left; ten firewall types; the server picks the order | a failure leaves nothing; passwords go to the right party; replies in step | FtpOpen |
| one transfer, reply by reply | control and data connection, caches (`hasPASV`, `dataPortMode`), `cancelXfer`, `dataTimedOut` | TYPE, PASV/PORT, STOR, blocks, ABOR, UTIME | cancellation, timeouts, lost peers, replies that nobody reads | a reply answers its command; `kNoErr` means stored; every call returns | FtpSession, FtpJob |
| uploads | local and remote file, the feature cache, batch times | `FTPPutOneF`: resume, REST, APPE, sendfile, temporary names, text, delete mode | kills and losses between two calls; a file edited between them; each rename may fail | no splice on the server; nothing deleted that is not there; the final name is never half a file | FtpStore, AsciiText |
| downloads | local file and its time, the feature cache, start points | `FTPGetOneF`, `FTPGetFileToMemory`, `FTPGetOneTarF`, `FTPListToMemory2` | as the uploads, with the other side's file changing | one version is put together here; nothing deleted there that is not held here | FtpFetch, AsciiText |
| simple commands, tree walks | the working directory and its cache, the feature cache, a walk's stack | `FTPChdir`, `FTPMkdir2`, `FTPRmdir`, `FTPDelete`, `FTPRename`, `FTPFileExists2`, `FTPFileType`, `FTPFtw`, recursive lists | a refusal in the middle of a walk; cached answers | the cache is true; a walk comes back; success means done | FtpTree |
| batches | two trees, the list of the files to move | `FTPGetFiles3`, `FTPPutFiles4`, `ComputeRNames`, `ComputeLNames`, `MkDirs`, `Ftw` | ignored results; one of several files fails; cancellation between two files | every file reaches its own place, nothing else is touched | FileBatch |
| listing parser | current directory, line and date | `UnLslR`, `UnLslRLine`, `UnMlsd`, `UnMDTM` | headers in three forms; years that are not written | the list read is the tree printed | UnLs |
| line and file lists | nodes and links, a vector | add, remove, join, sort, vectorize | chain and vector by turns | links and vector agree; sorted as asked | FileLists |
| sio | time left, bytes left, a line buffer | `SRead`, `SWrite`, `SRecv`, `SSend`, `SAccept`, `SConnect`, `SReadline`, ... | interruptions, partial transfers, packets cut anywhere | results tell what was moved, in time; lines as sent | StreamIO |
| mission0 | a list of agents, a dump file | add, add assets, dump, load | one past the end; a `next` never set; a dump cut short | a complete dump is read back; a load puts it behind the list | AgentRegistry |
| image_compression | a run-length code | compress, decompress | the last run; reading past the end | the decoder stays in its buffer | ImageRle |

They interact by calls: keyForwarder calls `FTPOpenHost`, `FTPPutOneFile` and
`FTPCloseHost`; a batch calls the transfers, the walks and the lists; the
library calls sio and Strn; an application's other thread or signal handler
writes `cancelXfer`.  The models are layered along these calls: FtpSession and
FtpOpen go reply by reply; FtpFetch, FtpStore and FtpTree take one exchange as a
step and remember only whether a reply is owed; FileBatch takes a transfer as a
step; KeyForwarder an upload.  The server, launchd and whoever writes the files
are outside and are modelled from what the code expects of them.

## Modules

### ParallelSeries (extra_points/main.c)

`SingleThread` is the sum on the main thread; `Spawn`, `SpawnFails`, `Join`,
`JoinGarbage`, `AddResult` are iterations of the loops of
`calculate{Cos,Sen}Multithread`; `WorkerStep` is one iteration of `cosFun` or
`senFun` on a worker.  A GMP number is the bag of the terms that were added to
it, which is all the equality of two sums depends on.  A join of a handle that
`pthread_create` never wrote either returns an error, which the code ignores, or
kills the process.

### FtpSession, FtpJob (io_put.c, rcmd.c, ftp.c, c_type.c, c_utime.c, io_util.c)

One logged-in connection over which the application makes `MaxPuts` calls of
`FTPPutOneFile` (binary, with `read` and `SWrite`), then `FTPCloseHost`.  `pc`
names the place inside the library; each action runs from one wait, send or
reply to the next, with everything the function does in between.  The control
connection is two queues; a reply carries the command it answers as a history
the client never reads: it takes the head.  The data connection is a pipe of
blocks of limited capacity.  Each wait (`select` with a timeout) has a step that
gives up.  `FTPShutdownHost`, which `GetResponse` calls in the middle of
anything, is part of `GetResponseFails`.

`GetResponseFails` may also come when a reply is merely late; with
`dataTimedOut` the code gives up at once, which is the same step.  The tests before
that (rcmd.c:185, 481) ask the socket and not SReadline's buffer, so a reply that was
read along with an earlier one may be overlooked (`MayBeBuffered`): the host is then
shut down, or the abort given up, with the reply there.

`loose` is a history variable: it is set when the client leaves a transfer that
the server had accepted without having read all the replies owed for it.  That
happens in three places: `AcceptFails`, an abort that was given up, and an abort
whose first reply was not a 4xx.  The safety properties about replies are stated
for `loose = 0`; what happens afterwards is in the list of disagreements.

`FtpJob` is what an application sees: a call begins, the server stores in its
own time, the call succeeds or fails and always returns.  `FtpSession!Job` is
the refinement mapping, `ImplementsJob` the property.

### FtpOpen (open.c, ftp.c, c_getcwd.c, u_shutdownci.c)

`FTPOpenHost` with its dial loop, `OpenControlConnection`, the login automaton
of `FTPLoginHost` (one action per group of reply codes, all ten firewall
types), `FTPGetCWD` twice, `FTPQueryFeatures` (FEAT, HELP SITE), `FTPCloseHost`,
and another `FTPOpenHost` on the same structure.  `acct` says whether the
application has set an account; `user` is a history: whose account the last USER on
this connection named (`both` for the firewall that takes both names at once), and
`refused` another: whose password a 530 has refused in this call.  Code 231 behaves as 230 and 532
as 332.  A null dereference is the state `crashed`.

### KeyForwarder (final_assignment)

`main` and `transferFile` as two processes over `finishedFlag`; `Launch` is
launchd with WatchPaths, which runs one process at a time and may lose a change
during a run.  libncftp is reduced to its results; that its calls return is
`OpenReturns` of FtpOpen and `PutsReturn` of FtpSession.  The flag is a plain int
that one thread writes and the other polls, formally a data race; the model
reads it again in every round of the loop, as the builds do, since the loop
calls `printf` and `clock`.

### FtpFetch (io_get.c, io_getmem.c, io_gettar.c, io_list.c, io_listmem.c)

One program that downloads one remote file, into a file, into memory, as a tar
or as a listing, call after call; it may be killed at any step and started
again, the connection may be lost, and the remote file may be replaced at any
moment (`Edit`): between the question for its size and the one for its time, between
the comparison and the RETR, while it is sent, before the DELE.  A server sends the
file it has opened to the end; one that writes into the file it is sending is not
considered.  A file is a sequence of blocks `<<version, number>>`, so that a splice is
visible.  `FactsByMlst`, `FactsBySize`, `FactsByTime` and `Probe` ask the server;
`Guess` and `Decision` are the comparison of sizes and times in `FTPGetOneF` with
its heuristics; `Decide...` opens, truncates or leaves; `NoDataConnection`,
`RetrRefused`, `AcceptFails` and `TransferStarts` are the ends of
`FTPStartDataCmd`; then one action per way a block, the end of the file or an
error can come.  `was`, `source` and `late` are histories: the files the remote one
has been during the call, the one whose blocks are under way, and whether the local
file was written to after that one had been replaced.  `taint` names the reasons for
which the code cannot keep the guarantee: append mode (`append`), a server that tells
no times (`undated`), a REST refused after it was accepted (`undo`), a replacement
between the comparison and the RETR (`raced`), and one during an earlier transfer
that never came to set the local time, so that the heuristic of io_get.c:251 resumes
a file that only looks young (`overtaken`).  The results are said of the file as it
was at some moment of the call.  `DecideToTar` leaves out the CWD back, whose result
the code drops.

### FtpStore (io_put.c, io_putmem.c, io_sendfile.c, c_utime.c, c_rename.c)

The same for uploads: resume with REST or APPE, binary with `read` or
`sendfile`, text, temporary names with the two renames and the DELE between
them, the time set afterwards, delete mode, batches that remember when they
first tried the file.  The local file changes between calls.

### FtpTree (c_*.c, rftw.c, rglob.c, rglobr.c)

The calls as operators on a record of the connection: the server's tree and
working directory beside what the library believes of them.  A call is a chain
of exchanges written with `Then`, in the order of the code; each command may be
refused for no reason or meet a lost connection, once per call (`MaxFault`
chooses at which command).  Listings are taken by their meaning.

### FileBatch (io_getfiles.c, io_putfiles.c, lglob.c, lglobr.c, ftw.c, u_mkdirs.c, linelist.c)

`FTPGetFiles3` and `FTPPutFiles4` between a local and a remote tree: the lines of
the pattern, the recursive lists, the names on the other side, directories
first, then a file a step, links last.  In tar mode a directory may come as an
archive first (`TarDirectory`, and `TarFails`, after which it is listed); tar itself
is external and may leave out what is in its way.  `job.slips` is a history of the ways in
which the code lost track without noticing (a list that broke off, a way back
that failed, a batch that was stopped, a tar that did not unpack everything): the properties are not said of those, and
the section on disagreements is.

### AgentRegistry (mission0)

The list, what its last `next` may hold, a dump that is written agent by agent,
and a load that reads line by line into buffers that may be too short.  A process
may be killed at any moment; what stdio had flushed of a dump by then is any
beginning of it.

### StreamIO, AsciiText, FileLists, UnLs, ImageRle

The sequential routines, composed for checking in MCRoutines.  StreamIO is a
machine whose steps are system calls that may be interrupted, give part of what
was asked for, time out or fail; `SReadline` runs on packets cut anywhere.
FileLists is a heap of nodes with the nodes that should be in each list beside it,
in order; a call of the library is an action, a loop along the links a recursive
function, and malloc gives any address that is free.  AsciiText (line ends across
blocks), UnLs (listings) and ImageRle are pure operators beside reference
definitions; they are recursive where the code loops.

## Runs

| run | question | bounds, and why they are enough |
|---|---|---|
| `series` | do the threads add what one thread adds | 3 threads of 2 terms: a range has an inside, and there is a thread between two others; one failed creation |
| `session` | do replies meet their commands; is what is reported stored | 3 puts of 2 blocks, a pipe of 1, 2 PASV attempts: a left-over of the first put can meet the next two, a write can block, the last attempt is reached |
| `session_job` | does the session implement FtpJob; does every call return | 3 puts of 1 block in kPassiveMode with another set of features |
| `open` | what do failed dials leave; who gets which password | 2 opens of 2 dials: what a dial or an open leaves meets the next one; all firewall types |
| `forwarder` | does the frame outlive the thread; does a run end | 4 changes of the file: several launches, with changes during a run |
| `fetch` | is a download one version; is what is deleted held | 2 calls over 2 sessions, 2 versions of up to 2 blocks: an interrupted call and one that resumes it, with a replacement at any step of either; a server with everything but MLST, which is asked SIZE and MDTM apart, and one with MLST and REST |
| `store` | the same on the server | 2 calls over 2 sessions, 2 versions of up to 2 blocks, both names |
| `tree` | is the cache true; does a walk come back; is what is reported done | 2 calls in a row on trees of depth 3 over two names with a link: the second meets what the first left; a fault at each of the first 5 commands |
| `agents` | is a dump read back | 2 agents of up to 2 assets, texts shorter than, as long as, and longer than the buffers |
| `batch` | does every file arrive at its own place | 2 batches of up to 2 lines on trees of depth 4 with two names, one fault |
| `routines` | do the routines meet their reference definitions | reads of 3 bytes with 4 events, buffers of 3, texts of every mixture of CR, LF and letters at every cut; 3 nodes a list may get by adding, and as many more when the lines become files: enough for a first, an inner and a last one; small listings with every form of header |
| `fetch_delete` | is a file deleted only after it was downloaded | as `fetch`; ends in a violation |

`CHECK_DEADLOCK FALSE` is given where the system stops: after the last allowed
call or change, when the host is closed, or after a crash.

Every property is guarded against emptiness by a mutant: a variant of one action
or operator with a plausible slip, kept beside it in the module, under which the
property fails.  The type invariants and the inductive invariants of the proofs
(`SeriesInv`, `SyncInv`, `StoredInv`, `OpenInv`, `HandshakeInv`, ...) are not
listed in the configurations, since theorems state them; adding them to an
`INVARIANTS` line checks them too.

What the properties leave out is said in their comments: each exception is a
place where the code does otherwise, listed next.

## Disagreements between the code and what it says

`fetch_delete` ends in a violation: with `kDeleteYes` a start point beyond the end
(io_getmem.c:59) or a decision to skip (io_get.c:288) deletes the remote file
although nothing was downloaded; the manual says "after the file is downloaded
successfully the remote file is deleted" (doc/libncftp.html:1503).

More are reproduced by configurations that are kept beside the listed runs, with the
properties that fail:

| configuration | property | what happens |
|---|---|---|
| `MCFtpSessionFalseOk.cfg` | `StoreSucceeded` | io_put.c:787: one reply left unread shifts all the later ones; a put takes another command's 2xx for its own ("The store succeeded;", io_put.c:804) |
| `MCFtpSessionPassive.cfg` | `PassiveIsReady` | ftp.c:1081: the last failed PASV connect goes back to `tryPort2`, where the loop does not run again: an unconnected socket is used ("If we did a PASV, we're ready to go.", ftp.c:1240) |
| `MCFtpSessionTimeout.cfg` | `TimeoutIsOfThisTransfer` | rcmd.c:180: `dataTimedOut` is still up while the next transfer waits for the replies to its commands |
| `MCFtpSessionPort.cfg` | `NoPortInPassiveMode` | ftp.c:1089: PASV is refused once; the next transfer sends PORT in kPassiveMode ("We don't do this automatically", ftp.c:1094) |
| `MCFtpSessionAbort.cfg` | `AbortReadsAllReplies` | rcmd.c:805 reads a second reply only after a 4xx; "Already read the post-transfer response" (rcmd.c:852) |
| `MCFtpSessionAccept.cfg` | `CommandGetsItsResponse` | rcmd.c:651: STOR accepted, data connection not; the final reply is read as the answer to the next command |
| `MCFtpOpenReopen.cfg` | `NeverCrashes` | open.c:69, c_getcwd.c:82: open, close, open indexes a null path ("so you won't leak if you OpenHost with this again.", open.c:660) |
| `MCFtpOpenPassword.cfg` | `RealPasswordSent`, `ZeroMeansLoggedIn` (with `-continue`, both) | open.c:376: a redial after a failed login sends the asterisks ("since we won't be redialing.", open.c:374); a login reply of code type 0 is returned as kNoErr (open.c:379) |
| `MCFtpOpenDenied.cfg` | `DenialEndsDialing` | open.c:268: for the firewall type UserAtUserPassAtPass the user's password goes out together with the firewall's and is counted as the firewall's only, so a refusal becomes kErrBadRemoteUser (open.c:295), and the call dials again and sends it again ("Non-anonymous login was denied, and retrying is not going to help.", open.c:956); `DeniedIsFinal` says that no other type does this |
| `MCFtpOpenDelayed.cfg` | `LoginInStep` | after a 120 greeting the 220 is read as the reply to USER (ftp.c:641) |
| `MCKeyForwarderDone.cfg` | `SomebodyTransmits`, `DoneMeansSent` (with `-continue`, both) | keyForwarder.c:37: `FTPOpenHost` fails, the flag is never raised, main polls for ever; "Done transmitting" after a failed `FTPPutOneFile` (keyForwarder.c:40) |
| `MCParallelSeriesSpawn.cfg` | `MultiMatchesSingleAlways` | an ignored pthread_create failure leaves a range out (main.c:136) |
| `MCFtpTreeRmdir.cfg` | `RmdirRemoves` | c_rmdirr.c:91: `FTPIsDir` answers 1 for a directory, any answer but 0 is taken for the end, and kNoErr is returned with nothing removed (doc/libncftp.html:2236) |

Met while modelling, and modelled as the code does it:

* Batches.  The result of the recursive remote list is ignored
  (io_getfiles.c:122): a list that broke off, or none, is a batch that returns 0
  although the manual says that all transfers succeeded
  (doc/libncftp.html:1564; `OkMeansAllFetched` of FileBatch fails); when
  `FTPGetCWD` fails before the first line, the list is not even initialized
  (rglobr.c:125).  A failed way back (rglobr.c:168) leaves later relative names
  to another directory.  A cancellation between two files ends the batch with 0
  (io_getfiles.c:129), or is erased by the next transfer (rcmd.c:549).  A failed
  local glob uploads nothing and returns 0 (io_putfiles.c:67).  A local file in
  the way of a symbolic link is removed before the link is known to be possible
  (io_getfiles.c:233).  The clean-up of empty directories does nothing, as
  `MCFtpTreeRmdir.cfg` shows.
* Opening.  A 332 or 532 is answered with the firewall's password when the application
  has set no account (open.c:291), also by the site itself after the firewall has let
  the user in, and for every type; the manual says so of firewalls of type 7 only
  (doc/libncftp.html:556), and of the account that it is for a server that requires one.
  `PasswordMatchesUser` excepts this and covers ACCT when an account is set.
* Downloads.  A file that is replaced while it is fetched, by a program that is then
  killed, is resumed into a splice when the heuristic for young local files is on
  (io_get.c:251), and so is one replaced between the comparison of times and the RETR.
  A refused REST cannot be undone on a file opened with O_APPEND
  (io_get.c:437).  A listing that times out leaves its socket and its reply
  (io_listmem.c:189), a refused restart into memory likewise (io_getmem.c:126).
  tar's exit status is not looked at (io_gettar.c:319), so a batch may count a
  directory as fetched that tar did not unpack.
* Uploads.  A resumed `sendfile` sends the whole file after the REST
  (io_put.c:483).  APPE under a temporary name is never renamed, and delete mode
  removes the local file (io_put.c:501, doc/libncftp.html:2028).  Between DELE and
  the second RNTO there is no file of the final name (io_put.c:815).
* Tree.  `FTPFileExists2` may learn from one refusal that STAT or NLST tells
  nothing; a rename of the working directory leaves the cache behind; a refused
  listing of a subdirectory is skipped without an error (rftw.c:65).
* sio.  kNoFirstSelect never selects (SRead.c:63); a timeout in the middle of a
  line loses its beginning (SReadline.c:127; the step is modelled, and `LinesAsSent`
  excepts the reader it has happened to); `SWrite` gives each select the whole
  time again (SWrite.c:62).
* Text.  An upload ends at a block that is a lone CR (io_put.c:629).
* Listings.  An absolute header does not shorten the current directory's prefix
  (unls.c:742); a 29 February and a date of next year are guessed a year off
  (unls.c:527).
* mission0.  The position one past the end is followed (util.c:363); `next` is
  never set (util.c:260, 501); a dump empties the file first (util.c:437); a load
  of a file without FileEnd never ends (util.c:530).
* image_compression.  A run is stored with the pixel that ended it, and the last
  run not at all (main.c:150): what is decompressed is another image.
  `DecompressionFits` says only that it stays in its buffer, of images of more than
  one value; for one value there is no block to read.

## Fairness

* ParallelSeries and KeyForwarder: weak fairness of each thread; both are
  runnable threads of an operating system, and what they call returns.  In
  KeyForwarder nothing is assumed of launchd or of changes.
* FtpSession and FtpOpen: weak fairness of the library's own steps and none of
  the server.  Each wait of the library ends by its timeout, and that step is
  enabled whenever the server is silent, so the library never depends on it.
  `Cancel` and the application's calls are not fair: `PutsReturn` and
  `OpenReturns` speak of calls under way.
* The other modules state no fairness: their calls end by the shape of the code
  (every loop is over a finite list or a file), and what they promise is safety.

## Proofs

Proved with TLAPS for every value of the constants (with the assumptions named
in the modules):

* **ParallelSeries_proofs**: `TypeOK`, `SeriesInv`, and from it
  `MultiMatchesSingle` and `NoWorkerOutlivesJoin`.  `MultiMatchesSingle` alone
  is not inductive: `SeriesInv` adds how far each worker's bag is
  (`WorkerProgress`), which workers exist at each loop (`LoopProgress`) and what
  the adding loop has (`AddingProgress`); the arithmetic is in lemmas on adjacent
  ranges.  It needs `RangesAssumption`: the thread count divides the terms.
* **FtpSession_proofs**: `TypeOK`; then, in this order,
  * `SyncInv`, `RepliesMatch`, `DataClosedBetweenCalls`.  `SyncInv` says for each
    place of the client what is in the two queues and what the server does; a
    mismatch is an effect of several steps, so a statement on the head of the queue
    alone is not preserved.  It holds while `loose = 0` and the host is open;
    `CanceledInv` is needed since a cancelled transfer reads no reply at its end;
  * `StoredInv` and `OkMeansStored`.  On top of `SyncInv`: blocks sent = blocks in
    the pipe + blocks stored (`BlocksInv`), the link in use is of this transfer
    (`LinkInv`), and after a reported success the server is idle (`SettledInv`);
  * `JobInv` and `ImplementsJobSteps`: every step is a step of FtpJob or a stutter,
    which is the safety half of `ImplementsJob`.  `JobInv` also holds once replies
    have been lost count of: the server takes the calls in their order
    (`QueueInv`), no call asks for a second store (`OnceInv`), and nothing is
    stored before the first call (`FreshInv`).
* **FtpOpen_proofs**: `TypeOK`, `HeldInv`, `FailureLeavesNothing`;
  and, for servers that never greet with 120, `OpenInv`, `LoggedInToSite`,
  `PasswordMatchesUser`, `OpenLeavesQuiet`, `DeniedIsFinal`.  `ExchangeInv`
  (at most one command or one reply is outstanding, and of the kind the place
  waits for) carries the account from the USER to the PASS;
  `RefusedInv` that a site's password on its way has been counted in `sentpass`, so that
  its refusal ends the call.  The premise on 120
  is necessary: `MCFtpOpenDelayed.cfg` breaks the exchange.
* **KeyForwarder_proofs**: `TypeOK`, `HandshakeInv`, `FrameOutlivesThread`,
  `DoneAfterClose`.
* **FtpFetch_proofs**: `TypeOK` and every invariant of the run `fetch`.
  The remote file may be replaced at any step of a call, so the invariant is about
  the set `was` of the files it has been during the call.  `WasInv` says which those
  are and that two of one version are one; `TimeInv` that nothing is dated later than
  now and later versions have later dates; `ViewInv` that what the server told was
  true of a file of the call; `LinkInv` what is open at which place, and of which file
  the blocks under way are (`source`); `LocalInv` that an untainted local file is a
  beginning of one version (`Ours`), that unless it is `late` no replacement of the
  file it comes from is older than it (`Dated`), and whose it is while it is looked at
  and fetched (`Looking`, `Fetching`); `GetInv` and `MemInv` what a call that has come
  to a place has received by then.  `Movement` sorts the steps by what they do to the
  remote file and to the set, so that the proof of each part only looks at the kinds
  it cares for.  `NeverSpliced` alone is not inductive: a resume is right because of
  what the dates say about the earlier calls.
  `NeverSpliced`, `OkMeansFetched` and `DeletedMeansHeld` need `Gap > 1`: two
  changes within the tolerance of one second (io_get.c:186) can be confused, and
  then they fail.  `FromTheBeginning` says that listings and tar archives have no
  start point, as the parameters of `FTPListToMemory2` and `FTPGetOneTarF` do not.
* **FtpStore_proofs**: `TypeOK` and every invariant of the run `store`, by the same
  argument on the other side, under the same `Gap > 1` (in `TimeAssumption`).  The
  inductive invariant is `TypeOK` with eight parts: `TimeInv` (nothing is dated
  later than now), `CallInv` and `ResultInv` (which calls come to which place with
  which result), `ViewInv` (the size and time the server told still hold, and a
  start point is not beyond its file), `FileInv` (an untainted remote file not
  older than the local one is a beginning of it, any other a beginning of some
  version), `PutInv` (the file under the name in use is what was there at the
  start and the blocks sent so far), `StoredInv` (`OkMeansStored`,
  `DeletedMeansStored`, and what the renames still have to move) and `FinalInv`
  (the final name holds a whole file as long as every upload uses a temporary one).  `FinalNeverPartial` follows only from all
  of them: the rename at the end gives the final name whatever the temporary one
  holds, which is complete because of what a resumed call found there.
* **AgentRegistry_proofs**: `TypeOK`, `ReadsBack`, and from the invariant of the latter
  `LoadedBehind`: a load that has come to the end mark of a complete dump has all its
  agents, and hands them to `addAgentToList`.  (TLC agrees when `LoadedBehind` is added
  to `MCAgentRegistry.cfg` as a PROPERTY.)  `ReadsBack` needs the whole way of the lines through the file, in five
  parts beside `TypeOK`: `DumpPlace` (a dump is at an agent of the list);
  `SettledInv` (no field changes when it is converted once more, and no asset is a
  mark); `DumpInv` (what has been written is of the list so far); `FileInv` (there
  are line numbers `starts` at which the agents of a complete dump begin, one line
  after the mark of the one before, and a load stands at the line that the agents,
  fields and assets it has make up); `ReadInv` (a load that ended has got the dump).
  The line numbers turn "read one line, write one line" into arithmetic, so no
  induction over the file is needed: each step moves the load by one line.  The
  proof showed that the condition on the dump has to speak of assets too: the rest of a name that
  is too long can come back as an asset of 14 characters, which is split the next time
  it is dumped and loaded, so `Fits` asks that assets fit as well as fields.
* **Routines_proofs**, of StreamIO: `ResultsAreTrue` and `InTime` for any buffer sizes, limits,
  delays and number of system calls.  The constants are assumed to be numbers
  (`ValuesAssumption`; a size is above zero, as the first checks of the routines
  demand).  The inductive invariant `CallInv` says of a call that has not returned
  that the bytes moved are the bytes off the count, that a read which need not fill
  its buffer has none yet, which descriptors are open (`CountInv`), and, where the
  call has a limit and no signal has come, that time is left and the call knows how
  much (`TimeInv`).  `Right` is what one event must make of a call; each routine has
  a lemma that it does, and the small steps the routines share (a transfer that
  ends or goes on, a wait that runs out) one each.  The proof showed that CASEs with
  guards that overlap had been read as if the first one won, which TLA+ does not
  say: the guards of the sequential routines are apart now, or nested in the order
  of the code.
* **Routines_proofs**, of StreamIO's `SReadline`: `LinesAsSent` for every text, every room
  for a line, every size of the reader's buffer and every way the text comes in
  packets (`ValuesAssumption`: a line has room for a byte before its final zero).
  What the lines are is said by `Cut`, which knows nothing of packets or buffers.
  The inductive invariant `LineInv`, checked with TLC on all texts of up to six bytes
  before it was proved, says of a reader at place p of the text (`Place`: what has
  neither come nor been scanned is the rest) that it is where `Cut` is after p bytes
  (`Holds`): it has returned the lines cut so far, and pieces of the line under way where
  no line end is required, and its line buffer holds the rest of that line, or the
  beginning that fits (`At`).  `AtByte` and `HoldsByte` say what one byte does to this,
  `ScanGoesOn` that the loop over the bytes does the same, `ScanEnds` that so does a
  whole buffer, `ScanKeepsLines`, `FillLines`, `NextLines` and `LastLines` that the calls
  do.  A text is `Tidy` when no line of it has two bytes that SReadline counts as
  illegal, for then it gives the line up (SReadline.c:117), and its last line is not one
  such byte alone; `SeenIllegal` keeps track of the count.  A read that fails within a line makes the next
  call begin in the middle of it (`lost`); the invariant, and the property, speak of
  readers to which that has not happened.  The property had asked that
  of the whole text, one illegal byte at most and none before a last line feed: the proof
  needs it of each line only, so it is stated, checked and proved for those texts now.
  `Cut` and the scan are recursive functions where they were folds, and a byte is met by
  one lemma; induction over the text is by a first place that goes wrong (`FirstBreak`).
* **Routines_proofs**, of FileLists: `ListsHold` for any items, any number of nodes
  and any sequence of calls (`ListsAssumption`: items are records of numbers).  The
  inductive invariant `ListInv`, which TLC has checked on the instance of the run, is
  about the heap (`HeapInv`: its nodes are those of the two histories, and no node is
  in both), the lines (`LinesInv`) and the files (`FilesInv`).  A list is the
  history's path of nodes when `Chained`: first, last, count and every `next` and
  `prev` are those of the path, by position (`Succ`, `Pred`).  `ListsHold` is not
  inductive for a list that is a vector: the property then says nothing of the links,
  and yet `UnvectorizeFileInfoList` leaves `last` alone when the vector is empty
  (linelist.c:461) and `DisposeFileInfoListContents` walks along them
  (linelist.c:160).  `LinksOf` says what they are: those of a path of the same nodes in
  another order.  `SortInv` says what `sortKey` stands for.  Adding, taking out,
  relinking and freeing have a lemma each (`AddLineFacts`, `RemoveLineFacts`,
  `RelinkedFacts`, `WithoutFacts`) that also says which nodes they leave alone; every
  action is then one of them on one list and a frame lemma for the other.  `WalkFacts`
  and `AddEachFacts` show that the recursive functions which stand for the loops over
  a list meet its nodes: existence by a witness, uniqueness by a smallest
  counterexample (`Smallest`, from the well-foundedness of `<`).  For the proof the
  module lost its RECURSIVE operators; removing speaks of positions, addresses that
  were freed are given out again, files made from lines have no size and date yet
  (`InitFileInfo`), and that no link leads to a freed node is now said of vectors too.
* **Routines_proofs**, of ImageRle: `DecompressionFits` for every image whose pixels have
  one to four bytes, which the trials of the run `routines` have in a few sizes.  That the
  file lacks its last run (main.c:150) does no harm to the buffer, and the proof says why:
  the counts of its blocks are 1 to n - 1 for an image of n pixels (`RunsOf`,
  `CountsBounded`), so n turns are enough and the last one, which starts below n, ends
  below 2n - 1 (`Enough`, `UnpackEnough`); the four bytes allocated for a count beside
  each pixel (main.c:187) have room for as many pixels again only while a pixel has no
  more than four.  With larger pixels the statement is false.  The loops over the pixels
  and over the blocks are recursive functions for it, met by one lemma each
  (`CompressRecursion`, `UnpackRecursion`).

Only model-checked: liveness (fairness and ENABLED are out of the prover's
reach), so of `ImplementsJob` the other half, that a call returns; the invariants
of FtpTree, whose walks are RECURSIVE operators; the invariants of FileBatch,
which speak of folds over lists of any length (induction over data is out of the
prover's reach); and of the run `routines` the trials on whole texts and listings
(`SplitInvisible`, `UploadIsNetText`, `ListingReadBack`, `DatesReadBack`), which are folds
or recursive.

## What is left out, and why

* The server answers in order and at most as FTP allows; a client-side model
  against arbitrary replies would satisfy nothing.
* One transfer: names with spaces (a workaround in `FTPUtime`), an error of
  `select` itself while an abort waits, failed allocations, addresses in PASV and
  PORT, and a reply that does not begin with a digit (rcmd.c:231), after which the
  host is not shut down: servers write replies that begin with their code.
* Downloads: an Lseek on the local file that fails, which it does not on a file.
* Uploads and downloads: the resume callbacks, a descriptor passed in by the
  caller, a local file edited during a call, a remote file written to in place, late data of an old connection.
* Opening: `maxDials < 0` (dial for ever), the passphrase callback, the user name
  "ftp" (anonymous for FTPLoginHost but not for FTPOpenHost), `leavePass`, features parsed from replies, the error for a path that is
  too long.  `fatal:` in `OpenControlConnection` closes a descriptor that
  `GetResponse` has closed already (ftp.c:659); descriptors have no numbers here.
  `case 421` in `FTPLoginHost` is dead: `GetResponse` turns a 421 into an error.
* `finishedFlag` of keyForwarder is a plain int that one thread polls; the model
  reads it again in every round, as the builds do (keyForwarder.c:67).
* FTPRemoteHelp, FTPUmask, FTPSymlink, FTPOpenHostNoLogin: one command and one
  reply without a state of the library; host name look-ups and socket options of
  sio.
* Not modelled at all: the string, path and error helpers (`u_*.c`, Strn) and the
  exercises (`p2_practice`, `ejercicios_octubre_5`), short functions without state
  between calls; the samples, which only call the library; build files.
