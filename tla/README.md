# megatools: a verification development

megatools is a set of command line clients for the Mega.co.nz storage service,
written in C over GLib, libcurl and OpenSSL. This directory holds TLA+ models
of its core logic, the TLC configurations that check them, and TLAPS proofs of
their main properties. `PROJECT.json` maps every modelling definition to the
source lines it stands for.

## 1. The system

| component | source | state it keeps | operations |
|---|---|---|---|
| Persistent HTTP client | `mega/mega-http-client.c`, `mega-http-{io,input,output}-stream.c` | `conn_state`, one connection, host/port/https, byte counts left of request and response, response headers | post, write, read, get_response_length, close; `goto_state` inside them |
| Simple POST | `mega_http_client_post_simple` | none of its own | one request, one whole response |
| API calls | `oldmega.c:1190-1422` | `id`, `sid`; the backoff delay during a call | api_call = build, api_request (retry), api_response_check |
| Session filesystem | `oldmega.c` | `fs_nodes`: list of nodes with parent pointers | refresh, stat, ls, mkdir, rm, put, addlinks |
| Node import, share keys | `oldmega.c:1611-1856` | `share_keys`, master and RSA key | mega_node_parse, mega_node_parse_user |
| Session open, close, cache | `oldmega.c:1969-2357, 3664-3903`, `tools.c` | keys, sid, `last_refresh`; the cache file in the temp directory | open, close, get_user, load, save, tool_start_session |
| Transfers | `oldmega.c:2905-3552`, `http.c` | local file, cipher and MAC state | put, get, dl; upload and download over libcurl |
| Chunked CBC-MAC | `mega-chunked-cbc-mac.c`, `oldmega.c:908-1041` | position, next boundary, chunk index, chunk and meta MAC | setup, update, finish |
| Paths | `oldmega.c:1497-1585` | none | sanitize, simplify |
| Directory copy | `tools/copy.c` | none | recursive upload and download |
| FUSE filesystem | `tools/fs.c` | one global session | getattr, readdir, mkdir, rmdir, unlink, ... |
| Registration | `oldmega.c:3909-4146`, `tools/reg.c` | registration state printed by the first run | register, verify |
| JSON | `sjson.c` (lexer generated into `sjson.gen.c`) | generator buffer and nesting | parse, path, generate |
| Crypto keys | `mega-aes-key.c`, `mega-rsa-key.c` | key material | encrypt, decrypt |
| Tools | `tools/{df,ls,mv,mkdir,rm,get,put,dl}.c` | options; `megadl` a status callback | one session operation each, then save |

How they interact: a tool starts a session (cache file, else login and
refresh), calls session operations on paths, and saves the cache. A session
operation looks paths up in `fs_nodes`, makes one or more API calls and then
updates `fs_nodes`. An API call is one or more simple POSTs on the one HTTP
client of the session, which keeps its TCP connection from request to request.
Transfers use libcurl beside it. All of this is synchronous and single
threaded, except megafs, whose FUSE callbacks share one session.

What is hard: the connection outlives requests and errors; the server may
answer early, cut short or hang up between any two socket calls; a command may
have been carried out although its answer was lost, and is then sent again; the
node list is a copy of a tree that others change; several processes share a
cache file; a transfer may fail at every step.

What makes each component correct:

* HTTP client: state and connection agree; bytes of one exchange never reach
  another; an error is followed by a new connection; every call returns.
* Simple POST: the whole answer to this request, or an error; nothing stays open.
* API call: bounded retries; success means the command was carried out; it is
  repeated only after an answer was lost.
* Session filesystem: parents are current; the list follows the server, but for
  what a removal leaves in it, unless the server changed unseen; what was created
  is found.
* Node import: no share key is taken from an 'ok' entry whose handle nobody
  vouched for, from an entry that is skipped, or from another share's; every
  node whose key can be had is imported.
* Cache: no tool works on a list, or starts on a dead session, older than the
  timeout; the file differs from the account only by what others did.
* Registration: an account that was confirmed has its own address and password
  and can be signed in to; its RSA key is never replaced.
* Transfers: a file that is there and reported complete is the remote file; an
  error leaves nothing; no other file is touched; a node describes its bytes.
* MAC: the result depends on the bytes, not on how they were split.
* Paths and listing: what is listed is what the path names.
* Copy: what was not copied was reported, as far as the error names it; nothing
  that was there is replaced; a dry run says what the run will do.
* JSON: valid is the grammar; pointers stay inside the value they walk; what is
  built or generated reads back as what was asked for.

## 2. Modules

| module | models | built on |
|---|---|---|
| `HttpClient` | the client, its connection, the server and network behind it | - |
| `HttpExchange` | abstract: what post_simple promises | - |
| `PostSimple` | post_simple as a caller of the client; refines `HttpExchange` | `HttpClient`, `HttpExchange` |
| `ApiCall` | one API command with retries, over the outcomes `HttpExchange` promises | - |
| `SessionFs` | the node list, its operations, the server's tree, other clients | the outcomes of `ApiCall` |
| `SessionCache` | how tools get a session and leave one: load, open, refresh, save on one cache file | - |
| `Registration` | the two steps of megareg | - |
| `NodeImport` | how an answer's entries and keys become nodes | - |
| `Paths` | path_simplify, node paths, ls, stat, children, as operators | - |
| `Listing` | megals and addlinks | `Paths` |
| `MacBlocks` | blocks and their padding, as operators | - |
| `Download`, `Upload` | get and dl; put's data path | `MacBlocks` |
| `ChunkedMac` | the chunked CBC-MAC | `MacBlocks` |
| `DownSync` | dl_sync_dir, dl_sync_file: actions shared by the next two | `Paths` |
| `Copy` | megacopy, both directions, dry runs | `DownSync` |
| `LinkDownload` | megadl's command line of links | `DownSync` |
| `JsonScan` | the generated scanners of characters | - |
| `JsonText` | every short text through the scanners | `JsonScan` |
| `JsonSyntax` | tokens and s_json_is_valid over them | - |
| `Json` | reading over tokens: iteration, paths, pretty printer | `JsonSyntax` |
| `JsonBuild` | s_json_buildv | `JsonScan`, `JsonSyntax`, `Json` |
| `JsonWriter` | abstract: what the generator promises | - |
| `JsonGen` | the generator; refines `JsonWriter` | `JsonSyntax`, `JsonWriter` |
| `MC*` | instances for TLC | the modules named below |
| `*Proofs` | theorems; `HttpClientProofs` also those about `PostSimple` and `ApiCall`, `CopyProofs` those about `Paths`, `Copy` and `LinkDownload`, `TransferProofs` those about `Download`, `Upload` and `ChunkedMac` | the modules named, `TLAPS` |

`MCTransfers` (Download, Upload, ChunkedMac), `MCNodes` (NodeImport, Listing),
`MCCopy` (Copy, LinkDownload) and `MCJson` (Json, JsonText, JsonBuild, JsonGen)
hold several specifications side by side. Those share no state that both use: the
first state decides which of them runs and the others stay as they are, so that
their numbers of states add up and do not multiply.

Properties named for an idea, such as `Connected` or `Framing`, are
conjunctions of named parts that stand next to them in the module.

### HttpClient

`connState`, `host`, `expectedWrite`, `expectedRead`, `responseLength` and
`headers` are the fields of `MegaHttpClientPrivate`; the states keep the
numbers of the enum because `goto_state` compares them. `peer`, `srvReq`,
`srvLeft`, `rx`, `broken` are the connection: whom it goes to, what the server
is receiving, the responses on the way. Body bytes are counted, not
represented; each response remembers which request it answers. A URL is the
host/port/https triple the code compares.

A public call is split at each socket operation: `Begin` makes the checks of
`goto_state` before its loop, `SendHeaders`, `FinishBody` and `ReceiveHeaders`
are the iterations of the loop, and `WriteBody`, `ReadBody`, `GetLength` what
the call then does. `Post` is one action: it touches the network only to
connect, and the new connection is empty. `Close` is `mega_http_client_close`.
The server (`Respond`) answers what it has received, or refuses it early, with
a response whole or cut short; `Break` ends the connection at any time, with
what was on the way delivered or lost. A write on a connection the peer has
ended may be lost in silence, as TCP allows. Content-Length goes through
`Atoi`, which wraps at `IntRange`, the number of values of a C int.

Where a length wraps, body bytes stay on a connection that is kept, and the
client reads them as the headers of the next response. They are any text:
`ReadLeftover` has them refused, waited on for the end of a line, or read as
headers with any length, which may end inside them or with the next response's
own (whose bytes before the body `HeaderLength` counts). Of the runs, only
`simple_wrap` has such lengths, so only there this branch is taken; the types,
`Connected`, `NothingLeftOpen` and `FreshAfterError` are proved with it.

Callers may keep a stream after a later POST (`Exclusive = FALSE`), which the
comment at `mega-http-client.c:30-32` warns about and nothing prevents.

Left out: URL syntax (an invalid one is refused before any state is read),
request header contents, cancellables (always NULL in the code), the `force`
argument of close (always FALSE).

### PostSimple and HttpExchange

`PostSimple` runs the client's actions as steps of one call: post, write_all in
as many writes as the socket needs, headers, the checks on the length, read_all
until the expected bytes or the end of the stream, unref. `HttpExchange` is
what a caller relies on: each request ends once, with an error or the whole
body of its own answer, at most `MaxSimple` long. `Promise` is the refinement
mapping; the run checks `HttpExchange`'s specification, liveness included, as a
property.

### ApiCall

`Call` is api_call up to api_request, `Attempt` the part of api_request_unsafe
before the POST, `RequestLost`/`AnswerLost` a POST that fails before or after
the server had the command, `HttpFailed` the mapping of errors, `Receive` and
`Check` the classification of the answer, `Pause` and `Backoff` the retry.
`Execute` and `Decline` are the server; commands have no identity it could use
to recognise a repetition (`s->id` changes with every attempt).

### SessionFs

`local` is `s->fs_nodes` in order. A node's parent pointer is represented by
the handle it points to; `UpdatePathmap` is `update_pathmap`. `Refresh` reads
the server's tree in any order it may list it. `Mkdir`, `Rm` and `Put` are the
checks before the API call, `Succeed` and `Fail` what follows it; in between
`Run` carries the command out, more than once if it is repeated, and
`OtherClient` changes the account. `drift` records that the server changed in a
way the session was not told of. /Trash behaves as /Root; file contents, keys
and attributes are left out; paths are sequences of at most three elements.

### SessionCache

Tools in `Procs` run beside each other over one cache file. `Load` is
mega_session_load with its age check, `Login` the open, `GetUser` and `Refresh`
the two calls that follow, `SaveStarted` the save of tool_start_session, `Work`
the tool's own changes, `Finish` the save at its end and `FinishReading` the
end of a tool that saves nothing. A `last_refresh` of 0 never times out, as in
the code. The server ends sessions (`EndSession`), `OtherClient` changes the
account, a tool may be killed at any step (`Crash`), the file may disappear
(`FileLost`), time passes (`Tick`). Each list remembers when it was read, which
the code does not know; the properties compare that with `last_refresh`.
Lists are sets of items: keys and user data come with the session id.

### Registration

Each API call of register and register_verify is an action (`Register` to
`RequestLink`; `Verify` to `SetKeys`), and any may fail, carried out or not
(`Fails`). The second step takes any state that was printed with any link that
was mailed, also one of another registration. Registrations are numbered, and
what belongs to one (master key, challenge, link, account) carries its number.
The printed state is taken as it was printed; its parsing is left out.

### NodeImport, Paths and Listing

`NodeImport` reads an answer entry by entry: `Begin` is what happens with the
'ok' array, `Import` mega_node_parse with add_share_key, key part by key part.
`shareKeys` stays from refresh to refresh as `s->share_keys` does, and an
exported folder's answer (open_exp_folder) is the second kind of first state.
`RefreshFails` is an answer without an 'f' array, whose 'ok' array is taken all
the same; `OpenFolderFails` is a link whose key is none or whose call failed,
after the session was closed.

A key is named by the share it is the key of. handle_auth vouches for the handle
of an 'ok' entry only (`ha`); the key beside it (`k`) may be any, and so may the
`sk` of an entry of the 'f' array. The code checks neither, so a wrong one takes
the place of the key held (`OkKeys`, `WithShareKey`); a part encrypted for that
share then gives no attributes, and the node is skipped. An entry without
attributes or without a key is skipped before its `sk` is looked at. For each
handle the 'ok' array has one entry here, the one that decides. `NoForgedKey`
says where a share key can come from, not that it is right. `Complete` asks of
the nodes of a share only if the answer gives that share its own key and no
other (`Readable`): the rest of the answer may then be wrong in any way. A part
for an unknown share overwrites the key that was found with nothing, as the code
does; `Readable` excludes those nodes.

`Paths` takes a path as a sequence of slashes and names. `Simplify` is
path_simplify with the two quirks that matter to callers ('..' at the top,
relative paths), `NodePath` mega_node_get_path, `Ls`, `Stat` and `Children` the
look-ups. `Listing` is megals: gathering for each argument, sorting, the
export command over the gathered list, and printing. `Forest` says what a list of
nodes is: no two have a handle, each parent pointer leads to a node of the list
that is no file, and no name is "." or ".." or has a slash, as mega_node_parse
sees to (`oldmega.c:1797-1806`). It takes for granted what the server sees to:
that no node is below itself, and that no name is empty.

### Download, Upload, ChunkedMac

`Download`: several tools fetch one remote file, each step of get/dl and of its
data callback an action. `Answer` is what the storage server sends (nothing, an
error page, other bytes, less, or the file), `Empty` the retry in http.c with
its doubled delay, `Crash` a kill. The result of g_file_delete is ignored by
the code; the model takes it to succeed. A byte is 0 or 1, padded with zeros to
blocks before the MAC. `Upload`: the size is read once (`AskUrl`), the file
piece by piece (`Send`), the user may change it in between (`Change`), the node
carries the MAC of what was read. libcurl is external.

`ChunkedMac` has both copies of the MAC (`sealed` tells them apart: the object
in `mega/` stays finished after finish, also through setup). AES is an
injection, so that a chunk's MAC is the bytes that went in. `Reference` cuts the
bytes where the protocol says a chunk ends, and the result is compared with it.

### DownSync, Copy, LinkDownload

`todo` is the recursion: the calls still to make, innermost directory first,
as the children of a directory are visited in full when it is entered. `Copy`
adds main, the upload (`UpDir`, `UpFile`) with the checks of mkdir and put on
the session's list, and a dry run that is followed by the real one. A line about
a local directory names it by g_file_get_relative_path, which is NULL for the
one the tool was started for (`RelativePath`). What is neither a file nor a
directory is skipped (`UpSkip`) with a line that names the directory it is in
and not the file, so nothing if that is the top; `skipped` pairs the file with
what its line names. `foretold` is empty before a dry run and then the one set
of lines it said, also when that set is empty.
`LinkDownload` goes through the links of megadl: a folder link replaces the
session, and the status callback with it. In both the user may put files of
their own into the local directory meanwhile, and any call may fail. `Accounted`
is what both promise of the nodes below the remote directory (`Under`), each at
its own path (`PathBelow`).

### JSON

`sjson.c` builds no tree: a value is a pointer into the text. `JsonScan` models
the compiled automata on characters, with the position they take back to when a
longer match fails, and GetString, the escapes and the compact printer;
`JsonText` compares them with the regular expressions in `sjson.c`. On top of
the tokens, `JsonSyntax` has the parser, as a function on the places from which
its three loops read; `Json` has the iterators over elements and members,
s_json_path and the pretty printer. `JsonBuild` is s_json_buildv item by item,
`JsonGen` the generator, whose commas are written behind every value and taken
back by looking at the last character. `JsonWriter` is what a caller that nests
its calls well may expect, and `JsonGen` refines it.

## 3. Runs

All bounds are CONSTANTS of the configurations.

| run | bounds | why they are enough |
|---|---|---|
| `http_streams` | 2 hosts, 3 POSTs, bodies 0 or 2, buffers 1 or 2, ints of 8 values | a body can be split, a host can change and change back, an old stream can meet a newer request in every state |
| `simple_promise` | 3 requests, limit 2, lengths 0, 2, 3 | below, at and above the limit; a request after every way the last can end |
| `simple_wrap` (violation) | the same with length 9 | it wraps to 1 |
| `api_call` | 2 commands, the delays of the code | the real constants; the second command starts from whatever the first left |
| `fs_tree` | 3 handles, 2 names, 1 contact, 5 nodes at most, a command carried out at most twice | a folder in a folder with a file, names in conflict, an orphan after a removal, a contact beside them |
| `fs_conflicts` (violation) | 2 handles, 1 name | the counterexample is two uploads |
| `session_cache` | 2 tools at a time, 3 runs, 1 item, 2 session ids, timeout 1, time to 3 | a tool can overlap with two others, a list can be renewed and then time out, a session can be ended and replaced |
| `registration` | 2 registrations, 2 addresses, 2 passwords, 3 runs of the tool, one at a time | states and links can be mixed up, a second step can be run again after any failure |
| `transfers` | 2 downloads of up to 2 bytes in blocks of 2 to one path; uploads of up to 3 bytes in buffers of 2, 2 changes; MACs of up to 8 bytes in blocks of 2, chunks of 1, 2, 2 blocks | whole and padded blocks, a retry, a race for the path; a file that shrinks or grows between two pieces; two chunk boundaries and a third chunk begun, at the size that no longer grows |
| `nodes` | answers of 2 entries with keys of 2 parts, 2 refreshes; listings of listed trees by every path of 6 symbols | a share root before and after its child, a key from the refresh before, a wrong key over a right one; '/', '.', '..' in every combination |
| `copy` | local trees of two levels, listed remote trees, 1 file of the user, 3 links at most | a directory in the way of a file and the reverse, remote nodes of one name, a link on either side of a folder link |
| `json` | texts of 9 tokens and their neighbours by one token, texts over 5 alphabets of 5 to 7 characters, formats of 8 items, 10 generator tokens | arrays in objects in arrays with elements after them; every transition of the automata with a match taken back |

The longest are `fs_tree` and `json`, a few minutes with coverage.

What each passing run shows, beside what its name says in `PROJECT.json`:

* `http_streams`: `Connected` (state, connection and host agree), `Framing`
  (nothing of an earlier exchange is left on a connection that is used again;
  the client and the server agree on what is left of both bodies),
  `ReconnectAfterError`, `AnswersOwnRequest`, `CallsReturn`.
* `simple_promise`: `PromiseSpec`, the refinement, and `NothingLeftOpen`.
* `api_call`: `ResultIsTrue` and `RepeatedOnlyAfterLoss` relate what the caller
  is told to what the server did; `BoundedRetry` bounds the time spent.
* `fs_tree`: `WellLinked`, `Coherent` with the server while nothing drifted,
  `CreatedIsFound`.
* `session_cache`: see `FreshWhenServed`, `DeadSessionTimesOut` and
  `CacheFollowsTools`: the last names every way the cache may lag behind.
* `registration`: `ConfirmedIsOwn`, `VerifiedSignsIn`, `KeysSetOnce`.
* `transfers`: `DoneIsWhole`, `NoLeftovers` (only a killed tool leaves a partial
  file), `OthersUntouched`; `NodeIsSound`; `MacIdentifies`.
* `nodes`: `NoForgedKey`, `Complete`, `PrintsWhatPathsName`.
* `copy`: `DownloadAccounted`, `UploadAccounted`, `LinksAccounted` (what is
  missing afterwards was reported, and what an upload adds is apart from all
  else), `NothingOverwritten`, `DryRunForetells`.
* `json`: `ValidIsGrammar` on both sides of the border of the language,
  `FollowsStructure`, `TokensAgree`, `BuildsWhatItShows`, `WritesAsPromised`.

The violation runs show where the code does something else than its own text
says; `PROJECT.json` quotes the line under "findings":

* `simple_wrap`: a Content-Length beyond 2^31 passes the 256 MiB limit;
* `fs_conflicts`: conflicting names are not extended by the node handle.

Other places where text and code differ, which the models follow the code in
and no run is spent on:

* the comment on `goto_state` (`mega-http-client.c:403-419`) excludes leaving
  the failed state for a new connection, which the function does;
* `docs/remote-paths.txt:38-39` puts contacts below /Contacts, they are listed
  at the top;
* `docs/megarm.txt:21`: what was in a removed folder stays in the list until
  the next refresh;
* `docs/megatools.txt:100-102` names other computers as the reason for a cache
  behind the account; tools of one user that overlap are another
  (`CacheFollowsTools`);
* `docs/megacopy.txt:41-42`: a dry run of a download announces every one of
  several remote nodes that share a path, the real run takes the first (the
  exception in `DryRunTellsAll`);
* `docs/megadl.txt:43-44`: the names of downloaded files are not printed after
  a folder link that could not be opened (the condition of `PrintsWhileWatched`).

Deadlock is checked in the `SessionFs` runs. Elsewhere the system may stop:
callers end (`MaxRequests`, `MaxCalls`, `MaxRuns`), a copy or a listing is
done, a download waits for a server that says nothing.

Symmetry is used over handles and names in `SessionFs`, over tools, items and
session ids in `SessionCache`, and over tools in `MCTransfers`: the
specifications treat them alike, and none of these runs has a liveness property.

### Fairness

`HttpClient` assumes that a call in progress runs on (`WF_vars(InCall)`): each
socket call returns because the client sets a socket timeout of 60 s
(`mega-http-client.c:1017`). Nothing makes callers call or servers answer.
`PostSimple` assumes one thread running the call to its end. `ApiCall` assumes
that the attempt returns, which is `PostSimple`'s liveness property.
`SessionFs` assumes that a command returns, which is `ApiCall`'s. The other
modules assume nothing: no property of theirs says that something happens, and
a transfer over libcurl need not end, as no timeout is set.

## 4. Proofs

`HttpClientProofs` proves for every set of hosts, lengths and buffer sizes and
every width of int, from `ConstantsAssumption` only:

* `TypeCorrect`: `TypeOK`, with `SameCount` (the server waits for no more than
  the client has left to send) added to make it inductive: without it
  `srvLeft \in Nat` is not preserved by a write.
* `ConnectionMatchesState`: `Connected`, inductive with the types.
* `FreshAfterError`: the action property, from `Linked`.
* `FramingAgrees`: `Framing`, under `FitsInt`: no announced length wraps. With
  one that does the two sides count differently, as `simple_wrap` shows from
  the caller's side. The three parts are proved together, strengthened by
  `Pending`, which says what is on the connection in each state.
* `AnswerIsOwn`: `AnswersOwnRequest`, under `FitsInt` too, from `Framing`: at
  the start of a request nothing of an older response is on the connection.
  With a length that wraps something is, the client may read it as headers, and
  TLC refutes the property.

and of `PostSimple` over it, for any limit too:

* `NothingStaysOpen`: `NothingLeftOpen`, without `FitsInt`: it speaks of streams,
  calls and when a connection is kept, not of the bytes on it. Every step
  of `PostSimple` is first shown to be one of the client's (`SimpleIsStep`), so
  that all that is proved of `HttpClient` holds; `SimpleInv` says at each place
  in mega_http_client_post_simple what is known of the client's state.
* `LimitHolds`: `SizeLimit`, and `KeepsPromise`: every step is one of
  `HttpExchange` or a stutter (`HttpExchange!Safety`), both under `FitsInt`,
  without which `simple_wrap` refutes the first. `Owned` carries to the end of
  the call that what is read belongs to the current request.

and of `ApiCall`, from `DelaysAssumption` only:

* `RetryIsBounded`: `TypeOK` and `BoundedRetry`, for all delays.
* `AtLeastOnce`: `SuccessWasExecuted`, `RepeatedOnlyAfterLoss` and
  `RefusalLeavesNothing`, by `OnceInv`, which counts executions whose answers
  are still to come as not yet lost.
* `ResultsAreTrue` (`ResultIsTrue`), by `OnceInv` too.

`RegistrationProofs` proves, for any number of registrations, runs and tools at
the same time (the run has one tool):

* `Invariance`: `Inv`. What a run of the second step knows is told by the call
  it is at (`RunSound`): past the challenge, its state and its account belong
  together, past the relogin the session is that account's. With it go
  `AddressUnique`, `KeyUnderOwn` (an RSA key is sealed with its own account's
  master key) and `VerifiedComplete`. None of these is inductive alone: a key
  is under its own account's master key only because the run that sets it met
  the challenge two calls earlier.
* `TypeCorrect`, `ConfirmedOwn` (`ConfirmedIsOwn`), `VerifiedSigns`
  (`VerifiedSignsIn`).
* `KeysOnce` (`KeysSetOnce`), under the hypothesis that no two tools run at one
  time, which the run's single tool meets: then a run that is about to send its
  key has a session for an account without one (`Unkeyed`). Two at one time may
  both have such a session, and the second key replaces the first.

`SessionCacheProofs` proves, for any number of tools, items, session ids and
any timeout:

* `Invariance`: `Inv`. `ListSound` says that a list's `last_refresh` is when it
  was read, not later than now nor than the end of its session. It is claimed of
  the cache file, and of a tool only where it is `Filled`, that is past its
  refresh or in need of none: get_user renews `last_refresh` first, and no save
  comes between it and the refresh, which is why the file stays sound.
* `TypeCorrect`, `Fresh` (`FreshWhenServed`), `DeadTimesOut`
  (`DeadSessionTimesOut`).
* `CacheFollows` (`CacheFollowsTools`), by `Follows`: the list of the file, and
  of every filled tool, is the account's unless its owner missed a change.

`TransferProofs` proves, for any number of downloads and paths and files of any
length:

* `Invariance`: `DownloadInv`. A download has a file of its own exactly where `InOrder`
  says; that file is there, unreported, and holds what the MAC has seen
  (`Owns`); every file made by a tool is tied to the one download that created
  it (`OwnersKnown`). Without the last, the removal on an error could be the
  removal of another download's file.
* `ReportedIsWhole` (`DoneIsWhole`), `PartialIsRunning` (`NoLeftovers`),
  `OnlyOwnTouched` (`OthersUntouched`).

and, for files, pieces and change counts of any size:

* `UploadInvariance`: `UploadInv`. What was sent is what the MAC has seen, no
  more of it than was announced unless the file grew, and the file's own
  beginning unless somebody wrote to it (`UploadSound`); the lemma `Continued`
  is the one about sequences that joins a piece to what went before.
* `NodesAreSound` (`NodeIsSound`).

and, for any sizes of blocks, of the first chunk and of the growth of chunks:

* `MacInvariance`: `MacInv`. A MAC that is not finished `Holds` the bytes that
  were given and are not left over: its closed chunks are those of the bytes cut
  at `ChunkOff`, its boundary the next offset, its open chunk the rest. That
  there is a function `ChunkOff` is shown by its closed form (`ChunkOffIs`);
  that padding never crosses a boundary (`FinishedIs`) needs that offsets are
  multiples of the block (`OffsetsGrow`).
* `MacsIdentify` (`MacIdentifies`): the chunks of a padded file determine it
  (`ReferenceInjective`), for every position is in one chunk (`ChunkFound`).

`SessionFsProofs` proves, for any handles, names and contacts, any tree, and any
number of runs of a command:

* `FsTypeCorrect` and `ListIsLinked` (`WellLinked`), by `FsInv`: with the types
  go that every node is one its parser makes (`GoodNode`), and what the command
  in progress knows (`CallOK`): without its clause that nobody has the new node
  for a parent, put, which sets only its own node's pointer, would leave others
  wrong.
* `ListFollowsServer` (`Coherent`): files and folders exactly, but for what rm
  leaves in the list, which hangs below no system folder; of contacts that none
  is missing. `MirrorInv` relates list and server also
  between a request and its answer, when they differ by what the command has
  done (`Making`, `Removing`, `Adding`, `Leaving`), and says that what the
  server has no more is an orphan: rm takes one node off the list, and the
  server all below it. That these do not show again, attached through another
  node, needs `TreeInv`: a rank that falls from each node to its parent, on the
  server, in the list, and for the node about to be made.
* `CreatedNodeIsFound` (`CreatedIsFound`), by `CreateInv`: the path looked up
  before the request is still free, and its directory still where it was.

`Paths`, `Top` and `Below` are recursive functions, defined by CHOOSE: that
there are such functions is `Recursion`, for any recursion that follows a rank,
and `PathsDef` and `TopDef` are its instances; `BelowClosed` shows by counting
that as many steps down as there are nodes reach everything below a node. Both
go through induction over sets (`Induct`, `RankInduction`), from the
well-foundedness of <.

`NodeImportProofs` proves, for any handles, answers of any length in any order,
and any number of refreshes:

* `KeysAreGenuine` (`NoForgedKey`): where each share key came from. That it is
  the share's is not claimed, as the code does not check it.
* `NothingReadableIsMissing` (`Complete`). `NoForgedKey` bounds share_keys from
  above, by what the answer gives; `UserKeys` from below: a key for each share
  that was given one in what has been read, and from the end of the first
  refresh on for each share that is given any. A share that is given its own key
  and no other then has it, whatever the wrong keys of other shares do
  (`SettledRight`, `KeysRight`), so that no readable entry is skipped from then
  on (`NoneSkipped`). `ReadableIsAccepted` is what the loop over a key's parts
  finds (`LoopFinds`, by induction), and would be false without `Readable`'s
  clause about parts for unknown shares.

`JsonGenProofs` proves, for texts of any length, any names that are strings and
any values that are JSON texts (`GenAssumption`):

* `ValidStands`: a JSON text that stands in another is read there to its end,
  whatever follows. The parser is a recursive function on places; that there is
  one is `EndsExist`, stage by stage over `Rank`, which falls from each place to
  those it is computed from, and `AllMove` goes along the same rank.
* `TextIsFramed`: `GenInv`, the inductive invariant. The generator has no stack
  and the parser has not seen the end yet, so it speaks of every continuation
  `u` of the text: each container that is open began somewhere, and there the
  parser finds what it finds from the end of the text on (`Frame`). A value
  that is added moves that end (`AddValue`), a bracket adds or removes a
  container (`AddStart`, `AddEnd`). It quantifies over all texts, so TLC cannot
  evaluate it; the run checks what follows from it.
* `GeneratorKeepsPromise` (`WritesAsPromised`): each call is a step of
  `JsonWriter`, and with nothing open the text is valid, so that Done never
  gives NULL.

`CopyProofs` proves, for remote directories of any depth with names used any
number of times, for command lines of any length, any failures and any number of
files the user adds, from `CopyAssumption` and `LinkAssumption` (the nodes are a
`Forest` and have their places on the disk, `Fits`) and, for uploads from local
directories of any depth, `UploadAssumption` (the local directory is a tree of
finitely many paths, none of whose remote paths is too long for a path buffer, and
the server gives handles that are new). TLC evaluates the three on the values of
the run:

* about paths: `SimplifyChild`, that path_simplify of a path with a slash and a
  name after it is path_simplify of the path with the same after it, however many
  slashes, "." and ".." the path has; `PathTyped`, that a node's path is simple;
  `TextInjective`, that paths with the same text have the same names. They go
  through the folds the operators are (`FoldedAppend`, by induction), from which
  follows what one more element does to each.
* `DownloadInvariant` (`DownloadInv`) and `DownloadIsAccounted`
  (`DownloadAccounted`). `Walk` says of the state between two calls of dl_sync_dir
  and dl_sync_file that each node below the remote directory is settled or below
  the node of a call still to be made (`Coming`), and that the remote path of such
  a call leads to the names of its node. That last part makes the file that is
  fetched by path one of the names wanted, though perhaps another of them
  (`FoundFile`, `Holds`). What is settled stays so, as nothing is taken off the
  disk (`SettledStays`).
* `UpInvariant` (`UpInv`) and `UploadIsAccounted` (`UploadAccounted`). An upload
  changes the list that its paths are looked up in, so the invariant also says
  that the list stays a forest (`RemoteIs`). `JoinedForest`, `JoinedNames` and
  `StatMore` are what a new node changes: nothing for the paths that lead
  somewhere, and its own path leads to it. That path is the one asked for because
  the parent is found by the simplified path (`OverIs`), which needs
  `SimplifyChild`. Each call still to be made is in a directory that is remote
  (`GoodUps`), and what is on the disk is remote, reported, a special file with
  the line that names its directory, or below the path of such a call (`UpWalk`),
  which `NextBelow` carries from a directory to its
  entries; without `IsTree` something could be on the disk that no listing meets.
  `AddedApart` follows, as a path that leads nowhere is no node's (`StatFinds`).
* `CopyOverwritesNothing` and `LinksOverwriteNothing` (`NothingOverwritten`), which
  the same steps show; `DryRunIsDry` (`DryRunChangesNothing`).
* `DryRunForetellsRun` (`DryRunForetells`): a run says what its dry run said,
  nothing if that said nothing, in whatever order each of the two reads the
  directories; unless a call fails, the user changes the directory, or the run is
  a download of nodes that share a path. `TellInv` says of each run
  that what it said and what it has left to say (`UpLines`, `DownLines`) are
  together the same set all along: all that can be said of the two directories in
  a dry run (`UpAll`, `DownAll`), and what that run said in the one after it. What
  is left to say is what lies below the calls still to be made, with no file in
  the way, and is not on the other side yet. A real run changes the other side as
  it goes, so each step has to change nothing but what it says (`UpChanges`,
  `DownChanges`); that is why local paths must have remote paths that differ
  (`RPathsDiffer`), and nodes places that differ (`NodesApart`, from
  `PathsDiffer`, without which the property is false).
* `LinkInvariant` and `LinksAreAccounted` (`LinksAccounted`): a folder that is
  opened begins a walk of its own, whatever the last one left (`OpenBegins`), and a
  callback that is missing has a folder that could not be opened before it
  (`PrintPart`).

Only model-checked:

* liveness (`CallsReturn`, `CallReturns`, and the liveness half of
  `PromiseSpec`): WF and ENABLED are beyond the provers;
* `PrintsWhatPathsName`: it counts the places of a node in a list that is sorted,
  and `SortSeq` is a choice among permutations that is only sure to be one where
  `Before` is an order, which it is not for nodes whose paths do not fit;
* `ValidIsGrammar`, `FollowsStructure`, `TokensAgree`, `BuildsWhatItShows`: what
  a recursive definition computes for every input, over `RECURSIVE` operators
  or folds with an operator for an argument.

## 5. Not modelled

* megafs: FUSE calls it on several threads over one session without a lock.
  What happens is decided by data races, not by an order of steps.
* AES and RSA (`mega-aes-key.c`, `mega-rsa-key.c`): arithmetic of OpenSSL with
  no state from call to call. Ciphers and signatures are injections.
* df prints two numbers; mv is not implemented by the program; option parsing.
* A libcurl transfer has no timeout: that it ends is not a property of the code.
* A g_file_delete that fails: its result is ignored by the code, and the partial
  file would stay.
* /Trash in `SessionFs`, which behaves as /Root.
* s_json_get_int, _double, _bool, which convert one token. Noted and without a
  property: `!integer` in a path rejects negative numbers, `\u0000` ends a
  string, compacting an invalid text can join two words, and an array that
  mixes objects with other elements is indented by other amounts than it is
  closed with (`Unmixed` excepts it).
* A share key found and overwritten by a later part for an unknown share
  (`NodeImport!TakePart`): modelled, but nothing says the node should be kept.
* A file that grows while it is uploaded: the node then carries the MAC of more
  than is stored (`NodeIsSound` excepts it).
* In `JsonBuild` the value of a %j argument is joined from its tokens, without
  the spaces between them that the code copies; of the directives the run uses
  %s, %S, %?S and %j, with one argument each, and none of %i, %d and %b.
* A local directory that cannot be read to its end looks like a shorter one
  (`Copy!UpDirCut`), and format names that begin with a literal's name are
  scanned as the literal (`JsonBuild`): both are modelled as they are.
* Reuse of a MAC object by two files without setup, which no caller does.

## 6. What could follow

* that megals lists what its paths name, for trees of any size: `SimplifyIs` and
  `StatIs` say what a path leads to, and what is missing is that a list keeps its
  nodes when it is sorted, and `Walk` for paths with "..".
