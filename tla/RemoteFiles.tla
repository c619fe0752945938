----------------------------- MODULE RemoteFiles -----------------------------
(***************************************************************************)
(* The file dialog of the console (web/static/remote-ui.js, openRemote in  *)
(* mode "files") and the operations it calls on a device                   *)
(* (internal/remote/session.go, fileRequest).                              *)
(*                                                                         *)
(* Each handler of the dialog is a task that awaits one call after the     *)
(* other.  The device carries out calls in the order they were sent; the   *)
(* timer of a call can give up on it before the device comes to it.  A     *)
(* file is a sequence of units, of which a call carries Chunk.             *)
(***************************************************************************)
EXTENDS Naturals, Sequences, FiniteSets

CONSTANTS
    Dirs, Names,
    Units,          \* what files consist of
    Home, Root,     \* the directory of the account, and "/"
    StartFiles,     \* [Paths -> file, Folder or None]
    Locals,         \* files the user may upload
    Touched, Foreign,   \* where others may put which files
    Chunk,          \* 24000 bytes in the code
    Limit,          \* 128 MB in the code
    Tasks,          \* handlers that run at a time
    MaxClicks,      \* bound: handlers the user starts
    MaxElsewhere,   \* bound: changes by others
    Zero,           \* what fills a hole in a file
    Folder, None

Paths    == Dirs \X Names
Contents == Seq(Units)

\* The calls of link.call, the handlers that make them, and what the device
\* answers to "list", to "read" and to the others.
Ops     == {"list", "read", "create", "write", "mkdir", "rename", "delete"}
Calls   == [id : Nat, op : Ops, path : Dirs \cup Paths, target : Paths \cup {None},
            off : Nat, data : Contents]
Handler == [kind : {"load", "change", "download", "upload"}, phase : Ops, call : Nat,
            path : Paths \cup {None}, data : Contents, off : Nat,
            from : SUBSET (Paths \X Contents)]
Rows    == [Names -> Nat \cup {None, Folder}]
Results == [dir : Dirs, rows : Rows]
               \cup [data : Contents, eof : BOOLEAN, from : Paths \X Contents] \cup {None}

ASSUME RemoteFilesConstants ==
    /\ {Home, Root} \subseteq Dirs /\ None \notin Dirs
    /\ Chunk \in Nat \ {0} /\ Limit \in Nat
    /\ Tasks \subseteq Nat /\ IsFiniteSet(Tasks) /\ 1 \in Tasks
    /\ MaxClicks \in Nat /\ MaxElsewhere \in Nat
    /\ StartFiles \in [Paths -> Contents \cup {None, Folder}]
    /\ Locals \subseteq Contents /\ Zero \in Units
    /\ Touched \subseteq Paths /\ Foreign \subseteq Contents
    /\ Folder # None /\ {None, Folder} \cap (Contents \cup Nat) = {}
    /\ None \notin Paths \cup Handler

VARIABLES
    \* The dialog.
    open,           \* active, and the link is not closed
    current, shown, \* the directory in the table or None (""), and its entries
    busy, loading,
    task,           \* [Tasks -> a running handler, or None]
    clicks,         \* how many handlers were started
    done,           \* history: the transfer that the last step completed
    \* The device.
    queue, answers,
    files,
    mine,           \* history: paths created by an upload of this dialog
    elsewhere       \* how often others changed a file

dialog == <<open, current, shown, busy, loading, task, clicks>>
device == <<queue, answers, files, mine, elsewhere>>
vars   == <<dialog, device, done>>

IsFile(f) == f \notin {None, Folder}

\* A row of the table: whether it is a directory, and its size.
Entry(f) == IF IsFile(f) THEN Len(f) ELSE f
Listing(d) == [n \in Names |-> Entry(files[<<d, n>>])]

NoneDone == [kind |-> "", path |-> None, data |-> <<>>, from |-> {}]

\* The dialog has no directory yet and awaits its first load().
Init ==
    /\ open = TRUE
    /\ current = None
    /\ shown = [n \in Names |-> None]
    /\ busy = FALSE /\ loading = TRUE
    /\ task = [t \in Tasks |->
                  IF t = 1
                  THEN [kind |-> "load", phase |-> "list", call |-> 1, path |-> None,
                        data |-> <<>>, off |-> 0, from |-> {}]
                  ELSE None]
    /\ clicks = 0
    /\ done = NoneDone
    /\ queue = <<[id |-> 1, op |-> "list", path |-> Home, target |-> None,
                  off |-> 0, data |-> <<>>]>>
    /\ answers = <<>>
    /\ files = StartFiles
    /\ mine = {}
    /\ elsewhere = 0

(***************************************************************************)
(* The device: fileRequest, one call after the other.                      *)
(***************************************************************************)
ReadData(f, off) == SubSeq(f, off + 1, IF off + Chunk < Len(f) THEN off + Chunk ELSE Len(f))

Written(f, off, data) ==
    LET end == off + Len(data) IN
    [i \in 1..(IF end > Len(f) THEN end ELSE Len(f)) |->
        IF i \in (off + 1)..end THEN data[i - off]
        ELSE IF i <= Len(f) THEN f[i] ELSE Zero]

AllowedOverwriting(c) ==
    CASE c.op \in {"read", "write"} -> IsFile(files[c.path])
      [] c.op = "create"            -> files[c.path] # Folder
      [] c.op = "mkdir"             -> files[c.path] = None
      [] c.op = "rename"            -> files[c.path] # None /\ files[c.target] = None
      [] c.op = "delete"            -> files[c.path] # None
      [] OTHER                      -> TRUE

\* create opens with O_EXCL, write without O_CREATE; rename looks for the
\* target first.
Allowed(c) ==
    CASE c.op \in {"read", "write"}   -> IsFile(files[c.path])
      [] c.op \in {"create", "mkdir"} -> files[c.path] = None
      [] c.op = "rename"              -> files[c.path] # None /\ files[c.target] = None
      [] c.op = "delete"              -> files[c.path] # None
      [] OTHER                        -> TRUE

FilesAfter(c) ==
    CASE c.op = "create" -> [files EXCEPT ![c.path] = <<>>]
      [] c.op = "write"  -> [files EXCEPT ![c.path] = Written(@, c.off, c.data)]
      [] c.op = "mkdir"  -> [files EXCEPT ![c.path] = Folder]
      [] c.op = "rename" -> [files EXCEPT ![c.target] = files[c.path], ![c.path] = None]
      [] c.op = "delete" -> [files EXCEPT ![c.path] = None]
      [] OTHER           -> files

MineAfter(c) ==
    CASE c.op = "create" -> mine \cup {c.path}
      [] c.op = "delete" -> mine \ {c.path}
      [] c.op = "rename" -> IF c.path \in mine THEN (mine \ {c.path}) \cup {c.target}
                            ELSE mine
      [] OTHER           -> mine

EofAtTheEndOnly(f, off) == off + Chunk = Len(f)

EofWhenFilled(f, off) == off + Chunk <= Len(f)

\* ReadAt reports io.EOF only if it could not fill the buffer.
Eof(f, off) == off + Chunk > Len(f)

\* The result of a call; "from" is history: the version of the file it read.
Result(c) ==
    CASE c.op = "list" -> [dir |-> c.path, rows |-> Listing(c.path)]
      [] c.op = "read" -> [data |-> ReadData(files[c.path], c.off),
                           eof  |-> Eof(files[c.path], c.off),
                           from |-> <<c.path, files[c.path]>>]
      [] OTHER         -> None

\* A call that may be done can still fail (rights, a full disk, SFTP).  Calls
\* keep the order they were sent in; RemoteTransport shows that one call may be
\* overtaken when a session moves to the direct path, which is left out here.
\* rename is one step although it looks for the target first: SFTP's rename
\* itself fails if the target exists.
DeviceWorks ==
    /\ queue # <<>>
    /\ queue' = Tail(queue)
    /\ LET c == Head(queue) IN
       \/ /\ Allowed(c)
          /\ files' = FilesAfter(c)
          /\ mine' = MineAfter(c)
          /\ answers' = Append(answers, [id |-> c.id, ok |-> TRUE, result |-> Result(c)])
       \/ /\ answers' = Append(answers, [id |-> c.id, ok |-> FALSE, result |-> None])
          /\ UNCHANGED <<files, mine>>
    /\ done' = NoneDone
    /\ UNCHANGED <<dialog, elsewhere>>

\* Users of the device, and other sessions.  They leave alone what an upload
\* of this dialog has created.
Elsewhere(p, f) ==
    /\ elsewhere < MaxElsewhere
    /\ p \notin mine
    /\ files[p] # f /\ files[p] # Folder
    /\ files' = [files EXCEPT ![p] = f]
    /\ elsewhere' = elsewhere + 1
    /\ done' = NoneDone
    /\ UNCHANGED <<dialog, queue, answers, mine>>

(***************************************************************************)
(* The handlers of the dialog.                                             *)
(***************************************************************************)
\* As long as no load has succeeded, join gives "/n".
Join(n) == <<IF current = None THEN Root ELSE current, n>>

\* The code numbers calls with ++seq.  A number that no call, answer or
\* handler holds any more can be used again.
IdsInUse ==
    {queue[i].id : i \in DOMAIN queue} \cup {answers[i].id : i \in DOMAIN answers}
        \cup {task[t].call : t \in {u \in Tasks : task[u] # None}}
FreshId == CHOOSE i \in 1..(Cardinality(IdsInUse) + 1) : i \notin IdsInUse

\* Task t goes on as k and awaits link.call(op, ...).
Call(t, k, op, path, target, off, data) ==
    /\ task' = [task EXCEPT ![t] = [k EXCEPT !.phase = op, !.call = FreshId]]
    /\ queue' = Append(queue, [id |-> FreshId, op |-> op, path |-> path, target |-> target,
                               off |-> off, data |-> data])

NewTask(kind, path, data) ==
    [kind |-> kind, phase |-> "", call |-> 0, path |-> path, data |-> data, off |-> 0,
     from |-> {}]

\* A click; every handler begins with "if (busy || loading) return".
Click(t) ==
    /\ open /\ ~ busy /\ ~ loading
    /\ task[t] = None /\ \A s \in Tasks : s < t => task[s] # None
    /\ clicks < MaxClicks
    /\ clicks' = clicks + 1
    /\ done' = NoneDone
    /\ UNCHANGED <<open, current, shown, answers, files, mine, elsewhere>>

\* load(p).
Load(t, k, d) ==
    /\ loading' = TRUE
    /\ Call(t, k, "list", d, None, 0, <<>>)

\* load(current), with the directory of this moment; the device takes "" for
\* its working directory.
Reload(t, k) == Load(t, k, IF current = None THEN Home ELSE current)

\* A directory of the table, "go" with any path, or "up".
OpenDirectory(t, d) ==
    /\ Click(t)
    /\ Load(t, NewTask("load", None, <<>>), d)
    /\ UNCHANGED busy

\* rename, delete and mkdir set neither busy nor loading while they wait.
Rename(t, n, m) ==
    /\ Click(t)
    /\ shown[n] # None
    /\ Call(t, NewTask("change", None, <<>>), "rename", Join(n), Join(m), 0, <<>>)
    /\ UNCHANGED <<busy, loading>>

Delete(t, n) ==
    /\ Click(t)
    /\ shown[n] # None
    /\ Call(t, NewTask("change", None, <<>>), "delete", Join(n), None, 0, <<>>)
    /\ UNCHANGED <<busy, loading>>

Mkdir(t, n) ==
    /\ Click(t)
    /\ Call(t, NewTask("change", None, <<>>), "mkdir", Join(n), None, 0, <<>>)
    /\ UNCHANGED <<busy, loading>>

Download(t, n) ==
    /\ Click(t)
    /\ shown[n] \notin {None, Folder} /\ shown[n] <= Limit
    /\ busy' = TRUE
    /\ Call(t, NewTask("download", Join(n), <<>>), "read", Join(n), None, 0, <<>>)
    /\ UNCHANGED loading

Upload(t, n, f) ==
    /\ Click(t)
    /\ Len(f) <= Limit
    /\ busy' = TRUE
    /\ Call(t, NewTask("upload", Join(n), f), "create", Join(n), None, 0, <<>>)
    /\ UNCHANGED loading

\* The answer to the call that task t awaits is the next one.
Answered(t, phase, ok) ==
    /\ answers # <<>> /\ task[t] # None
    /\ task[t].call = Head(answers).id /\ task[t].phase \in phase
    /\ Head(answers).ok = ok
    /\ answers' = Tail(answers)

\* The handler ends, with the finally blocks it is in.
End(t) ==
    /\ task' = [task EXCEPT ![t] = None]
    /\ loading' = (loading /\ task[t].phase # "list")
    /\ busy' = (busy /\ task[t].kind \notin {"download", "upload"})

Listed(t) ==
    /\ Answered(t, {"list"}, TRUE)
    /\ current' = Head(answers).result.dir
    /\ shown' = Head(answers).result.rows
    /\ End(t)
    /\ done' = IF task[t].kind = "upload"
               THEN [NoneDone EXCEPT !.kind = "upload", !.path = task[t].path,
                                     !.data = task[t].data]
               ELSE NoneDone
    /\ UNCHANGED <<open, clicks, queue, files, mine, elsewhere>>

Changed(t) ==
    /\ Answered(t, {"rename", "delete", "mkdir"}, TRUE)
    /\ Reload(t, task[t])
    /\ done' = NoneDone
    /\ UNCHANGED <<open, current, shown, busy, clicks, files, mine, elsewhere>>

\* A part of a download, which asks for the next one in the directory of this
\* moment, or is saved under the name that was clicked.
PartRead(t) ==
    /\ Answered(t, {"read"}, TRUE)
    /\ LET r == Head(answers).result
           k == [task[t] EXCEPT !.data = @ \o r.data, !.off = @ + Len(r.data),
                                !.from = @ \cup {r.from}] IN
       \/ /\ k.off > Limit
          /\ End(t)
          /\ done' = NoneDone
          /\ UNCHANGED queue
       \/ /\ k.off <= Limit /\ r.eof
          /\ End(t)
          /\ done' = [kind |-> "download", path |-> k.path, data |-> k.data, from |-> k.from]
          /\ UNCHANGED queue
       \/ /\ k.off <= Limit /\ ~ r.eof
          /\ Call(t, k, "read", Join(k.path[2]), None, k.off, <<>>)
          /\ done' = NoneDone
          /\ UNCHANGED <<busy, loading>>
    /\ UNCHANGED <<open, current, shown, clicks, files, mine, elsewhere>>

LastPartSkipped(k) == k.off + Chunk > Len(k.data)

\* The loop over the parts of an upload is over.
AllSent(k) == k.off >= Len(k.data)

PartWritten(t) ==
    /\ Answered(t, {"create", "write"}, TRUE)
    /\ LET k == [task[t] EXCEPT !.off = IF task[t].phase = "write" THEN @ + Chunk ELSE 0] IN
       \/ /\ AllSent(k)
          /\ Reload(t, k)
       \/ /\ ~ AllSent(k)
          /\ Call(t, k, "write", k.path, None, k.off, ReadData(k.data, k.off))
          /\ UNCHANGED loading
    /\ done' = NoneDone
    /\ UNCHANGED <<open, current, shown, busy, clicks, files, mine, elsewhere>>

Rejected(t) ==
    /\ Answered(t, {task[t].phase}, FALSE)
    /\ End(t)
    /\ done' = NoneDone
    /\ UNCHANGED <<open, current, shown, clicks, queue, files, mine, elsewhere>>

\* The 30 s of a call are over; the device may still carry it out.
CallTimeout(t) ==
    /\ task[t] # None
    /\ End(t)
    /\ done' = NoneDone
    /\ UNCHANGED <<open, current, shown, clicks, device>>

\* An answer nobody waits for any more.
AnswerDropped ==
    /\ answers # <<>>
    /\ \A t \in Tasks : task[t] # None => task[t].call # Head(answers).id
    /\ answers' = Tail(answers)
    /\ done' = NoneDone
    /\ UNCHANGED <<dialog, queue, files, mine, elsewhere>>

\* The dialog is closed or the link fails: every call is rejected.  The device
\* may be in the middle of one.
CloseLink ==
    /\ open
    /\ open' = FALSE
    /\ task' = [t \in Tasks |-> None]
    /\ busy' = FALSE /\ loading' = FALSE
    /\ \E n \in {0, 1} : n <= Len(queue) /\ queue' = [i \in 1..n |-> queue[i]]
    /\ answers' = <<>>
    /\ done' = NoneDone
    /\ UNCHANGED <<current, shown, clicks, files, mine, elsewhere>>

TaskStep(t) ==
    \/ Listed(t)
    \/ Changed(t)
    \/ PartRead(t)
    \/ PartWritten(t)
    \/ Rejected(t)

Next ==
    \/ DeviceWorks
    \/ \E p \in Touched, f \in Foreign \cup {None} : Elsewhere(p, f)
    \/ \E t \in Tasks :
        \/ \E d \in Dirs : OpenDirectory(t, d)
        \/ \E n, m \in Names : Rename(t, n, m)
        \/ \E n \in Names : Delete(t, n) \/ Mkdir(t, n) \/ Download(t, n)
        \/ \E n \in Names, f \in Locals : Upload(t, n, f)
        \/ TaskStep(t)
        \/ CallTimeout(t)
    \/ AnswerDropped
    \/ CloseLink

Spec == Init /\ [][Next]_vars

\* Every call has a timer of its own, which link.call starts with it: a call
\* that a handler awaits is answered, rejected or given up, and the handler
\* goes on.  Nothing is assumed of the device or the network.
FairSpec == Spec /\ \A t \in Tasks : WF_vars(TaskStep(t) \/ CallTimeout(t))

-----------------------------------------------------------------------------
(* The types.  At most one transfer runs.                                  *)
TypeOK ==
    /\ {open, busy, loading} \subseteq BOOLEAN
    /\ current \in Dirs \cup {None} /\ shown \in Rows
    /\ files \in [Paths -> Contents \cup {None, Folder}]
    /\ queue \in Seq(Calls)
    /\ answers \in Seq([id : Nat, ok : BOOLEAN, result : Results])
    /\ task \in [Tasks -> Handler \cup {None}]
    /\ clicks \in 0..MaxClicks /\ elsewhere \in 0..MaxElsewhere
    /\ mine \subseteq Paths
    /\ Cardinality({t \in Tasks : task[t] # None /\ task[t].kind \in {"download", "upload"}})
          = (IF busy THEN 1 ELSE 0)

(* "上传不覆盖同名文件" (README 73): no call of this dialog changes the       *)
(* contents of a file that it did not create, even one that appears while  *)
(* the dialog shows an older listing, or after a call was given up.        *)
UploadsDoNotOverwrite ==
    [][elsewhere' = elsewhere =>
         \A p \in Paths : IsFile(files[p]) /\ p \notin mine =>
            files'[p] \in {files[p], None}]_vars

(* When the dialog says that an upload is complete, the device has the     *)
(* whole file, whatever calls of other handlers were under way and however *)
(* its size relates to the size of a part (remote-ui.js, upload).          *)
UploadedIsComplete == done.kind = "upload" => files[done.path] = done.data

(* A download whose parts all came from one version of one file is that    *)
(* file, to the last unit and no more (session.go "read", remote-ui.js     *)
(* download).                                                              *)
DownloadedIsComplete ==
    done.kind = "download" => \A s \in done.from : done.from = {s} => done.data = s[2]

(* A download consists of parts of the file that was clicked               *)
(* ("下载内容核验", TEST-REPORT 40).                                          *)
DownloadsTheClickedFile ==
    done.kind = "download" => \A s \in done.from : s[1] = done.path

(* A transfer ends, and the dialog takes clicks again, even if each of its *)
(* calls is answered in time: its parts come to an end (the eof of the     *)
(* device, also for a file that is replaced on the way, the size limit and *)
(* the loop of upload) and the finally blocks clear busy.                  *)
TransfersEnd == busy ~> ~ busy
=============================================================================
