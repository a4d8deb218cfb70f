--------------------------- MODULE SchemaDecoding ----------------------------
(***************************************************************************)
(* Decoding record values against the schema registry: Decoder             *)
(* (internal/tui/format.go), protoDecoder (proto_decode.go) and            *)
(* SchemaRegistry (pkg/rp/schema_registry.go), called by several           *)
(* goroutines, with requests that fail.                                    *)
(*                                                                         *)
(* A schema is one version of a .proto file or an Avro or JSON schema.  The *)
(* registry gives it out by its ID and by the subject and version that a   *)
(* reference names next to the file name it imports it by; neither answer  *)
(* changes.  What a payload means and the compiler are external: bytes     *)
(* nobody encoded cannot be read, and a file compiles if every import can  *)
(* be found and no imports form a circle; with another version than it was *)
(* written for it may compile or not.                                      *)
(***************************************************************************)
EXTENDS WireFormat

CONSTANTS
    Callers,        \* goroutines
    Records,        \* what senders have sent: [by, id, path, payload]
    Type,           \* of each schema: "AVRO", "JSON", "PROTOBUF" or another
    References,     \* of each schema, in order: the file names it imports, each
                    \* with the schema of its subject and version
    FileName,       \* of each schema: the name it is compiled under as the root,
                    \* its subject or "schema-<ID>.proto"
    Messages,       \* of each schema: the paths of the messages it declares
    Configured,     \* a registry is configured: BOOLEAN values to start with
    MaxFaults       \* bound: requests that fail

Schemas == DOMAIN Type

\* An ID takes four bytes, and a message that is declared in another has that one's
\* path before its own.
ASSUME SchemasAssumption ==
    /\ Schemas \subseteq Nat \ {0} /\ \A s \in Schemas : IsUint32(s)
    /\ References \in [Schemas -> Seq([name : STRING, schema : Schemas])]
    /\ FileName \in [Schemas -> STRING]
    /\ DOMAIN Messages = Schemas
    /\ \A s \in Schemas : \A path \in Messages[s] :
          \A i \in DOMAIN path : SubSeq(path, 1, i) \in Messages[s]

\* A sender writes with the serializer of its schema; the one of this repository
\* knows only the first message, and the model only indexes of one byte.
ASSUME RecordsAssumption ==
    /\ Records \subseteq [by : {"rp", "avro", "proto", "raw"}, id : Nat,
                          path : Seq(0..63), payload : Seq(0..255)]
    /\ \A r \in Records : r.by # "raw" =>
          /\ r.id \in Schemas
          /\ r.by = "avro" <=> Type[r.id] # "PROTOBUF"
          /\ r.by = "rp" => r.path = <<0>>
          /\ r.by = "proto" => Len(r.path) \in 1..63

Refs(s) == ToSet(References[s])
Direct(s) == {r.schema : r \in Refs(s)}
Closed(files) == \A s \in files : Direct(s) \subseteq files

\* The schemas that a schema's references lead to, directly or through others.
Imports ==
    [root \in Schemas |->
       {s \in Schemas : \A files \in SUBSET Schemas :
          Direct(root) \subseteq files /\ Closed(files) => s \in files}]
Reached(root) == {root} \union Imports[root]

ASSUME SettingsAssumption == MaxFaults \in Nat /\ Configured \subseteq BOOLEAN

VARIABLES
    sr,         \* Decoder.sr is not nil
    byID,       \* SchemaRegistry.byID: [ID, schema] of the IDs it has
    fileCache,  \* protoDecoder.fileCache: the root and the files compiled with it
    pc,         \* what each goroutine is doing
    rec,        \* ... the record it is decoding, or has decoded last
    info,       \* ... the SchemaInfo it got
    sources,    \* ... the files it has collected: the schemas of their names
    todo,       \* ... the references it has yet to look at
    failed,     \* ... a request of this call has failed
    result,     \* ... what it shows
    panicked,
    faults

vars == <<sr, byID, fileCache, pc, rec, info, sources, todo, failed, result,
          panicked, faults>>

Value(r) ==
    CASE r.by = "rp" -> PrependSchemaHeader(r.payload, r.id)
      [] r.by = "avro" -> EncodeAvro(r.payload, r.id)
      [] r.by = "proto" -> EncodeProto(r.payload, r.id, r.path)
      [] OTHER -> r.payload

HeaderOf == [r \in Records |-> ExtractSchemaID(Value(r))]
IndexesOf == [r \in Records |-> ParseMessageIndexes(HeaderOf[r].payload)]

NoInfo == [ID |-> 0, schema |-> 0]
NoRecord == [by |-> "nobody", id |-> 0, path |-> <<>>, payload |-> <<>>]
Nothing == [as |-> "nothing", schema |-> 0, path |-> <<>>, payload |-> <<>>]
With(f, x, v) == [y \in DOMAIN f \union {x} |-> IF y = x THEN v ELSE f[y]]
Named(f) == DOMAIN f \subseteq STRING /\ Range(f) \subseteq Schemas
Infos == [ID : Schemas \union {0}, schema : Schemas \union {0}]

\* Caches map IDs to answers; a goroutine has an answer when it works with one.
TypeOK ==
    /\ sr \in BOOLEAN /\ panicked \in BOOLEAN /\ faults \in 0..MaxFaults
    /\ DOMAIN byID \subseteq Schemas /\ \A id \in DOMAIN byID : byID[id] \in Infos
    /\ DOMAIN fileCache \subseteq Schemas
    /\ \A id \in DOMAIN fileCache :
          fileCache[id].root \in Schemas /\ Named(fileCache[id].files)
    /\ pc \in [Callers -> {"idle", "lookup", "fetch", "render", "file", "collect"}]
    /\ rec \in [Callers -> Records \union {NoRecord}]
    /\ info \in [Callers -> Infos]
    /\ \A c \in Callers : pc[c] \in {"render", "file", "collect"} => info[c].ID > 0
    /\ \A c \in Callers :
          Named(sources[c]) /\ {r.schema : r \in ToSet(todo[c])} \subseteq Schemas
    /\ failed \in [Callers -> BOOLEAN]
    /\ \A c \in Callers :
          result[c].as \in {"nothing", "plain", "hex", "text", "message", "error"}

Init ==
    /\ sr \in Configured
    /\ byID = <<>> /\ fileCache = <<>>
    /\ pc = [c \in Callers |-> "idle"] /\ rec = [c \in Callers |-> NoRecord]
    /\ info = [c \in Callers |-> NoInfo]
    /\ sources = [c \in Callers |-> <<>>] /\ todo = [c \in Callers |-> <<>>]
    /\ failed = [c \in Callers |-> FALSE] /\ result = [c \in Callers |-> Nothing]
    /\ panicked = FALSE /\ faults = 0

Goes(c, where) == pc' = [pc EXCEPT ![c] = where]
Header(c) == HeaderOf[rec[c]]
Indexes(c) == IndexesOf[rec[c]]

\* decodeValue returns.
Show(c, what) ==
    /\ Goes(c, "idle") /\ result' = [result EXCEPT ![c] = what]
    /\ info' = [info EXCEPT ![c] = NoInfo]
    /\ sources' = [sources EXCEPT ![c] = <<>>] /\ todo' = [todo EXCEPT ![c] = <<>>]
    /\ UNCHANGED <<sr, rec>>

\* Err is set and the text is a hex preview.
ShowError(c) == Show(c, [Nothing EXCEPT !.as = "error"])

-----------------------------------------------------------------------------

\* A value without a header is shown as it is, and one with a header as bytes if
\* there is no registry.
Decode(c, r) ==
    /\ pc[c] = "idle"
    /\ rec' = [rec EXCEPT ![c] = r] /\ failed' = [failed EXCEPT ![c] = FALSE]
    /\ LET h == HeaderOf[r]
           Shown(as) == [Nothing EXCEPT !.as = as, !.payload = h.payload]
       IN  IF h.ok /\ sr
           THEN Goes(c, "lookup") /\ result' = [result EXCEPT ![c] = Nothing]
           ELSE /\ result' = [result EXCEPT ![c] = Shown(IF h.ok THEN "hex" ELSE "plain")]
                /\ UNCHANGED pc
    /\ UNCHANGED <<sr, byID, fileCache, info, sources, todo, panicked, faults>>

\* FetchByID looks under the read lock and lets go of it before it asks.
Lookup(c) ==
    /\ pc[c] = "lookup"
    /\ IF Header(c).id \in DOMAIN byID
       THEN Goes(c, "render") /\ info' = [info EXCEPT ![c] = byID[Header(c).id]]
       ELSE Goes(c, "fetch") /\ UNCHANGED info
    /\ UNCHANGED <<sr, byID, fileCache, rec, sources, todo, failed, result, panicked,
                   faults>>

\* Mutant: the ID is taken from the answer, which has none.
AnswerTrusted(id, schema) == [ID |-> 0, schema |-> schema]

\* fetchURL for an ID: the answer gets the ID it was asked for.
Answer(id, schema) == [ID |-> id, schema |-> schema]

\* Two goroutines that missed both store their answer.
Fetched(c) ==
    LET id == Header(c).id
    IN  /\ pc[c] = "fetch" /\ id \in Schemas
        /\ byID' = With(byID, id, Answer(id, id))
        /\ info' = [info EXCEPT ![c] = Answer(id, id)]
        /\ Goes(c, "render")
        /\ UNCHANGED <<sr, fileCache, rec, sources, todo, failed, result, panicked,
                       faults>>

\* Mutant: the zero SchemaInfo of a failed request is cached.
FetchFailsCached(c) ==
    /\ pc[c] = "fetch"
    /\ \/ faults < MaxFaults /\ faults' = faults + 1
       \/ Header(c).id \notin Schemas /\ UNCHANGED faults
    /\ failed' = [failed EXCEPT ![c] = TRUE]
    /\ byID' = With(byID, Header(c).id, NoInfo)
    /\ ShowError(c)
    /\ UNCHANGED <<fileCache, panicked>>

\* A fault, or the registry has no such schema: nothing is cached.
FetchFails(c) ==
    /\ pc[c] = "fetch"
    /\ \/ faults < MaxFaults /\ faults' = faults + 1
       \/ Header(c).id \notin Schemas /\ UNCHANGED faults
    /\ failed' = [failed EXCEPT ![c] = TRUE]
    /\ ShowError(c)
    /\ UNCHANGED <<byID, fileCache, panicked>>

\* avro and proto cannot read a payload that was not written for the schema.
Unreadable(c) == rec[c].by = "raw" /\ Type[info[c].schema] \in {"AVRO", "PROTOBUF"}

Render(c) ==
    /\ pc[c] = "render" /\ Type[info[c].schema] # "PROTOBUF"
    /\ LET known == Type[info[c].schema] \in {"AVRO", "JSON"}
       IN  IF Unreadable(c) THEN ShowError(c)
           ELSE Show(c, [as |-> IF known THEN "text" ELSE "hex", schema |-> info[c].schema,
                         path |-> <<>>, payload |-> Header(c).payload])
    /\ UNCHANGED <<byID, fileCache, failed, panicked, faults>>

RenderProto(c) ==
    /\ pc[c] = "render" /\ Type[info[c].schema] = "PROTOBUF"
    /\ \/ /\ Indexes(c).ok
          /\ Goes(c, "file")
          /\ UNCHANGED <<sr, rec, info, sources, todo, result, panicked>>
       \/ /\ ~Indexes(c).ok /\ ~Indexes(c).panics
          /\ ShowError(c) /\ UNCHANGED panicked
       \/ /\ Indexes(c).panics
          /\ panicked' = TRUE
          /\ UNCHANGED <<sr, pc, rec, info, sources, todo, result>>
    /\ UNCHANGED <<byID, fileCache, failed, faults>>

\* messageByIndexes: each index is one of the messages of the level above it.
InRange(file, path) ==
    \A i \in DOMAIN path : SubSeq(path, 1, i) \in Messages[file.root]

\* The message of the file that the indexes lead to, if they lead to one.
ShowMessage(c, file) ==
    IF InRange(file, Indexes(c).path) /\ ~Unreadable(c)
    THEN Show(c, [as |-> "message", schema |-> file.root, path |-> Indexes(c).path,
                  payload |-> Indexes(c).payload])
    ELSE ShowError(c)

FileLookup(c) ==
    /\ pc[c] = "file"
    /\ IF info[c].ID \in DOMAIN fileCache
       THEN ShowMessage(c, fileCache[info[c].ID])
       ELSE /\ Goes(c, "collect")
            /\ sources' = [sources EXCEPT
                             ![c] = With(<<>>, FileName[info[c].schema], info[c].schema)]
            /\ todo' = [todo EXCEPT ![c] = References[info[c].schema]]
            /\ UNCHANGED <<sr, rec, info, result>>
    /\ UNCHANGED <<byID, fileCache, failed, panicked, faults>>

\* Mutant: files that have been collected are fetched again.
NeverCollected(c) == FALSE

\* By name, whichever version of the file is there.
Collected(c) == Head(todo[c]).name \in DOMAIN sources[c]

\* collectReferences goes depth first; what it has is skipped.
SkipReference(c) ==
    /\ pc[c] = "collect" /\ todo[c] # <<>> /\ Collected(c)
    /\ todo' = [todo EXCEPT ![c] = Tail(@)]
    /\ UNCHANGED <<sr, byID, fileCache, pc, rec, info, sources, failed, result,
                   panicked, faults>>

FetchReference(c) ==
    /\ pc[c] = "collect" /\ todo[c] # <<>> /\ ~Collected(c)
    /\ sources' = [sources EXCEPT ![c] = With(@, Head(todo[c]).name, Head(todo[c]).schema)]
    /\ todo' = [todo EXCEPT ![c] = References[Head(@).schema] \o Tail(@)]
    /\ UNCHANGED <<sr, byID, fileCache, pc, rec, info, failed, result, panicked,
                   faults>>

\* Mutant: a reference that cannot be fetched is left out.
FetchReferenceSkips(c) ==
    /\ pc[c] = "collect" /\ todo[c] # <<>> /\ ~Collected(c)
    /\ faults < MaxFaults /\ faults' = faults + 1
    /\ todo' = [todo EXCEPT ![c] = Tail(@)]
    /\ UNCHANGED <<sr, byID, fileCache, pc, rec, info, sources, failed, result,
                   panicked>>

FetchReferenceFails(c) ==
    /\ pc[c] = "collect" /\ todo[c] # <<>> /\ ~Collected(c)
    /\ faults < MaxFaults /\ faults' = faults + 1
    /\ failed' = [failed EXCEPT ![c] = TRUE]
    /\ ShowError(c)
    /\ UNCHANGED <<byID, fileCache, panicked>>

\* The compiler finds each import by its name.
Found(f) == \A n \in DOMAIN f : \A r \in Refs(f[n]) : r.name \in DOMAIN f
Circular(f) ==
    \E names \in SUBSET DOMAIN f :
        names # {} /\ \A n \in names : \E r \in Refs(f[n]) : r.name \in names
Skewed(f) ==
    \E n \in DOMAIN f : \E r \in Refs(f[n]) : r.name \in DOMAIN f /\ f[r.name] # r.schema

Compile(c) ==
    LET f == sources[c]
        file == [root |-> info[c].schema, files |-> f]
    IN  /\ pc[c] = "collect" /\ todo[c] = <<>>
        /\ \/ /\ Found(f) /\ ~Circular(f)
              /\ fileCache' = With(fileCache, info[c].ID, file)
              /\ ShowMessage(c, file)
           \/ /\ ~Found(f) \/ Circular(f) \/ Skewed(f)
              /\ ShowError(c) /\ UNCHANGED fileCache
        /\ UNCHANGED <<byID, failed, panicked, faults>>

-----------------------------------------------------------------------------

Step(c) ==
    \/ Lookup(c) \/ Fetched(c) \/ FetchFails(c)
    \/ Render(c) \/ RenderProto(c) \/ FileLookup(c)
    \/ SkipReference(c) \/ FetchReference(c) \/ FetchReferenceFails(c) \/ Compile(c)

Next ==
    /\ ~panicked
    /\ \E c \in Callers : (\E r \in Records : Decode(c, r)) \/ Step(c)

Spec == Init /\ [][Next]_vars

\* A request returns within the timeout of the HTTP client, and goroutines run.
FairSpec == Spec /\ \A c \in Callers : WF_vars(~panicked /\ Step(c))

-----------------------------------------------------------------------------
(* Properties *)

\* What is shown of a record is what its sender put in: the schema, the message
\* in its file, the payload, whatever other goroutines decode at the same time
\* and whichever answers and files were cached before.
ShownAsSent ==
    \A c \in Callers :
        rec[c].by \in {"rp", "avro", "proto"} /\ result[c].as # "nothing" =>
            /\ result[c].as # "plain"
            /\ result[c].as = "message" => result[c].path = rec[c].path
            /\ result[c].as \in {"message", "text"} =>
                  result[c].schema = rec[c].id /\ result[c].payload = rec[c].payload

\* No two references below a root import different schemas by one name, the root's
\* own included.
Unambiguous(root) ==
    \A s, t \in Reached(root) : \A r \in Refs(s) :
        /\ r.name = FileName[root] => r.schema = root
        /\ \A q \in Refs(t) : q.name = r.name => q.schema = r.schema

\* A file is cached under its ID with everything it imports by any name and nothing
\* foreign to it; where no name stands for two schemas, with exactly the schemas
\* its references lead to, each in the version they name.
ImportsComplete ==
    \A id \in DOMAIN fileCache :
        LET f == fileCache[id].files
        IN  /\ fileCache[id].root = id /\ f[FileName[id]] = id
            /\ Range(f) \subseteq Reached(id) /\ Found(f)
            /\ Unambiguous(id) => Range(f) = Reached(id) /\ ~Skewed(f)

NoSuchMessage(c) == rec[c].by = "raw" \/ rec[c].path \notin Messages[rec[c].id]

ImportsCircle(root) ==
    \E circle \in SUBSET Reached(root) :
        circle # {} /\ \A s \in circle : Direct(s) \intersect circle # {}

\* An error is the fault of a request of this very call, or of the record and its
\* schema: what failed before, here or in another goroutine, leaves no trace.
ErrorsHaveCause ==
    \A c \in Callers : result[c].as = "error" =>
        \/ failed[c]
        \/ NoSuchMessage(c)
        \/ ImportsCircle(Header(c).id) \/ ~Unambiguous(Header(c).id)

\* BasicConsumer hands out what BasicProducer was given, unless that was empty:
\* a header with nothing behind it is not stripped.
StripUndoesPrepend ==
    \A c \in Callers :
        /\ rec[c].by = "rp" /\ rec[c].payload # <<>> =>
              StripSchemaHeaders(Value(rec[c])) = rec[c].payload
        /\ rec[c].by = "raw" /\ ~Header(c).ok =>
              StripSchemaHeaders(Value(rec[c])) = rec[c].payload

\* Decoding ends, with imports in a circle and failing requests too.
DecodeReturns ==
    \A c \in Callers : pc[c] # "idle" ~> pc[c] = "idle" \/ panicked

\* "Err is set when decoding failed; Text falls back to a safe rendering"
\* (format.go:29).
NeverPanics == ~panicked
=============================================================================
