------------------------------- MODULE RequestData -----------------------------
(***************************************************************************)
(* What the program gets out of a request that has been read: parameters   *)
(* of the query, the form and the cookies, and the files of a form, which  *)
(* are kept in memory or in temporary files and which the program saves.   *)
(* The data of a part is a sequence of blocks of 2 KB; a file on disk has  *)
(* a number for its name.                                                  *)
(***************************************************************************)
EXTENDS FormText

CONSTANTS
    DataRequests,   \* the requests that are sent
    Names,          \* names that the program asks for
    DestFiles,      \* files that the program writes, numbers above all temporary ones
    MaxFileCalls    \* bound: calls of the program

VARIABLES
    dreq,       \* the request
    ready,      \* it has been handed over to the application
    formdata,   \* _formdata
    disk,       \* the files: name -> data
    uf,         \* the UploadFile that the program has got
    saved,      \* history: the last call of SaveTo
    own,        \* history: SaveTo was called with a temporary file of the request
    fileCalls   \* calls so far

-------------------------------------------------------------------------------
(* Forms *)

Item(name, flag, filename, data) == [name |-> name, flag |-> flag, filename |-> filename, data |-> data]
NoItem == Item(<<>>, "is_data", <<>>, <<>>)

IsFile(item) == item.flag \in {"is_file_data", "is_file_temporary_name"}
IsSavedFile(item) == item.flag = "is_file_temporary_name"

LexLess(l, r) ==
    \E n \in 0..(Len(r) - 1) : /\ n <= Len(l)
                               /\ \A i \in 1..n : l[i] = r[i]
                               /\ n = Len(l) \/ l[n + 1] < r[n + 1]

\* The items are in the order of the map's names.
ParseFormUrlEncodedData(body) ==
    LET pairs == IF body = <<>> THEN {} ELSE ParseQueryParameters(body)
        items == {Item(e.name, "is_data", <<>>, e.value) : e \in pairs}
    IN  SetToSortSeq(items, LAMBDA a, b : LexLess(a.name, b.name))

FormDataWord == <<102, 111, 114, 109, 45, 100, 97, 116, 97>>
NameWord     == <<110, 97, 109, 101>>
FilenameWord == <<102, 105, 108, 101>> \o NameWord

\* The Content-Disposition of a part, as clients write it.
Attribute(word, text) == <<Semicolon, Space>> \o word \o <<Equals, Quote>> \o text \o <<Quote>>
Disposition(part) ==
    part.disposition \o Attribute(NameWord, part.name)
    \o FlattenSeq([i \in DOMAIN part.filename |-> Attribute(FilenameWord, part.filename[i])])

\* The value of a header, as a set of one element, or nothing.
GetHeader(headers, field) == {e.value : e \in {h \in headers : SameName(h.name, field)}}

\* An item without a name, if the part is not one of a form.
TransferMultiPartToFormDataItem(part) ==
    LET sub      == MultiPartSplitSubHeadersFromValue(Disposition(part))
        name     == GetHeader(sub.headers, NameWord)
        filename == GetHeader(sub.headers, FilenameWord)
    IN  IF ~SameName(sub.value, FormDataWord) \/ name \subseteq {<<>>}
        THEN NoItem
        ELSE Item(CHOOSE n \in name : TRUE,
                  IF filename = {} THEN "is_data" ELSE "is_file_data",
                  IF filename = {} THEN <<>> ELSE CHOOSE f \in filename : TRUE,
                  part.data)

extension(filename) ==
    LET dots == {i \in DOMAIN filename : filename[i] = Dot}
    IN  IF dots = {} THEN <<>> ELSE SubSeq(filename, Max(dots), Len(filename))

IsNeedSave(options, ext, kb) ==
    CASE options.strategy = "always_save"       -> TRUE
      [] options.strategy = "alway_no_save"     -> FALSE
      [] options.strategy = "size_greater_than" -> kb > options.size_base_kb
      [] options.strategy = "size_lesser_than"  -> kb < options.size_base_kb
      [] options.strategy = "extension_is"      -> \E e \in options.extensions : SameName(e, ext)
      [] options.strategy = "extension_is_not"  -> ~\E e \in options.extensions : SameName(e, ext)

ToBeSaved(item) ==
    /\ item.flag = "is_file_data" /\ item.filename # <<>> /\ item.data # <<>> /\ dreq.dir
    /\ IsNeedSave(dreq.options, extension(item.filename), 2 * Len(item.data))

\* MakeUploadFileTemporaryName: a name that does not exist.
TemporaryName(i) == i

-------------------------------------------------------------------------------
(* Lookup *)

GetFormData(name) ==
    LET here == {i \in DOMAIN formdata : SameName(formdata[i].name, name)}
    IN  IF here = {} THEN {} ELSE {formdata[Min(here)].data}

\* The values of a name, one or none, in the order of the sources.
Sources(name) ==
    LET query == QueryText(dreq.query)
        url   == IF query = <<>> THEN {} ELSE ParseQueryParameters(query)
    IN  << {e.value : e \in {u \in url : u.name = name}},
           {e.value : e \in {u \in dreq.path : u.name = name}},
           GetFormData(name),
           GetHeader(dreq.headers, name),
           GetHeader(TransferHeadersToCookies(CookieText(dreq.cookies)), name) >>

GetParameter(name) ==
    LET having == SelectSeq(Sources(name), LAMBDA s : s # {})
    IN  IF having = <<>> THEN {} ELSE having[1]

-------------------------------------------------------------------------------
(* UploadFile.  good is the state of _stream, file the one it reads, from its *)
(* beginning; part and done are history: the part that the file is of, and     *)
(* whether it has been saved already.                                          *)

NoFile == [status |-> "no_found", good |-> FALSE, file |-> 0, memory |-> <<>>, part |-> 0, done |-> FALSE]

FromFormDataItem(item, i) ==
    IF IsSavedFile(item)
    THEN [NoFile EXCEPT !.status = "in_stream", !.good = item.data[1] \in DOMAIN disk, !.file = item.data[1],
                        !.part = i]
    ELSE [NoFile EXCEPT !.status = "in_memory", !.memory = item.data, !.part = i]

NoSave == [ok |-> FALSE, file |-> 0, part |-> 0]

Call == /\ ready /\ fileCalls < MaxFileCalls
        /\ fileCalls' = fileCalls + 1
        /\ UNCHANGED <<dreq, ready, formdata>>

GetFile(name) ==
    LET here == {i \in DOMAIN formdata : SameName(formdata[i].name, name) /\ IsFile(formdata[i])}
    IN  /\ Call
        /\ uf' = IF here = {} THEN NoFile ELSE FromFormDataItem(formdata[Min(here)], Min(here))
        /\ saved' = NoSave
        /\ UNCHANGED <<disk, own>>

ToMemory ==
    /\ Call
    /\ uf.status = "in_stream" /\ uf.good
    /\ uf' = [uf EXCEPT !.status = "in_memory", !.memory = disk[uf.file], !.good = FALSE]
    /\ saved' = NoSave
    /\ UNCHANGED <<disk, own>>

\* The memory is written to the file, which is then opened for writing again and
\* is empty when _stream opens it; the status stays as it is.
ToStream(file) ==
    /\ Call
    /\ uf.status = "in_memory"
    /\ \E written, opened \in BOOLEAN :
          /\ opened => written
          /\ disk' = IF written THEN (file :> <<>>) @@ disk ELSE disk
          /\ uf' = IF written THEN [uf EXCEPT !.good = opened, !.file = IF opened THEN file ELSE @] ELSE uf
    /\ saved' = NoSave
    /\ UNCHANGED own

\* Mutant: a file is read with one call of read.
SaveTo_first_block(file) ==
    /\ Call
    /\ uf.status # "no_found"
    /\ \E opened \in BOOLEAN :
       LET ok   == opened /\ (uf.status = "in_stream" => uf.good)
           data == CASE uf.status = "in_memory" -> uf.memory
                     [] ok /\ uf.status = "in_stream" /\ file # uf.file /\ disk[uf.file] # <<>> ->
                           <<Head(disk[uf.file])>>
                     [] OTHER -> <<>>
       IN  /\ disk' = IF opened THEN (file :> data) @@ disk ELSE disk
           /\ uf' = IF ok THEN [uf EXCEPT !.good = uf.status = "in_memory" /\ @, !.memory = <<>>, !.done = TRUE]
                    ELSE uf
           /\ saved' = IF ok /\ ~uf.done THEN [ok |-> TRUE, file |-> file, part |-> uf.part] ELSE NoSave
    /\ own' = (own \/ file \notin DestFiles)

\* The destination is emptied first, whatever comes of it.  A second call has
\* nothing left to write: from memory it reports success nevertheless.
SaveTo(file) ==
    /\ Call
    /\ uf.status # "no_found"
    /\ \E opened \in BOOLEAN :
       LET ok   == opened /\ (uf.status = "in_stream" => uf.good)
           data == CASE uf.status = "in_memory" -> uf.memory
                     [] ok /\ uf.status = "in_stream" /\ file # uf.file -> disk[uf.file]
                     [] OTHER -> <<>>
       IN  /\ disk' = IF opened THEN (file :> data) @@ disk ELSE disk
           /\ uf' = IF ok THEN [uf EXCEPT !.good = uf.status = "in_memory" /\ @, !.memory = <<>>, !.done = TRUE]
                    ELSE uf
           /\ saved' = IF ok /\ ~uf.done THEN [ok |-> TRUE, file |-> file, part |-> uf.part] ELSE NoSave
    /\ own' = (own \/ file \notin DestFiles)

-------------------------------------------------------------------------------
Init == /\ dreq \in DataRequests
        /\ ready = FALSE
        /\ formdata = <<>>
        /\ disk = <<>>
        /\ uf = NoFile /\ saved = NoSave /\ own = FALSE
        /\ fileCalls = 0

\* Before the request goes to the application its form is parsed; each file that
\* is to be saved is, or stays in memory if that fails.
TransferMultiPartsToFormData ==
    LET items == [i \in DOMAIN dreq.parts |-> TransferMultiPartToFormDataItem(dreq.parts[i])]
    IN  \E onDisk \in SUBSET {i \in DOMAIN items : ToBeSaved(items[i])} :
            /\ formdata' = [i \in DOMAIN items |->
                            IF i \in onDisk THEN [items[i] EXCEPT !.flag = "is_file_temporary_name",
                                                                  !.data = <<TemporaryName(i)>>]
                            ELSE items[i]]
            /\ disk' = [i \in onDisk |-> items[i].data]

do_read ==
    /\ ~ready
    /\ ready' = TRUE
    /\ IF dreq.multipart THEN TransferMultiPartsToFormData
       ELSE formdata' = ParseFormUrlEncodedData(QueryText(dreq.fields)) /\ UNCHANGED disk
    /\ UNCHANGED <<dreq, uf, saved, own, fileCalls>>

Next == \/ do_read
        \/ \E name \in Names : GetFile(name)
        \/ ToMemory
        \/ \E file \in DestFiles : ToStream(file)
        \/ \E file \in DestFiles \cup ({uf.file} \ {0}) : SaveTo(file)

-------------------------------------------------------------------------------
(* Properties *)

\* The value of the first pair of a name.
FirstValue(pairs, P(_)) ==
    LET here == {i \in DOMAIN pairs : P(pairs[i].name)}
    IN  IF here = {} THEN {} ELSE {pairs[Min(here)].value}

\* A form of parts as pairs; the value of a file on disk is its name.  A part of
\* another kind leaves an empty item.
PartPairs == [i \in DOMAIN dreq.parts |->
    IF dreq.parts[i].disposition # FormDataWord THEN Pair(<<>>, <<>>)
    ELSE Pair(dreq.parts[i].name,
              IF IsSavedFile(formdata[i]) THEN <<TemporaryName(i)>> ELSE dreq.parts[i].data)]

\* Of names that differ in case only, the value of either; a name counts for its
\* first pair.
FormValues(name) ==
    IF dreq.multipart THEN FirstValue(PartPairs, LAMBDA n : SameName(n, name))
    ELSE UNION {FirstValue(dreq.fields, LAMBDA n : n = other) :
                    other \in {dreq.fields[i].name : i \in DOMAIN dreq.fields} \cap {o \in Names : SameName(o, name)}}

BeforeEquals(value) == Split(value, Equals)[1]

\* What the program may get for a name: what was sent by the first of the sources
\* that has it.
Due(name) ==
    LET sent == << FirstValue(dreq.query, LAMBDA n : n = name),
                   {e.value : e \in {u \in dreq.path : u.name = name}},
                   FormValues(name),
                   {e.value : e \in {h \in dreq.headers : SameName(h.name, name)}},
                   {BeforeEquals(v) : v \in FirstValue(dreq.cookies, LAMBDA n : SameName(n, name))} >>
        here == {i \in DOMAIN sent : sent[i] # {}}
    IN  IF here = {} THEN {} ELSE sent[Min(here)]

\* Every parameter is as it was sent, whatever bytes it is of and wherever it came
\* from, up to the first "=" of a cookie; a file of a form is in memory or in its
\* temporary file; and a file that SaveTo reports as saved has the data that were
\* uploaded, wherever they were and whatever was done to the UploadFile before,
\* unless it was saved before, or onto its temporary file.
DataAsSent ==
    /\ ready => \A name \in Names : /\ GetParameter(name) \subseteq Due(name)
                                    /\ GetParameter(name) = {} => Due(name) = {}
    /\ ~own => \A i \in DOMAIN formdata : IsSavedFile(formdata[i]) => disk[TemporaryName(i)] = dreq.parts[i].data
    /\ saved.ok /\ ~own => disk[saved.file] = dreq.parts[saved.part].data
================================================================================
