------------------------------- MODULE Archive -------------------------------
(***************************************************************************)
(* Unpacking the official package (installer.go, safeExtractTarGz): the    *)
(* entries of a tar archive are checked and written one by one below a new *)
(* directory, through whatever links earlier entries have made.  A path is *)
(* the sequence of its names, an absolute one begins with "/".             *)
(***************************************************************************)
EXTENDS Integers, Sequences, SequencesExt

CONSTANT Headers  \* [name, type, link, size] of the entries an archive may have

(* The names in the paths, and the two that the model adds.                 *)
Names ==
  {"dest", "no path"} \cup UNION {ToSet(h.name) \cup ToSet(h.link) : h \in Headers}
IsPath(path) ==
  path \in Seq(Names) /\ \A i \in DOMAIN path : path[i] = "/" => i = 1
ASSUME HeadersAssumption == \A h \in Headers : IsPath(h.name) /\ IsPath(h.link)

VARIABLES
  tree,      \* the files: a node for each real path
  unpacked,  \* the headers read so far
  binary,    \* the path of the agent binary in the archive, or NoPath
  extract    \* "none", "reading", "done", "failed"

archive == <<tree, unpacked, binary, extract>>

NoPath == <<"no path">>
Dest == <<"dest">>
Dir == [kind |-> "dir"]
NewTree == [p \in {<<>>, Dest} |-> Dir]

InitArchive ==
  /\ tree = NewTree
  /\ unpacked = <<>>
  /\ binary = NoPath
  /\ extract = "none"

-----------------------------------------------------------------------------
(* Paths.                                                                   *)

Clean(path) ==
  LET Done[n \in 0 .. Len(path)] ==
        IF n = 0 THEN <<>>
        ELSE LET done == Done[n - 1]
                 c == path[n]
             IN CASE c = "." -> done
                  [] c = ".." /\ done = <<"/">> -> done
                  [] c = ".." /\ done # <<"/">> /\ done # <<>> /\ Last(done) # ".." ->
                       Front(done)
                  [] OTHER -> Append(done, c)
  IN Done[Len(path)]

SafeArchivePath(name) ==
  LET clean == Clean(name) IN
  IF clean = <<>> \/ Head(clean) \in {"/", ".."} THEN NoPath ELSE clean

(* A link is relative, does not go up, and leads to a safe path as it reads.*)
(* (The code looks for ".." in the text of a path, so it also refuses names *)
(* like "..x"; the instances have none.  An empty target os.Symlink refuses.)*)
SafeLinkAnyTarget(clean, link) == link # <<>> /\ link[1] # "/"

SafeLink(clean, link) ==
  /\ link # <<>>
  /\ SafeArchivePath(Front(clean) \o link) # NoPath
  /\ link[1] # "/"
  /\ ~Contains(link, "..")

(* How the system looks a path up: from a directory, name by name, through  *)
(* at most 40 links.                                                        *)
Lookups == [dir : Seq(Names), rest : Seq(Names), links : 0 .. 40]

Fails(fs, l) ==
  LET p == Append(l.dir, Head(l.rest)) IN
  /\ Head(l.rest) \notin {"/", ".", ".."}
  /\ p \notin DOMAIN fs \/ (fs[p].kind = "link" /\ l.links = 0)

Onward(fs, l) ==
  LET c == Head(l.rest)
      p == Append(l.dir, c)
      To(dir) == [dir |-> dir, rest |-> Tail(l.rest), links |-> l.links]
  IN CASE c = "/" -> To(<<>>)
       [] c = "." -> To(l.dir)
       [] c = ".." -> To(IF l.dir = <<>> THEN l.dir ELSE Front(l.dir))
       [] OTHER ->
            IF fs[p].kind # "link" THEN To(p)
            ELSE [dir |-> l.dir, rest |-> fs[p].target \o Tail(l.rest),
                  links |-> l.links - 1]

Resolved(fs, at, path) ==
  LET Follow[l \in Lookups] ==
        IF l.rest = <<>> THEN l.dir
        ELSE IF Fails(fs, l) THEN NoPath
        ELSE Follow[Onward(fs, l)]
  IN Follow[[dir |-> at, rest |-> path, links |-> 40]]

With(fs, p, node) ==
  [q \in DOMAIN fs \cup {p} |-> IF q \in DOMAIN fs THEN fs[q] ELSE node]
Replaced(fs, p, node) == [q \in DOMAIN fs \cup {p} |-> IF q = p THEN node ELSE fs[q]]

(* os.MkdirAll below Dest, name by name: the tree, and the directory, or    *)
(* NoPath if something else is in the way.                                  *)
MkdirAll(fs, path) ==
  LET Made[n \in 0 .. Len(path)] ==
        IF n = 0 THEN [fs |-> fs, at |-> Dest]
        ELSE LET made == Made[n - 1]
                 p == Append(made.at, path[n])
                 r == Resolved(made.fs, Dest, SubSeq(path, 1, n))
             IN IF made.at = NoPath THEN made
                ELSE IF p \notin DOMAIN made.fs
                THEN [fs |-> With(made.fs, p, Dir), at |-> p]
                ELSE IF r # NoPath /\ made.fs[r] = Dir
                THEN [fs |-> made.fs, at |-> r]
                ELSE [fs |-> made.fs, at |-> NoPath]
  IN Made[Len(path)]

(* O_EXCL and os.Symlink: nothing that is there is ever replaced.           *)
CreateReplacing(parent, name, node) ==
  LET p == Append(parent.at, name) IN
  IF \/ parent.at = NoPath
     \/ p \in DOMAIN parent.fs /\ ~(parent.fs[p].kind = "file" /\ node.kind = "file")
  THEN [fs |-> parent.fs, at |-> NoPath]
  ELSE [fs |-> Replaced(parent.fs, p, node), at |-> parent.at]

Create(parent, name, node) ==
  IF parent.at = NoPath \/ Append(parent.at, name) \in DOMAIN parent.fs
  THEN [fs |-> parent.fs, at |-> NoPath]
  ELSE [fs |-> With(parent.fs, Append(parent.at, name), node), at |-> parent.at]

-----------------------------------------------------------------------------
(* safeExtractTarGz.                                                        *)

ExtractBegin ==
  /\ extract' = "reading"
  /\ tree' = NewTree
  /\ unpacked' = <<>>
  /\ binary' = NoPath

Expanded(headers) ==
  FoldLeft(LAMBDA n, h : n + (IF h.type = "file" THEN h.size ELSE 0), 0, headers)

Refuses(header, maxEntries, maxBytes) ==
  LET clean == SafeArchivePath(header.name) IN
  \/ Len(unpacked) + 1 > maxEntries
  \/ clean = NoPath
  \/ \E i \in DOMAIN unpacked : SafeArchivePath(unpacked[i].name) = clean
  \/ header.type \notin {"dir", "file", "link"}
  \/ header.type = "file" /\ Expanded(Append(unpacked, header)) > maxBytes
  \/ header.type = "link" /\ ~SafeLink(clean, header.link)

(* What writing the entry makes of the tree.                                *)
Written(header) ==
  LET clean == SafeArchivePath(header.name)
      parent == MkdirAll(tree, Front(clean))
  IN CASE header.type = "dir" -> MkdirAll(tree, clean)
       [] header.type = "file" ->
            Create(parent, Last(clean), [kind |-> "file", of |-> Len(unpacked) + 1])
       [] header.type = "link" ->
            Create(parent, Last(clean), [kind |-> "link", target |-> header.link])

ExtractEntry(header, maxEntries, maxBytes) ==
  /\ extract = "reading"
  /\ unpacked' = Append(unpacked, header)
  /\ IF Refuses(header, maxEntries, maxBytes)
     THEN extract' = "failed" /\ UNCHANGED <<tree, binary>>
     ELSE LET clean == SafeArchivePath(header.name)
              written == Written(header)
          IN /\ tree' = written.fs
             /\ extract' = IF written.at = NoPath THEN "failed" ELSE extract
             /\ binary' = IF /\ written.at # NoPath
                             /\ header.type = "file"
                             /\ Last(clean) \in {"agent", "cursor-agent"}
                          THEN clean ELSE binary

(* The end of the archive, or an entry that cannot be read.                 *)
ExtractEnd ==
  /\ extract = "reading"
  /\ extract' \in {"failed", IF binary = NoPath THEN "failed" ELSE "done"}
  /\ UNCHANGED <<tree, unpacked, binary>>

ExtractForgotten ==
  /\ extract' = "none"
  /\ tree' = NewTree
  /\ unpacked' = <<>>
  /\ binary' = NoPath

-----------------------------------------------------------------------------
(* Properties.                                                              *)

(* Whatever links an archive makes and uses, every file, directory and link *)
(* lies below the directory it is unpacked into (installer.go:392, :431;    *)
(* "TestSafeExtractRejectsTraversalLinksAndDevices").                       *)
ExtractedInside == \A p \in DOMAIN tree : p = <<>> \/ Head(p) = Head(Dest)

(* A file of the archive is found under its own name afterwards: two names  *)
(* that links make the same are refused like two equal names, so no entry   *)
(* replaces another, and the binary that is run is the entry that was named *)
(* so (installer.go:396, :414, :426-429).                                   *)
ExtractedAsListed ==
  extract # "failed" =>
    /\ \A i \in DOMAIN unpacked :
         unpacked[i].type = "file" =>
           LET p == Resolved(tree, Dest, Clean(unpacked[i].name)) IN
           p \in DOMAIN tree /\ tree[p] = [kind |-> "file", of |-> i]
    /\ extract = "done" =>
         \E i \in DOMAIN unpacked : /\ unpacked[i].type = "file"
                                    /\ Clean(unpacked[i].name) = binary
=============================================================================
