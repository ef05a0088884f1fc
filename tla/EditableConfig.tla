--------------------------- MODULE EditableConfig ---------------------------
(***************************************************************************)
(* The configuration an operation edits (src/xray/config): every file's    *)
(* own JSON root, kept for writing back, and beside the roots the merged   *)
(* view the pages show - the inbounds and the outbounds of all files in    *)
(* one list each, and of every other section the winner.                   *)
(*                                                                         *)
(* A configuration is a record                                             *)
(*    roots    file -> its root, or NoFile                                 *)
(*    in, out  the merged inbounds and outbounds, each with its file       *)
(*    routing  the winning routing section with its file, or NoSection     *)
(* `routing' stands for all thirteen sections that occur once: the code    *)
(* has one copy of the same functions for each of them, and this is the    *)
(* one whose contents the others are checked against.                      *)
(*                                                                         *)
(* A tag is a sequence, a name and then the numbers that copying appended; *)
(* the body of an entry stands for everything but its tag - of an inbound, *)
(* whether a given client is in it.                                        *)
(***************************************************************************)
EXTENDS Naturals, SequencesExt

CONSTANTS
    NumFiles,    \* the files of the configuration directory, in path order
    Lower,       \* the lower-case form of every name
    Hosting,     \* section -> the files whose name suggests they host it
    NoFile,      \* no file at that path
    Broken,      \* a file that is not a JSON object
    NoList,      \* a root without that array
    NoSection,   \* a root, or a configuration, without that section
    Unloaded     \* no editable configuration

File == 1..NumFiles
Lists == {"in", "out"}

Fold(tag) == [tag EXCEPT ![1] = Lower[@]]

(* Two inbounds conflict when their tags are equal, two outbounds when     *)
(* they are equal up to case.                                              *)
Same(list, t, u) == IF list = "out" THEN Fold(t) = Fold(u) ELSE t = u

Items(root, list) ==
    IF root = NoFile THEN <<>>
    ELSE IF root[list] = NoList THEN <<>> ELSE root[list]

-----------------------------------------------------------------------------
(* Reading a directory: parse_directory over the files in path order.      *)

Merged(roots, list) ==
    FlattenSeq([f \in File |->
        [i \in DOMAIN Items(roots[f], list) |->
            [file |-> f, item |-> Items(roots[f], list)[i]]]])

Winner(roots) ==
    LET having == {f \in File : roots[f] # NoFile /\ roots[f].routing # NoSection}
    IN  IF having = {} THEN NoSection
        ELSE [file |-> Max(having), refs |-> roots[Max(having)].routing]

(* A file that could not be read is left out of `files'; one that is not   *)
(* JSON leaves nothing editable (parse_file_roots).                        *)
Parse(files) ==
    IF \E f \in File : files[f] = Broken THEN Unloaded
    ELSE IF \A f \in File : files[f] = NoFile THEN Unloaded
    ELSE [roots |-> files, in |-> Merged(files, "in"),
          out |-> Merged(files, "out"), routing |-> Winner(files)]

-----------------------------------------------------------------------------
(* Where an entry is, and where a new one goes.                            *)

MutAlwaysFirst(cfg, list, at) == 1

(* The entry at merged position `at', counted inside its own file.         *)
WithinFile(cfg, list, at) ==
    1 + Cardinality({j \in 1 .. (at - 1) : cfg[list][j].file = cfg[list][at].file})

Loaded(cfg) == {f \in File : cfg.roots[f] # NoFile}
PrimaryFile(cfg) == Min(Loaded(cfg))

(* The file a WARP outbound is put into: there is no preferred one.        *)
OutboundTarget(cfg) ==
    LET owners == {f \in Loaded(cfg) : cfg.roots[f]["out"] # NoList}
        named == Loaded(cfg) \intersect Hosting["out"]
    IN  IF Cardinality(Loaded(cfg)) = 1 THEN PrimaryFile(cfg)
        ELSE IF owners # {} THEN Min(owners)
        ELSE IF named # {} THEN Min(named) ELSE PrimaryFile(cfg)

RoutingTarget(cfg) ==
    LET named == Loaded(cfg) \intersect Hosting["routing"]
    IN  IF cfg.routing # NoSection THEN cfg.routing.file
        ELSE IF Cardinality(Loaded(cfg)) > 1 /\ named # {} THEN Min(named)
        ELSE PrimaryFile(cfg)

MutTakenExactly(cfg, list, tag, except) ==
    \E j \in DOMAIN cfg[list] \ except : cfg[list][j].item.tag = tag

Taken(cfg, list, tag, except) ==
    \E j \in DOMAIN cfg[list] \ except : Same(list, cfg[list][j].item.tag, tag)

(* The first outbound of that tag, 0 when there is none.                   *)
IndexByTag(cfg, tag) ==
    LET found == {j \in DOMAIN cfg.out : Same("out", cfg.out[j].item.tag, tag)}
    IN  IF found = {} THEN 0 ELSE Min(found)

(* "-copy", "-copy-2", ... : the first that is free.                       *)
CopyTag(cfg, list, tag) ==
    LET free == {n \in 1 .. (Len(cfg[list]) + 1) : ~Taken(cfg, list, Append(tag, n), {})}
    IN  Append(tag, Min(free))

MutReferencedExactly(cfg, list, tag) ==
    /\ cfg.routing # NoSection
    /\ \E r \in cfg.routing.refs : r.list = list /\ r.tag = tag

(* The rules of the winning routing section that name this tag; they are   *)
(* compared without regard to case for both lists. (A balancer's selectors *)
(* block the deletion of every outbound whose tag begins with one of them; *)
(* balancers are left out.)                                                *)
Referenced(cfg, list, tag) ==
    /\ cfg.routing # NoSection
    /\ \E r \in cfg.routing.refs : r.list = list /\ Fold(r.tag) = Fold(tag)

(* What of the merged view comes from the file (sections_in_file).         *)
HoldsSections(cfg, f) ==
    \/ cfg.routing # NoSection /\ cfg.routing.file = f
    \/ \E list \in Lists : \E j \in DOMAIN cfg[list] : cfg[list][j].file = f

-----------------------------------------------------------------------------
(* The edits, each made twice: in the root of one file and in the merged   *)
(* view.                                                                   *)

AppendItem(cfg, list, item, f) ==
    [cfg EXCEPT !.roots[f][list] = Append(Items(cfg.roots[f], list), item),
                ![list] = Append(@, [file |-> f, item |-> item])]

ReplaceItem(cfg, list, at, item) ==
    [cfg EXCEPT !.roots[cfg[list][at].file][list][WithinFile(cfg, list, at)] = item,
                ![list][at].item = item]

RemoveItem(cfg, list, at) ==
    [cfg EXCEPT !.roots[cfg[list][at].file][list] =
                    RemoveAt(@, WithinFile(cfg, list, at)),
                ![list] = RemoveAt(@, at)]

SetRouting(cfg, refs) ==
    LET f == RoutingTarget(cfg)
    IN  [cfg EXCEPT !.roots[f].routing = refs,
                    !.routing = [file |-> f, refs |-> refs]]

AddFile(cfg, f) ==
    [cfg EXCEPT !.roots[f] = [in |-> NoList, out |-> NoList, routing |-> NoSection]]

RemoveFile(cfg, f) == [cfg EXCEPT !.roots[f] = NoFile]
=============================================================================
