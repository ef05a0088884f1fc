------------------------------ MODULE ConfDir ------------------------------
(***************************************************************************)
(* A configuration directory, the copy the application loaded of it, and   *)
(* the operations that change both: src/xray/config/modify.rs, the workers *)
(* of src/app/*_ops.rs that run them, and the dialogs that ask for them.   *)
(*                                                                         *)
(* An operation edits a clone of the loaded configuration, writes the one  *)
(* file it changed and, when that succeeds, installs the clone; one that   *)
(* is refused or fails leaves everything but its dialog as it was, which   *)
(* is the step Cancel. (How the file is written is ConfigWrite, and how    *)
(* operations and discoveries overlap is AppService: here an operation is  *)
(* one step.)                                                              *)
(*                                                                         *)
(* A dialog is opened on a row of a page and remembers its position; the   *)
(* configuration may be discovered again, or edited through another        *)
(* window, before it is confirmed.                                         *)
(***************************************************************************)
EXTENDS EditableConfig

CONSTANTS
    Names,        \* what a user types as a tag
    RoutingRefs,  \* the contents of a routing section: the tags its rules name
    InitDisks,    \* the directories to start from
    OutsideFiles, \* what an administrator may put into a file
    NoDialog,
    MaxItems,     \* bound on the length of a merged list
    MaxOps,       \* bound on the operations
    MaxOutside,   \* bound on the administrator's edits
    MaxUnread     \* bound on the files one discovery cannot read

(* What tags, entries, rules and files are.                                *)
Typed  == {<<n>> : n \in Names}
Tag    == {t \in Seq(Names \union Nat) : t # <<>>}
Item   == [tag : Typed, body : {0, 1}]
Stored == [tag : Tag, body : {0, 1}]
Rule   == [list : Lists, tag : Tag]
Root   == [in : {NoList} \union Seq(Stored), out : {NoList} \union Seq(Stored),
           routing : {NoSection} \union SUBSET Rule]

ASSUME ConfDirAssumption ==
    /\ NumFiles \in Nat \ {0}
    /\ \A n \in Names : Lower[n] \in Names /\ Lower[Lower[n]] = Lower[n]
    /\ InitDisks \subseteq [File -> {NoFile, Broken} \union Root]
    /\ OutsideFiles \subseteq {Broken} \union Root
    /\ RoutingRefs \subseteq SUBSET Rule

(* What is not there is nothing that could be there.                       *)
ASSUME AbsentAssumption ==
    /\ NoFile \notin Root /\ NoList \notin Seq(Stored)
    /\ NoSection \notin [file : File, refs : SUBSET Rule] \union RoutingRefs

VARIABLES
    disk,     \* the files on the server
    loaded,   \* ApplicationService.loaded_config
    dialog,   \* the open dialog or editor, with the entry it was opened on
    synced,   \* loaded came from all of disk and nobody else wrote since
    ops, outside

vars == <<disk, loaded, dialog, synced, ops, outside>>

Init ==
    /\ disk \in InitDisks
    /\ loaded = Parse(disk)
    /\ dialog = NoDialog
    /\ synced = TRUE
    /\ ops = 0 /\ outside = 0

-----------------------------------------------------------------------------
MutSavePrimary(cfg, f) ==
    /\ ops < MaxOps
    /\ loaded' = cfg
    /\ LET g == Min(Loaded(cfg) \union {f})
       IN  disk' = [disk EXCEPT ![g] = cfg.roots[g]]
    /\ ops' = ops + 1
    /\ UNCHANGED <<synced, outside>>

(* A worker's success: the file is written, the edited clone installed.    *)
Save(cfg, f) ==
    /\ ops < MaxOps
    /\ loaded' = cfg
    /\ disk' = [disk EXCEPT ![f] = cfg.roots[f]]
    /\ ops' = ops + 1
    /\ UNCHANGED <<synced, outside>>

(* What the settings and WARP compare before they write: the file is still *)
(* as it was loaded.                                                       *)
Unchanged(f) == disk[f] = loaded.roots[f]

Ready == loaded # Unloaded /\ Loaded(loaded) # {}

-----------------------------------------------------------------------------
(* Dialogs.                                                                *)

DialogOps == [in |-> {"save", "delete", "duplicate", "add_client", "drop_client"},
              out |-> {"save", "delete", "duplicate", "rename"}]

(* The inbound delete dialog is not offered its button while a rule names  *)
(* the inbound it was opened on.                                           *)
Open(list, at, op) ==
    /\ Ready /\ dialog = NoDialog /\ ops < MaxOps
    /\ op = "delete" /\ list = "in" =>
          ~Referenced(loaded, list, loaded[list][at].item.tag)
    /\ op = "drop_client" => loaded[list][at].item.body = 1
    /\ dialog' = [op |-> op, list |-> list, at |-> at, seen |-> loaded[list][at].item]
    /\ UNCHANGED <<disk, loaded, synced, ops, outside>>

Cancel ==
    /\ dialog # NoDialog
    /\ dialog' = NoDialog
    /\ UNCHANGED <<disk, loaded, synced, ops, outside>>

(* The position the dialog remembers is looked up in the configuration     *)
(* that is loaded when it is confirmed.                                    *)
Confirmed(op) ==
    /\ Ready /\ dialog # NoDialog
    /\ dialog.op = op
    /\ dialog.at \in DOMAIN loaded[dialog.list]
    /\ dialog' = NoDialog

Target == loaded[dialog.list][dialog.at]

MutSaveFreshFingerprint(item) ==
    /\ Confirmed("save")
    /\ ~Taken(loaded, dialog.list, item.tag, {dialog.at})
    /\ Save(ReplaceItem(loaded, dialog.list, dialog.at, item), Target.file)

(* Editor save and raw JSON: the fingerprint is the one of the entry the   *)
(* editor was opened on. A save in the inbound editor and raw JSON may     *)
(* change the tag.                                                         *)
SaveEntry(item) ==
    /\ Confirmed("save")
    /\ Target.item = dialog.seen
    /\ ~Taken(loaded, dialog.list, item.tag, {dialog.at})
    /\ Save(ReplaceItem(loaded, dialog.list, dialog.at, item), Target.file)

(* Delete and rename take the fingerprint only now, of whatever is there.  *)
Delete ==
    /\ Confirmed("delete")
    /\ ~Referenced(loaded, dialog.list, Target.item.tag)
    /\ Save(RemoveItem(loaded, dialog.list, dialog.at), Target.file)

Rename(tag) ==
    /\ Confirmed("rename")
    /\ ~Taken(loaded, "out", tag, {dialog.at})
    /\ Save(ReplaceItem(loaded, "out", dialog.at, [Target.item EXCEPT !.tag = tag]),
            Target.file)

Duplicate ==
    /\ Confirmed("duplicate")
    /\ Len(loaded[dialog.list]) < MaxItems
    /\ Save(AppendItem(loaded, dialog.list,
                [Target.item EXCEPT !.tag = CopyTag(loaded, dialog.list, @)],
                Target.file),
            Target.file)

(* Clients are found by the position of their inbound; what is compared    *)
(* when one is removed is the client, not the inbound.                     *)
SetClient(op, present) ==
    /\ Confirmed(op)
    /\ Target.item.body = 1 - present
    /\ Save(ReplaceItem(loaded, "in", dialog.at, [Target.item EXCEPT !.body = present]),
            Target.file)

AddClient == SetClient("add_client", 1)
DropClient == SetClient("drop_client", 0)

-----------------------------------------------------------------------------
(* Operations that name no position.                                       *)

(* Both Add forms put the new entry into the first file.                   *)
Add(list, item) ==
    /\ Ready
    /\ Len(loaded[list]) < MaxItems
    /\ ~Taken(loaded, list, item.tag, {})
    /\ Save(AppendItem(loaded, list, item, PrimaryFile(loaded)), PrimaryFile(loaded))
    /\ UNCHANGED dialog

SaveRouting(refs) ==
    /\ Ready
    /\ Unchanged(RoutingTarget(loaded))
    /\ Save(SetRouting(loaded, refs), RoutingTarget(loaded))
    /\ UNCHANGED dialog

(* WARP adds, regenerates and removes its outbound by tag.                 *)
WarpAdd(item) ==
    /\ Ready
    /\ Len(loaded.out) < MaxItems
    /\ ~Taken(loaded, "out", item.tag, {})
    /\ Unchanged(OutboundTarget(loaded))
    /\ Save(AppendItem(loaded, "out", item, OutboundTarget(loaded)), OutboundTarget(loaded))
    /\ UNCHANGED dialog

WarpReplace(item) ==
    LET at == IndexByTag(loaded, item.tag)
    IN  /\ Ready
        /\ at # 0
        /\ ~Taken(loaded, "out", item.tag, {at})
        /\ Unchanged(loaded.out[at].file)
        /\ Save(ReplaceItem(loaded, "out", at, item), loaded.out[at].file)
        /\ UNCHANGED dialog

WarpRemove(tag) ==
    LET at == IndexByTag(loaded, tag)
    IN  /\ Ready
        /\ at # 0
        /\ ~Referenced(loaded, "out", tag)
        /\ Unchanged(loaded.out[at].file)
        /\ Save(RemoveItem(loaded, "out", at), loaded.out[at].file)
        /\ UNCHANGED dialog

(* A member of the directory is created when neither the loaded copy nor   *)
(* the server has it, and removed when nothing loaded comes from it.       *)
CreateFile(f) ==
    /\ Ready
    /\ loaded.roots[f] = NoFile /\ disk[f] = NoFile
    /\ Save(AddFile(loaded, f), f)
    /\ UNCHANGED dialog

DeleteFile(f) ==
    /\ Ready
    /\ f \in Loaded(loaded) /\ disk[f] # NoFile
    /\ ~HoldsSections(loaded, f)
    /\ Save(RemoveFile(loaded, f), f)
    /\ UNCHANGED dialog

-----------------------------------------------------------------------------
(* Discovery reads the directory again; a file it cannot read is missing   *)
(* from what it loads. An administrator edits a file behind its back.      *)
Discover(unread) ==
    /\ loaded' = Parse([f \in File |-> IF f \in unread THEN NoFile ELSE disk[f]])
    /\ synced' = \A f \in unread : disk[f] = NoFile
    /\ UNCHANGED <<disk, dialog, ops, outside>>

AdminEdit(f, root) ==
    /\ outside < MaxOutside
    /\ disk[f] # NoFile /\ disk[f] # root
    /\ disk' = [disk EXCEPT ![f] = root]
    /\ synced' = FALSE
    /\ outside' = outside + 1
    /\ UNCHANGED <<loaded, dialog, ops>>

UseDialog ==
    \/ loaded # Unloaded /\ \E list \in Lists : \E at \in DOMAIN loaded[list] :
           \E op \in DialogOps[list] : Open(list, at, op)
    \/ Cancel
    \/ \E item \in Item : SaveEntry(item)
    \/ Delete
    \/ \E tag \in Typed : Rename(tag)
    \/ Duplicate
    \/ AddClient
    \/ DropClient

Edit ==
    \/ \E list \in Lists, item \in Item : Add(list, item)
    \/ \E refs \in RoutingRefs : SaveRouting(refs)
    \/ \E item \in Item : WarpAdd(item)
    \/ \E item \in Item : WarpReplace(item)
    \/ \E tag \in Typed : WarpRemove(tag)
    \/ \E f \in File : CreateFile(f)
    \/ \E f \in File : DeleteFile(f)

Next ==
    \/ UseDialog
    \/ Edit
    \/ \E unread \in SUBSET File : Cardinality(unread) <= MaxUnread /\ Discover(unread)
    \/ \E f \in File, root \in OutsideFiles : AdminEdit(f, root)

Spec == Init /\ [][Next]_vars

-----------------------------------------------------------------------------
(* Properties.                                                             *)

(* How many of the first n entries of a merged list are of file f.         *)
Place(merged, f, n) == Cardinality({i \in 1 .. n : merged[i].file = f})

(* The merged entries of a file are its array, in its order.               *)
Mirrors(merged, f, array) ==
    /\ Len(array) = Place(merged, f, Len(merged))
    /\ \A j \in DOMAIN merged :
          merged[j].file = f => merged[j].item = array[Place(merged, f, j)]

(* The merged view and the roots are two copies of the same thing, kept in *)
(* step by position arithmetic: in every file the merged entries are that  *)
(* file's array in its order, and the winning section is the root's        *)
(* (EditableXrayConfig, locate_inbound and the replace and remove of both  *)
(* lists). Otherwise the page shows one entry and Save overwrites another. *)
MirrorsRoots ==
    loaded # Unloaded =>
        /\ \A list \in Lists, f \in File :
              Mirrors(loaded[list], f, Items(loaded.roots[f], list))
        /\ loaded.routing = Winner(loaded.roots)

(* As long as nobody else writes, the copy that is kept across operations  *)
(* stays what a new discovery would read, file by file (every worker       *)
(* installs the clone it wrote one file of).                               *)
LoadedIsDisk == synced => loaded = Unloaded \/ loaded.roots = disk

Edited == disk' # disk /\ loaded' # loaded

Unique(cfg, list) ==
    \A i, j \in DOMAIN cfg[list] :
        Same(list, cfg[list][i].item.tag, cfg[list][j].item.tag) => i = j

(* No operation makes a tag ambiguous that was not: adding, copying,       *)
(* renaming and replacing all look at every file (add_inbound_value,       *)
(* replace_outbound_value, unique_outbound_copy_tag).                      *)
TagsStayUnique ==
    [][Edited => \A list \in Lists : Unique(loaded, list) => Unique(loaded', list)]_vars

(* What the rules on the server name and no entry on the server has.       *)
Dangling(files) ==
    {r \in IF Winner(files) = NoSection THEN {} ELSE Winner(files).refs :
        \A j \in DOMAIN Merged(files, r.list) :
            Fold(Merged(files, r.list)[j].item.tag) # Fold(r.tag)}

Removed(list) == Len(loaded'[list]) < Len(loaded[list])

(* Deleting an entry, from the dialog or by WARP, never leaves a rule      *)
(* naming nothing (tag_refs.rs, checked in delete_inbound, delete_outbound *)
(* and remove_outbound).                                                   *)
DeleteKeepsReferences ==
    [][Edited /\ synced /\ (\E list \in Lists : Removed(list))
        => Dangling(disk') \subseteq Dangling(disk)]_vars

EntriesOn(files) ==
    UNION {{[list |-> list, item |-> Merged(files, list)[j].item] :
                j \in DOMAIN Merged(files, list)} : list \in Lists}

(* A dialog that is confirmed takes nothing from the server but the entry  *)
(* it was opened on, whatever was discovered since.                        *)
ActsOnItsEntry(op) ==
    dialog # NoDialog /\ dialog' = NoDialog /\ Edited /\ synced /\ dialog.op = op =>
        EntriesOn(disk) \ EntriesOn(disk')
            \subseteq {[list |-> dialog.list, item |-> dialog.seen]}

(* Editors and raw JSON: the fingerprint taken when the entry was opened   *)
(* catches every reordering (with_inbound_mut, replace_inbound_raw_json,   *)
(* update_outbound_shell).                                                 *)
SavesWhatWasOpened == [][ActsOnItsEntry("save")]_vars

IsEmpty(root) ==
    (\A list \in Lists : Items(root, list) = <<>>) /\ root.routing = NoSection

(* What remove_confdir_file says of itself: a file is not removed while it *)
(* still contains any section. sections_in_file looks at the merged view,  *)
(* where a section that a later file overrides is not this file's.         *)
RemovedFileIsEmpty ==
    [][\A f \in File :
          synced /\ disk[f] # NoFile /\ disk'[f] = NoFile => IsEmpty(disk[f])]_vars
=============================================================================
