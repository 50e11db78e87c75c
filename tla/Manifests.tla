----------------------------- MODULE Manifests ------------------------------
(***************************************************************************)
(* Model-set manifests: what `models draft` writes from the Hub's listing  *)
(* (models/drafts.py), what read_manifest accepts of it after a hand edit, *)
(* and the files that several selected sets name together                  *)
(* (models/manifest.py).  A file of the Hub is its directory, its stem,    *)
(* and the part that its name says it is of how many, or no part.          *)
(***************************************************************************)
EXTENDS Integers, Sequences

CONSTANTS
    Hub,    \* the files of the repositories
    HubPin, \* the revision, size and digest the Hub reports per file, or NoPin
    HubBase \* the base model that the card of the file's repository names

NoPin == 0

File(dir, stem, part, of) == [dir |-> dir, stem |-> stem, part |-> part, of |-> of]
FileType == [dir : STRING, stem : STRING, part : Nat, of : Nat]
RowType == [role : {"weights", "split"}, file : FileType, pin : Nat]
\* An upstream model is an owner and a repository, or it is another text.
Upstreams == {"none", "repository", "other"}
ManifestType ==
    [rows : Seq(RowType), upstream : Upstreams, mtp : BOOLEAN,
     template : {"own", "patched", "lost"}, build : Int]

\* `SPLIT_RE`: the name says a part.
IsSplit(file) == file.part > 0

Row(role, file) == [role |-> role, file |-> file, pin |-> HubPin[file]]

Parts(file) == {[file EXCEPT !.part = i] : i \in 1 .. file.of}

\* The files that a model is, of which llama-server is given the first.
WholeModel(file) == IF IsSplit(file) THEN Parts(file) ELSE {file}

\* A draft is of a file that is there, with all of its parts.
Draftable(wanted) ==
    /\ wanted \in Hub
    /\ IsSplit(wanted) => wanted.part = 1 /\ \A i \in 2 .. wanted.of : [wanted EXCEPT !.part = i] \in Hub

\* Variant: the range of the parts ends one short.
DraftRowsShort(wanted) ==
    <<Row("weights", wanted)>>
        \o [i \in 1 .. (IF IsSplit(wanted) THEN wanted.of - 2 ELSE 0) |-> Row("split", [wanted EXCEPT !.part = i + 1])]

DraftRows(wanted) ==
    <<Row("weights", wanted)>>
        \o [i \in 1 .. (IF IsSplit(wanted) THEN wanted.of - 1 ELSE 0) |-> Row("split", [wanted EXCEPT !.part = i + 1])]

\* The header: what the card says, as it says it, no template of its own, no
\* heads, any build.
Draft(wanted) ==
    [rows |-> DraftRows(wanted), upstream |-> HubBase[wanted], mtp |-> FALSE, template |-> "own", build |-> 0]

-----------------------------------------------------------------------------
RolesOf(rows, role) == {i \in DOMAIN rows : rows[i].role = role}

\* `read_file`, and the destinations that are seen once.
ReadsRows(rows) ==
    /\ rows # <<>>
    /\ \A i \in DOMAIN rows : rows[i].pin # NoPin
    /\ \A i, j \in DOMAIN rows : rows[i].file = rows[j].file => i = j

\* The split belongs to the weights.
Belongs(split, weights) ==
    IsSplit(split) /\ split.stem = weights.stem /\ split.of = weights.of /\ split.dir = weights.dir

\* Variant: the parts are counted by nobody.
ValidRolesUncounted(rows) ==
    \E w \in RolesOf(rows, "weights") :
        /\ RolesOf(rows, "weights") = {w}
        /\ IF IsSplit(rows[w].file)
           THEN /\ rows[w].file.part = 1
                /\ \A i \in RolesOf(rows, "split") : Belongs(rows[i].file, rows[w].file)
           ELSE RolesOf(rows, "split") = {}

\* `validate_roles`: one weights file, and the other parts of it, each once.
ValidRoles(rows) ==
    \E w \in RolesOf(rows, "weights") :
        /\ RolesOf(rows, "weights") = {w}
        /\ IF IsSplit(rows[w].file)
           THEN /\ rows[w].file.part = 1
                /\ \A i \in RolesOf(rows, "split") : Belongs(rows[i].file, rows[w].file)
                /\ \A i, j \in RolesOf(rows, "split") : rows[i].file.part = rows[j].file.part => i = j
                /\ \A i \in RolesOf(rows, "split") : rows[i].file.part # 1
                /\ {1} \cup {rows[i].file.part : i \in RolesOf(rows, "split")} = 1 .. rows[w].file.of
           ELSE RolesOf(rows, "split") = {}

ReadsManifest(manifest) ==
    manifest.upstream # "other" /\ ReadsRows(manifest.rows) /\ ValidRoles(manifest.rows)

\* `ModelSet.weights`, of a manifest that was read.
Weights(manifest) ==
    manifest.rows[CHOOSE i \in RolesOf(manifest.rows, "weights") : TRUE].file

RowsOf(manifest) == {manifest.rows[i] : i \in DOMAIN manifest.rows}
FilesOf(manifest) == {row.file : row \in RowsOf(manifest)}

\* `merged_files` of the selected manifests: refused when two of them disagree
\* about a destination.
Merged(manifests) == UNION {RowsOf(m) : m \in manifests}
Agree(manifests) == \A row, other \in Merged(manifests) : row.file = other.file => row = other

=============================================================================
