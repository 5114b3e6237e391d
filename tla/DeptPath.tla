------------------------------ MODULE DeptPath ------------------------------
(***************************************************************************)
(* The organisation tree as pure operators: materialised paths             *)
(* (pkg/dept/path.go), the subtree and the college of a department, and    *)
(* the tree the API answers with (DeptTree).                               *)
(*                                                                         *)
(* depts is the table sys_department: a function from the id of a          *)
(* department to [parent, path].  A path is text, because subtrees are     *)
(* found by comparing texts: a sequence of decimal digits and slashes.     *)
(***************************************************************************)
EXTENDS Integers, Sequences, FiniteSets, SequencesExt

(* The character '/', next to the digits 0 .. 9. *)
Slash == 10

(* strconv of an id: its decimal digits. *)
digits[n \in Nat] ==
    IF n < 10 THEN <<n>> ELSE Append(digits[n \div 10], n % 10)

TrimRight(path) ==
    LET kept == {i \in 1 .. Len(path) : path[i] # Slash}
    IN  IF kept = {} THEN <<>> ELSE SubSeq(path, 1, Max(kept))

(* Mutant: the path of a department does not end in a slash. *)
BuildPathOpen(parentPath, id) ==
    TrimRight(parentPath) \o <<Slash>> \o digits[id]

BuildPath(parentPath, id) ==
    TrimRight(parentPath) \o <<Slash>> \o digits[id] \o <<Slash>>

(* SubtreeIDs: the departments whose path begins with the path of root;    *)
(* an unknown root is an error, here the empty set.                        *)
SubtreeIDs(depts, root) ==
    {d \in DOMAIN depts :
        root \in DOMAIN depts /\ IsPrefix(depts[root].path, depts[d].path)}

(* The ids between the slashes of a path, in order: a slash opens a        *)
(* segment, a digit extends the last one, and nothing follows the last     *)
(* slash.                                                                  *)
Segments(path) ==
    LET read[i \in 0 .. Len(path)] ==
          IF i = 0 THEN <<>>
          ELSE IF path[i] = Slash THEN Append(read[i - 1], 0)
               ELSE LET ids == read[i - 1]
                    IN  [ids EXCEPT ![Len(ids)] = 10 * @ + path[i]]
    IN  Front(read[Len(path)])

PathDepth(path) == Len(Segments(path))

AncestorID(path, depth) == Segments(path)[depth]

(* CollegeSubtreeIDs: the subtree of the ancestor at depth 2, the college; *)
(* a department above the colleges has none (an error).                    *)
CollegeSubtreeIDs(depts, dept) ==
    IF dept \in DOMAIN depts /\ PathDepth(depts[dept].path) >= 2
    THEN SubtreeIDs(depts, AncestorID(depts[dept].path, 2))
    ELSE {}

(* ToTree: the nodes without a parent in the answer and the pairs of a     *)
(* node and its child.  A node whose parent is neither rootID nor among    *)
(* the given ids hangs nowhere.                                            *)
ToTree(depts, ids, rootID) ==
    [roots |-> {d \in ids : depts[d].parent = rootID},
     edges |-> {e \in ids \X ids : /\ depts[e[2]].parent = e[1]
                                   /\ e[1] # rootID}]

(* The departments a client can reach in such a tree. *)
Shown(tree) ==
    LET below[k \in Nat] ==
          IF k = 0 THEN tree.roots
          ELSE LET above == below[k - 1]
               IN  above \cup {e[2] : e \in {x \in tree.edges : x[1] \in above}}
    IN  below[Cardinality(tree.edges)]

(* DeptTree, as the set of departments it shows: everything to the school  *)
(* administrator; to others a node made for the own department, with the   *)
(* tree of what lies below it.                                             *)
DeptTree(depts, role, dept) ==
    IF role = 1 THEN Shown(ToTree(depts, DOMAIN depts, 0))
    ELSE LET ids == SubtreeIDs(depts, dept)
         IN  IF dept \in ids THEN {dept} \cup Shown(ToTree(depts, ids, dept)) ELSE {}

(* The scope the user rpc and the report service give a department: its    *)
(* subtree, or the department alone when it is not in the table.           *)
DeptScope(depts, dept) ==
    IF dept \in DOMAIN depts THEN SubtreeIDs(depts, dept) ELSE {dept}

(* The reference for the paths: the departments with root above them or    *)
(* equal to it, by parent_id (which must not go in a circle).              *)
Descendants(depts, root) ==
    LET below[d \in DOMAIN depts] ==
          d = root \/ (depts[d].parent \in DOMAIN depts /\ below[depts[d].parent])
    IN  {d \in DOMAIN depts : below[d]}
=============================================================================
