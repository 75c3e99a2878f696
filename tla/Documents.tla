----------------------------- MODULE Documents ------------------------------
(***************************************************************************)
(* Documents (serialization): a tree of nodes that the program builds and  *)
(* reads, and that is written as YAML, JSON or bytes and read again.       *)
(* rep.nodes has the nodes, of which the first is the root; rep.written    *)
(* what was written last, as events of the YAML library, tokens of JSON or *)
(* fields of bytes. In ref a document is a function from paths to values.  *)
(* A value has a kind and the text that says which one it is.              *)
(***************************************************************************)
EXTENDS SequencesExt, Integers

CONSTANTS Scalars,      \* values of nodes
          Keys,         \* keys of maps, in their order
          Integral,     \* texts of digits only
          Fractional,   \* texts that are numbers otherwise
          MaxNodes      \* nodes before the program stops to change them
VARIABLES rep, ref, fault

vars == <<rep, ref, fault>>

Value(kind, text) == [kind |-> kind, text |-> text]
Nil == Value("nil", "~")
Indices == <<"#0", "#1", "#2">>
Index(i) == Indices[i + 1]
Steps == Indices \o Keys \o <<"yaml_document">>

None == [s \in {} |-> 0]
Leaf(v) == [kind |-> v.kind, text |-> v.text, items |-> None]
StepsOf(node) == SelectSeq(Steps, LAMBDA s : s \in DOMAIN node.items)
With(f, k, v) == [x \in DOMAIN f \cup {k} |-> IF x = k THEN v ELSE f[x]]

RECURSIVE PathsFrom(_, _)
PathsFrom(nodes, n) ==
    {<<>>} \cup UNION {{<<s>> \o p : p \in PathsFrom(nodes, nodes[n].items[s])} : s \in DOMAIN nodes[n].items}
Follow(nodes, p) == FoldLeft(LAMBDA n, s : nodes[n].items[s], 1, p)
Tree(nodes) == [p \in PathsFrom(nodes, 1) |->
                  LET node == nodes[Follow(nodes, p)] IN Value(node.kind, node.text)]
PathsTo(nodes, n) == {p \in PathsFrom(nodes, 1) : Follow(nodes, p) = n}

RECURSIVE Reached(_, _)
Reached(nodes, found) ==
    LET more == found \cup UNION {{nodes[n].items[s] : s \in DOMAIN nodes[n].items} : n \in found}
    IN  IF more = found THEN found ELSE Reached(nodes, more)
Circular(nodes) ==
    \E n \in Reached(nodes, {1}) :
      n \in Reached(nodes, {nodes[n].items[s] : s \in DOMAIN nodes[n].items})

-----------------------------------------------------------------------------
(* DocumentNode, each operation a function of the nodes.                    *)
make(nodes) == Append(nodes, Leaf(Nil))
assign(nodes, n, v) == [nodes EXCEPT ![n] = Leaf(v)]
become(nodes, n, kind) == IF nodes[n].kind = kind THEN nodes ELSE assign(nodes, n, Value(kind, ""))
array_size(nodes, n) == Cardinality(DOMAIN nodes[n].items)
put(nodes, n, step, child) == [nodes EXCEPT ![n].items = With(@, step, child)]

array_push(nodes, n) ==
    LET more == make(become(nodes, n, "array"))
    IN  put(more, n, Index(array_size(more, n)), Len(more))

at_index(nodes, n, i) ==
    LET array == become(nodes, n, "array")
    IN  FoldLeft(LAMBDA all, k : array_push(all, n), array, [k \in 1 .. i + 1 - array_size(array, n) |-> k])

at_key(nodes, n, key) ==
    LET map == become(nodes, n, "map")
    IN  IF key \in DOMAIN map[n].items THEN map ELSE put(make(map), n, key, Len(map) + 1)

clear_document == <<Leaf(Nil)>>

-----------------------------------------------------------------------------
(* YAML. What a number is printed as, and what a text is read as.           *)
Event(ev, text, anchor) == [ev |-> ev, text |-> text, anchor |-> anchor]
Plain(text) == Event("scalar", text, "")
TooSmall == Value("float", "1e-9")
Printed(v) == IF v = TooSmall THEN "0.0" ELSE v.text

RECURSIVE emit(_, _)
emit(nodes, n) ==
    LET node == nodes[n]
        Of(key, step) == (IF key THEN <<Plain(step)>> ELSE <<>>) \o emit(nodes, node.items[step])
    IN  CASE node.kind = "nil"    -> <<Plain("~")>>
          [] node.kind = "string" -> <<Plain(IF node.text = "~" THEN "\\~" ELSE node.text)>>
          [] node.kind \in {"int", "float"} -> <<Plain(Printed(Value(node.kind, node.text)))>>
          [] node.kind \in {"array", "map"} ->
               <<Event("begin", node.kind, "")>>
               \o FlattenSeq([i \in DOMAIN StepsOf(node) |-> Of(node.kind = "map", StepsOf(node)[i])])
               \o <<Event("end", node.kind, "")>>

(* strtod takes all of an empty text.                                       *)
scalar(text) ==
    CASE text = "~"                        -> Nil
      [] text = "\\~"                      -> Value("string", "~")
      [] text \in Integral                 -> Value("int", text)
      [] text \in Fractional \cup {""}     -> Value("float", IF text = "" THEN "0.0" ELSE text)
      [] OTHER                             -> Value("string", text)

(* The state of the parser: a stack of nodes with a key that awaits its     *)
(* value, what is complete, and what anchors name.                          *)
Parser(nodes) == [nodes |-> nodes, stack |-> <<>>, roots |-> <<>>, anchors |-> None, error |-> ""]

\* Mutant: the key is kept after its value came.
add_value_to_top_KeepKey(s, n) ==
    LET top  == Last(s.stack)
        kind == s.nodes[top.node].kind
        step == IF kind = "array" THEN Index(array_size(s.nodes, top.node)) ELSE top.key
    IN  CASE s.stack = <<>> -> [s EXCEPT !.roots = Append(@, n)]
          [] s.stack # <<>> /\ kind = "map" /\ top.key = "" ->
               [s EXCEPT !.stack[Len(s.stack)].key = s.nodes[n].text]
          [] OTHER -> [s EXCEPT !.nodes = put(@, top.node, step, n)]

add_value_to_top(s, n) ==
    LET top  == Last(s.stack)
        kind == s.nodes[top.node].kind
        step == IF kind = "array" THEN Index(array_size(s.nodes, top.node)) ELSE top.key
    IN  CASE s.stack = <<>> -> [s EXCEPT !.roots = Append(@, n)]
          [] s.stack # <<>> /\ kind = "map" /\ top.key = "" ->
               IF s.nodes[n].kind = "string" THEN [s EXCEPT !.stack[Len(s.stack)].key = s.nodes[n].text]
               ELSE [s EXCEPT !.error = "raised"]
          [] OTHER -> [s EXCEPT !.nodes = put(@, top.node, step, n), !.stack[Len(s.stack)].key = ""]

begin(s, event) ==
    LET n == Len(s.nodes) + 1
    IN  [s EXCEPT !.nodes = Append(@, Leaf(Value(event.text, ""))), !.stack = Append(@, [node |-> n, key |-> ""]),
                  !.anchors = IF event.anchor = "" THEN @ ELSE With(@, event.anchor, n)]

parse(s, event) ==
    CASE s.error # ""         -> s
      [] s.error = "" /\ event.ev = "error" -> [s EXCEPT !.error = "libyaml"]
      [] s.error = "" /\ event.ev = "begin" -> begin(s, event)
      [] s.error = "" /\ event.ev = "end"   -> add_value_to_top([s EXCEPT !.stack = Front(@)], Last(s.stack).node)
      [] s.error = "" /\ event.ev = "alias" ->
           IF event.text \in DOMAIN s.anchors THEN add_value_to_top(s, s.anchors[event.text])
           ELSE [s EXCEPT !.error = "raised"]
      [] s.error = "" /\ event.ev = "scalar" ->
           add_value_to_top([s EXCEPT !.nodes = Append(@, Leaf(scalar(event.text)))], Len(s.nodes) + 1)

(* The first root that is complete is moved to the root of the document if  *)
(* it is a map, or else becomes its only element.                           *)
read_yaml(nodes, events) ==
    LET s    == FoldLeft(parse, Parser(clear_document), events)
        root == Head(s.roots)
        error == IF s.error = "" /\ s.roots = <<>> THEN "unknown" ELSE s.error
    IN  [error |-> error,
         nodes |-> IF error # "" THEN nodes
                   ELSE IF s.nodes[root].kind = "map"
                   THEN [s.nodes EXCEPT ![1] = s.nodes[root], ![root] = Leaf(Value("map", ""))]
                   ELSE [s.nodes EXCEPT ![1] = [kind |-> "map", text |-> "", items |-> With(None, "yaml_document", root)]]]

(* What YAML does not bring back as it was.                                 *)
TextKept(text) == scalar(text) = Value("string", text)
YamlLoses(tree) ==
    CASE tree[<<>>].kind # "map" -> "wrapped in a map"
      [] \E p \in DOMAIN tree : \E i \in DOMAIN p : p[i] \in ToSet(Keys) /\ ~TextKept(p[i]) -> "key is not a string"
      [] \E p \in DOMAIN tree : tree[p].kind = "string" /\ tree[p].text # "~" /\ ~TextKept(tree[p].text) -> "string taken for another"
      [] \E p \in DOMAIN tree : tree[p].kind = "int" /\ tree[p].text \notin Integral -> "integer becomes a float"
      [] TooSmall \in {tree[p] : p \in DOMAIN tree} -> "digits lost"
      [] OTHER -> "none"

-----------------------------------------------------------------------------
(* Bytes, field by field.                                                   *)
Field(what, text, n) == [what |-> what, text |-> text, n |-> n]
Size(text) == IF text = "" THEN 0 ELSE 1
Bytes(text) == <<Field("size", "", Size(text))>> \o (IF text = "" THEN <<>> ELSE <<Field("bytes", text, 0)>>)

RECURSIVE write_node(_, _)
write_node(nodes, n) ==
    LET node == nodes[n]
        Of(step) == (IF node.kind = "map" THEN Bytes(step) ELSE <<>>) \o write_node(nodes, node.items[step])
    IN  <<Field("type", node.kind, 0)>> \o
        CASE node.kind = "nil"            -> <<>>
          [] node.kind = "string"         -> Bytes(node.text)
          [] node.kind \in {"int", "float"} -> <<Field("number", node.text, 0)>>
          [] node.kind \in {"array", "map"} ->
               <<Field("size", "", Len(StepsOf(node)))>>
               \o FlattenSeq([i \in DOMAIN StepsOf(node) |-> Of(StepsOf(node)[i])])

Failed(s) == [s EXCEPT !.error = "corrupt"]
Ends(s, fields, k) == s.at + k > Len(fields)

RECURSIVE read_node(_, _, _)
read_node(fields, s, n) ==
    LET kind == fields[s.at].text
        next == fields[s.at + 1]
        Element(t, i) ==
            LET more == [t EXCEPT !.nodes = array_push(@, n)]
            IN  IF t.error # "" THEN t ELSE read_node(fields, more, Len(more.nodes))
        (* The bytes of a key are taken without a look at the end.          *)
        Pair(t, i) ==
            CASE t.error # "" -> t
              [] t.error = "" /\ Ends(t, fields, 0) -> Failed(t)
              [] t.error = "" /\ ~Ends(t, fields, 0) /\ Ends(t, fields, fields[t.at].n) -> [Failed(t) EXCEPT !.past = TRUE]
              [] OTHER ->
                   LET key  == IF fields[t.at].n = 0 THEN "" ELSE fields[t.at + 1].text
                       more == at_key(t.nodes, n, key)
                   IN  read_node(fields, [t EXCEPT !.nodes = more, !.at = @ + 1 + fields[t.at].n], more[n].items[key])
        Elements(t, f(_, _)) == FoldLeft(f, t, [i \in 1 .. next.n |-> i])
    IN  CASE Ends(s, fields, 0) -> Failed(s)
          [] ~Ends(s, fields, 0) /\ kind = "nil" -> [s EXCEPT !.nodes = assign(@, n, Nil), !.at = @ + 1]
          [] ~Ends(s, fields, 0) /\ kind # "nil" /\ Ends(s, fields, 1) -> Failed(s)
          [] OTHER ->
               CASE kind = "string" ->
                      IF Ends(s, fields, 1 + next.n) THEN Failed(s)
                      ELSE LET text == IF next.n = 0 THEN "" ELSE fields[s.at + 2].text
                           IN  [s EXCEPT !.nodes = assign(@, n, Value("string", text)), !.at = @ + 2 + next.n]
                 [] kind \in {"int", "float"} -> [s EXCEPT !.nodes = assign(@, n, Value(kind, next.text)), !.at = @ + 2]
                 [] kind = "array" ->
                      Elements([s EXCEPT !.nodes = assign(@, n, Value("array", "")), !.at = @ + 2], Element)
                 [] kind = "map" -> Elements([s EXCEPT !.at = @ + 2], Pair)

(* The end is taken from the length of the stream: where the stream has     *)
(* something behind the position it is read from, the bytes end earlier     *)
(* than the reader believes, and it goes past them instead of failing.      *)
read_binary(fields, behind) ==
    LET start == [nodes |-> clear_document, at |-> 2, error |-> "", past |-> FALSE]
        s     == IF fields = <<>> THEN Failed(start) ELSE read_node(fields, start, 1)
    IN  IF s.error # "" THEN [s EXCEPT !.nodes = clear_document, !.past = @ \/ behind] ELSE s

BinaryLoses(tree) ==
    IF \E p \in DOMAIN tree : tree[p].kind = "map" /\ ~\E q \in DOMAIN tree : IsStrictPrefix(p, q)
    THEN "empty map" ELSE "none"

-----------------------------------------------------------------------------
(* JSON is written only. Texts are not escaped, and a float is printed as   *)
(* in YAML.                                                                 *)
Token(what, kind, text) == [what |-> what, kind |-> kind, text |-> text]
Quote == "\""

RECURSIVE write_json(_, _)
write_json(nodes, n) ==
    LET node  == nodes[n]
        steps == StepsOf(node)
        Of(i) == (IF node.kind = "map" THEN <<Token("key", "", steps[i])>> ELSE <<>>)
                 \o write_json(nodes, node.items[steps[i]])
                 \o (IF i # Len(steps) THEN <<Token("comma", "", "")>> ELSE <<>>)
    IN  IF node.kind \in {"array", "map"}
        THEN <<Token("open", node.kind, "")>> \o FlattenSeq([i \in DOMAIN steps |-> Of(i)]) \o <<Token("close", node.kind, "")>>
        ELSE <<Token("value", node.kind, Printed(Value(node.kind, node.text)))>>

JsonLoses(tree) ==
    LET values == {tree[p] : p \in DOMAIN tree}
    IN  CASE Value("string", Quote) \in values -> "not escaped"
          [] TooSmall \in values -> "digits lost"
          [] OTHER -> "none"

(* What a reader of JSON makes of it: open has the paths of what is open,   *)
(* and late is true where only a comma or an end may come. A text ends at a *)
(* quote that is not escaped.                                               *)
Here(r) == IF r.open = <<>> THEN <<>>
           ELSE LET top == Last(r.open) IN Append(top.path, IF top.kind = "map" THEN r.key ELSE Index(top.size))
Counted(open) == IF open = <<>> THEN open ELSE [open EXCEPT ![Len(open)].size = @ + 1]
Understand(r, t) ==
    CASE t.what = "key"   -> [r EXCEPT !.key = t.text]
      [] t.what = "value" -> [r EXCEPT !.tree = With(@, Here(r), Value(t.kind, t.text)),
                                       !.ok = @ /\ ~r.late /\ t.text # Quote, !.late = TRUE, !.open = Counted(@)]
      [] t.what = "open"  -> [r EXCEPT !.tree = With(@, Here(r), Value(t.kind, "")), !.ok = @ /\ ~r.late,
                                       !.late = FALSE, !.open = Append(@, [path |-> Here(r), kind |-> t.kind, size |-> 0])]
      [] t.what = "close" -> [r EXCEPT !.ok = @ /\ (r.late <=> Last(r.open).size # 0) /\ Last(r.open).kind = t.kind,
                                       !.late = TRUE, !.open = Counted(Front(@))]
      [] t.what = "comma" -> [r EXCEPT !.ok = @ /\ r.late, !.late = FALSE]
Understood(tokens) ==
    FoldLeft(Understand, [tree |-> None, open |-> <<>>, key |-> "", late |-> FALSE, ok |-> TRUE], tokens)

-----------------------------------------------------------------------------
(* Documents by their paths.                                                *)
Below(tree, p) == {q \in DOMAIN tree : IsStrictPrefix(p, q)}
Graft(tree, p, v) == With([q \in DOMAIN tree \ Below(tree, p) |-> tree[q]], p, v)
As(tree, p, kind) == IF tree[p].kind = kind THEN tree ELSE Graft(tree, p, Value(kind, ""))
SizeAt(tree, p) == Cardinality({q \in Below(tree, p) : Len(q) = Len(p) + 1})
Grown(tree, p, i) ==
    FoldLeft(LAMBDA t, k : With(t, Append(p, Index(SizeAt(t, p))), Nil), As(tree, p, "array"),
             [k \in 1 .. i + 1 - SizeAt(As(tree, p, "array"), p) |-> k])

NoText == [format |-> "none", yaml |-> <<>>, json |-> <<>>, bytes |-> <<>>]

Init ==
    /\ rep = [nodes |-> <<Leaf(Nil)>>, written |-> NoText, error |-> "", out |-> <<>>]
    /\ ref = [tree |-> With(None, <<>>, Nil), saved |-> None, out |-> <<>>]
    /\ fault = "none"

(* A node that two paths lead to changes on both.                           *)
Change(p, nodes, tree) ==
    LET shared == Cardinality(PathsTo(rep.nodes, Follow(rep.nodes, p))) > 1 IN
    /\ shared \/ Len(rep.nodes) <= MaxNodes
    /\ rep' = [rep EXCEPT !.nodes = nodes, !.written = NoText, !.error = "", !.out = <<>>]
    /\ ref' = [ref EXCEPT !.tree = tree, !.saved = None, !.out = <<>>]
    /\ fault' = IF shared THEN "shared node" ELSE fault

Assign == \E p \in DOMAIN ref.tree, v \in Scalars :
    Change(p, assign(rep.nodes, Follow(rep.nodes, p), v), Graft(ref.tree, p, v))

Push == \E p \in DOMAIN ref.tree :
    /\ Len(p) < 2 /\ SizeAt(As(ref.tree, p, "array"), p) < Len(Indices)
    /\ Change(p, array_push(rep.nodes, Follow(rep.nodes, p)),
              Grown(ref.tree, p, SizeAt(As(ref.tree, p, "array"), p)))

AtIndex == \E p \in DOMAIN ref.tree, i \in {0, 1} :
    /\ Len(p) < 2
    /\ Change(p, at_index(rep.nodes, Follow(rep.nodes, p), i), Grown(ref.tree, p, i))

AtKey == \E p \in DOMAIN ref.tree, key \in ToSet(Keys) :
    LET tree == As(ref.tree, p, "map")
    IN  /\ Len(p) < 2
        /\ Change(p, at_key(rep.nodes, Follow(rep.nodes, p), key),
                  IF Append(p, key) \in DOMAIN tree THEN tree ELSE With(tree, Append(p, key), Nil))

(* The elements of an array are added to those of another, and what is not  *)
(* a number is whatever was in memory.                                      *)
Numbers(nodes, n) == [i \in 1 .. array_size(nodes, n) |->
    LET child == nodes[nodes[n].items[Index(i - 1)]]
    IN  IF child.kind \in {"int", "float"} THEN child.text ELSE "undefined"]
Extract == \E p \in DOMAIN ref.tree :
    LET numbers == Numbers(rep.nodes, Follow(rep.nodes, p))
    IN  /\ ref.tree[p].kind = "array" /\ Len(rep.out) <= 2
        /\ rep' = [rep EXCEPT !.out = @ \o numbers]
        /\ ref' = [ref EXCEPT !.out = [i \in 1 .. SizeAt(ref.tree, p) |-> ref.tree[Append(p, Index(i - 1))].text]]
        /\ fault' = IF rep.out # <<>> THEN "added to the array" ELSE IF "undefined" \in ToSet(numbers) THEN "undefined" ELSE fault

Written(text) == /\ rep' = [rep EXCEPT !.written = text, !.error = ""]
                 /\ ref' = [ref EXCEPT !.saved = ref.tree]
                 /\ rep.written.format = "none"
WriteYaml == Written([NoText EXCEPT !.format = "yaml", !.yaml = emit(rep.nodes, 1)]) /\ UNCHANGED fault
WriteBinary == Written([NoText EXCEPT !.format = "bytes", !.bytes = <<Field("total", "", 0)>> \o write_node(rep.nodes, 1)])
               /\ UNCHANGED fault
WriteJson ==
    /\ Written([NoText EXCEPT !.format = "json", !.json = write_json(rep.nodes, 1)])
    /\ fault' = JsonLoses(ref.tree)

(* The end of what was written is not there, or not yet.                    *)
Cut == /\ rep.written.format = "bytes"
       /\ \E k \in 0 .. Len(rep.written.bytes) - 1 :
            rep' = [rep EXCEPT !.written = [@ EXCEPT !.format = "cut", !.bytes = SubSeq(@, 1, k)]]
       /\ ref' = [ref EXCEPT !.saved = With(None, <<>>, Nil)]
       /\ UNCHANGED fault

ReadYaml ==
    LET r == read_yaml(rep.nodes, rep.written.yaml)
        loses == YamlLoses(ref.saved)
    IN  /\ rep.written.format = "yaml"
        /\ fault' = IF loses = "none" /\ r.error # "" THEN "misread" ELSE loses
        /\ rep' = [rep EXCEPT !.nodes = r.nodes, !.error = r.error, !.written = NoText]
        /\ ref' = [ref EXCEPT !.tree = ref.saved, !.saved = None]

ReadBinary ==
    \E behind \in BOOLEAN :
    LET r == read_binary(rep.written.bytes, behind)
    IN  /\ rep.written.format \in {"bytes", "cut"}
        /\ rep' = [rep EXCEPT !.nodes = r.nodes, !.error = r.error, !.written = NoText]
        /\ ref' = [ref EXCEPT !.tree = ref.saved, !.saved = None]
        /\ fault' = CASE r.past -> "read past the end"
                      [] BinaryLoses(ref.saved) # "none" -> BinaryLoses(ref.saved)
                      [] OTHER -> IF (r.error # "") # (rep.written.format = "cut") THEN "misread" ELSE fault

ReadJson == /\ rep.written.format = "json" /\ rep' = [rep EXCEPT !.error = "not implemented", !.written = NoText]
            /\ ref' = [ref EXCEPT !.saved = None] /\ UNCHANGED fault

(* Files of somebody else, as the events the library reports.               *)
Map(pairs) == <<Event("begin", "map", "")>> \o pairs \o <<Event("end", "map", "")>>
Array(anchor, elements) == <<Event("begin", "array", anchor)>> \o elements \o <<Event("end", "array", "")>>
Alias(anchor) == <<Event("alias", anchor, "")>>
Same(text) == <<Plain(text)>>
TreeOf(pairs) == [p \in {x[1] : x \in pairs} |-> (CHOOSE x \in pairs : x[1] = p)[2]]
AMap == Value("map", "")
AnArray == Value("array", "")
One == Value("int", "1")
K(i) == Keys[i]

Files == {
    [events |-> Map(Same(K(1)) \o Array("x", Same("1")) \o Same(K(2)) \o Alias("x")), error |-> "", fault |-> "none",
     tree |-> TreeOf({<<<<>>, AMap>>, <<<<K(1)>>, AnArray>>, <<<<K(1), "#0">>, One>>,
                      <<<<K(2)>>, AnArray>>, <<<<K(2), "#0">>, One>>})],
    [events |-> Map(Same(K(1)) \o Array("x", Alias("x"))), error |-> "", fault |-> "circle", tree |-> None],
    [events |-> Map(Same(K(1)) \o <<Event("scalar", "1", "x")>> \o Same(K(2)) \o Alias("x")), error |-> "",
     fault |-> "anchor of a scalar", tree |-> TreeOf({<<<<>>, AMap>>, <<<<K(1)>>, One>>, <<<<K(2)>>, One>>})],
    [events |-> Map(Array("", Same("1")) \o Same(K(1))), error |-> "raised", fault |-> "none", tree |-> None],
    [events |-> Map(Same(K(1)) \o Same("1")) \o Same(K(2)), error |-> "", fault |-> "none",
     tree |-> TreeOf({<<<<>>, AMap>>, <<<<K(1)>>, One>>})],
    [events |-> Map(Same(K(1)) \o Map(<<>>)), error |-> "", fault |-> "none",
     tree |-> TreeOf({<<<<>>, AMap>>, <<<<K(1)>>, AMap>>})],
    [events |-> Array("", Same("1")), error |-> "", fault |-> "none",
     tree |-> TreeOf({<<<<>>, AMap>>, <<<<"yaml_document">>, AnArray>>, <<<<"yaml_document", "#0">>, One>>})],
    [events |-> <<Event("begin", "map", ""), Event("error", "", "")>>, error |-> "libyaml", fault |-> "none", tree |-> None],
    [events |-> <<>>, error |-> "unknown", fault |-> "none", tree |-> None]}

ReadFile == \E file \in Files :
    LET r == read_yaml(rep.nodes, file.events)
        bad == file.fault # "none"
    IN  /\ Len(rep.nodes) <= MaxNodes
        /\ rep' = IF Circular(r.nodes) THEN rep
                  ELSE [rep EXCEPT !.nodes = r.nodes, !.error = r.error, !.written = NoText, !.out = <<>>]
        /\ ref' = [ref EXCEPT !.tree = IF file.error = "" /\ ~bad THEN file.tree ELSE @, !.saved = None, !.out = <<>>]
        /\ fault' = IF bad THEN file.fault
                    ELSE IF Circular(r.nodes) \/ r.error # file.error THEN "misread" ELSE fault

Next ==
    /\ fault = "none"
    /\ \/ Assign \/ Push \/ AtIndex \/ AtKey \/ Extract
       \/ WriteYaml \/ WriteBinary \/ WriteJson \/ Cut \/ ReadYaml \/ ReadBinary \/ ReadJson \/ ReadFile

Spec == Init /\ [][Next]_vars

-----------------------------------------------------------------------------
(* The document is the tree that was built or read: what is written as YAML *)
(* or as bytes comes back as it was, a file that breaks off leaves an empty *)
(* document or the one there was, and what is written as JSON can be read.  *)
Represents ==
    /\ fault # "misread"
    /\ fault = "none" =>
         /\ Tree(rep.nodes) = ref.tree /\ rep.out = ref.out
         /\ rep.written.format = "json" =>
              LET r == Understood(rep.written.json) IN r.ok /\ r.open = <<>> /\ r.tree = ref.tree
=============================================================================
