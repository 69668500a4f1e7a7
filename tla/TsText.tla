------------------------------- MODULE TsText -------------------------------
(***************************************************************************)
(* The text format of src/ts_text.c: a file is loaded, token by token and  *)
(* with one frame per call of the recursive descent, the tree is saved and *)
(* freed, and what was saved is loaded again.                              *)
(*                                                                         *)
(* The first file is any sequence of at most MaxTokens tokens, chosen as   *)
(* it is read.  A token is what next_token finds; characters, comments and *)
(* white space are below this model.  Allocations succeed; heap counts the *)
(* blocks that are allocated.                                              *)
(*                                                                         *)
(* What recurs into values and trees is written as a recursive function.   *)
(* A definition named Op_Slip is a faulty variant of Op that no action     *)
(* uses.                                                                   *)
(***************************************************************************)
EXTENDS Integers, Sequences, SequencesExt

CONSTANTS
  Words,      \* identifiers
  Numbers,
  Printed,    \* the tokens that "%g" makes of a number
  Strings,
  Given,      \* bound: the tokens of the first file
  MaxStored,  \* 31 in read_array
  MaxTokens,  \* bound: the first file's length
  MaxDepth,   \* bound: calls in progress (the C stack)
  Null

Sym(c) == [type |-> "TOK_SYM", text |-> c]
Id(w) == [type |-> "TOK_ID", text |-> w]
Num(x) == [type |-> "TOK_NUM", text |-> x]
Str(s) == [type |-> "TOK_STR", text |-> s]
EOF == [type |-> "EOF", text |-> Null]

Tokens == {Id(w) : w \in Words} \cup {Num(x) : x \in Numbers}
            \cup {Str(s) : s \in Words \cup Strings}
            \cup {Sym(c) : c \in {"=", "{", "}", "[", "]", ",", ";"}}

(* A number is printed as itself, or first of all as another number (it is  *)
(* rounded, or has an exponent) or a name (inf).                            *)
ASSUME TextAssumption ==
  /\ MaxStored \in Nat \ {0, 1} /\ MaxTokens \in Nat /\ MaxDepth \in Nat \ {0, 1}
  /\ Given \subseteq Tokens /\ "(null)" \in Strings
  /\ Null \notin Words \cup Numbers \cup Strings
  /\ Printed \in [Numbers -> Seq(Tokens)]
  /\ \A x \in Numbers : \/ Printed[x] = <<Num(x)>>
                        \/ /\ Len(Printed[x]) > 0 /\ Printed[x][1] # Num(x)
                           /\ Printed[x][1].type \in {"TOK_NUM", "TOK_ID"}

VARIABLES
  left,      \* tokens the first file may still get
  file,      \* tokens of the saved file that are not read yet
  pc,        \* the place in the innermost call where the next token is read
  frames,    \* the calls in progress
  heap,      \* blocks allocated
  result,    \* what ts_text_load returned
  original   \* the tree that was saved

vars == <<left, file, pc, frames, heap, result, original>>

-----------------------------------------------------------------------------
(* struct ts_value.  text stands for str, and for fnum of a number. *)
Unset == [type |-> "TS_STRING", text |-> Null, vec |-> <<>>, vec_size |-> 0, array |-> <<>>]

ts_set_valuef(x) == [Unset EXCEPT !.type = "TS_NUMBER", !.text = x]
ts_set_value_str(s) == [Unset EXCEPT !.text = s]

(* The values whose elements are in S, values by the depth of their arrays, *)
(* and all of them.                                                         *)
Scalars == {Unset} \cup {ts_set_valuef(x) : x \in Numbers}
             \cup {ts_set_value_str(s) : s \in Words \cup Strings}
Lists(S) == {seq \in Seq(S) : Len(seq) \in 2..MaxStored}
AllNumbers(seq) == \A i \in DOMAIN seq : seq[i].type = "TS_NUMBER"
Compound(S) ==
  {v \in [type : {"TS_VECTOR", "TS_ARRAY"}, text : {Null}, vec : Seq(Numbers), vec_size : {0},
          array : Lists(S)] : /\ v.type = "TS_VECTOR" <=> AllNumbers(v.array)
                              /\ v.type = "TS_ARRAY" => v.vec = <<>>}
ValueOf[d \in 0..MaxDepth] ==
  Scalars \cup Compound(IF d = 0 THEN {} ELSE ValueOf[d - 1])
Value == ValueOf[MaxDepth]

Each(f, seq) == [i \in DOMAIN seq |-> f[seq[i]]]

ts_copy_value[src \in Value] ==
  [src EXCEPT !.vec = IF src.vec_size > 0 THEN @ ELSE <<>>, !.array = Each(ts_copy_value, @)]

(* For two values or more. *)
ts_set_value_arr(values) ==
  LET copies == Each(ts_copy_value, values)
  IN  IF AllNumbers(values)
        THEN [Unset EXCEPT !.type = "TS_VECTOR", !.array = copies,
                           !.vec = [i \in DOMAIN copies |-> copies[i].text]]
        ELSE [Unset EXCEPT !.type = "TS_ARRAY", !.array = copies]

(* struct ts_attr and struct ts_node, by the depth of the tree below. *)
Attr == [name : Words, val : Value]
Nodes(S) == [name : Words, attrs : Seq(Attr), kids : Seq(S)]
TreeOf[d \in 0..MaxDepth] == Nodes(IF d = 0 THEN {} ELSE TreeOf[d - 1])
Tree == TreeOf[MaxDepth]

Total(seq) == FoldLeft(LAMBDA sum, n : sum + n, 0, seq)
One(cond) == IF cond THEN 1 ELSE 0

(* The blocks that ts_destroy_value, ts_free_attr and ts_free_tree free. *)
ValueBlocks[v \in Value] ==
  One(v.text # Null) + One(v.vec # <<>>) + One(v.array # <<>>)
    + Total(Each(ValueBlocks, v.array))
AttrBlocks[a \in Attr] == 2 + ValueBlocks[a.val]
TreeBlocks[t \in Tree] == 2 + Total(Each(AttrBlocks, t.attrs)) + Total(Each(TreeBlocks, t.kids))

-----------------------------------------------------------------------------
(* ts_text_save, as the tokens its output has when it is read. *)
Listed_LateComma(items) ==
  <<Sym("[")>>
  \o FlattenSeq([i \in DOMAIN items |-> (IF i > 2 THEN <<Sym(",")>> ELSE <<>>) \o items[i]])
  \o <<Sym("]")>>
Listed(items) ==
  <<Sym("[")>>
  \o FlattenSeq([i \in DOMAIN items |-> (IF i > 1 THEN <<Sym(",")>> ELSE <<>>) \o items[i]])
  \o <<Sym("]")>>

print_value[v \in Value] ==
  CASE v.type = "TS_NUMBER" -> Printed[v.text]
    [] v.type = "TS_VECTOR" -> Listed([i \in 1..v.vec_size |-> Printed[v.vec[i]]])
    [] v.type = "TS_ARRAY"  -> Listed(Each(print_value, v.array))
    [] v.type = "TS_STRING" -> <<Str(IF v.text = Null THEN "(null)" ELSE v.text)>>

print_attr[a \in Attr] == <<Id(a.name), Sym("=")>> \o print_value[a.val]

ts_text_save[t \in Tree] ==
  <<Id(t.name), Sym("{")>>
  \o FlattenSeq(Each(print_attr, t.attrs)) \o FlattenSeq(Each(ts_text_save, t.kids))
  \o <<Sym("}")>>

-----------------------------------------------------------------------------
(* After the end of the file next_token keeps returning -1. *)
next_token(tok) ==
  \/ left > 0 /\ tok \in Given /\ left' = left - 1 /\ UNCHANGED file
  \/ file # <<>> /\ tok = Head(file) /\ file' = Tail(file) /\ UNCHANGED left
  \/ file = <<>> /\ tok = EOF /\ left' = 0 /\ UNCHANGED file

Top == frames[Len(frames)]
Below == Front(frames)
OnTop(stack, frame) == [stack EXCEPT ![Len(stack)] = frame]

LoadFrame(name) == [fn |-> "ts_text_load", id |-> name]
NodeFrame ==
  [fn |-> "read_node", id |-> Null, attr_allocated |-> FALSE, attrs |-> <<>>, kids |-> <<>>]
ArrayFrame(endsym) == [fn |-> "read_array", endsym |-> endsym, values |-> <<>>]

Init ==
  /\ left = MaxTokens /\ file = <<>>
  /\ pc = "root" /\ frames = <<>> /\ heap = 1   \* the token
  /\ result = Null /\ original = Null

(* The error paths of the calls in progress.  ts_free_node leaves children  *)
(* alone; names that were read and the values of an array are lost with the *)
(* variables that point to them.                                            *)
FreedOnError(frame) ==
  IF frame.fn = "read_node" THEN 1 + One(frame.attr_allocated) + Total(Each(AttrBlocks, frame.attrs))
  ELSE 0

Fail(freed) ==   \* freed: by the call that fails, before it returns
  /\ pc' = "failed" /\ frames' = <<>> /\ result' = Null
  /\ heap' = heap - 1 - freed - Total([i \in DOMAIN frames |-> FreedOnError(frames[i])])

(* ts_text_load: a name and an opening brace. *)
RootName(tok) ==
  /\ pc = "root"
  /\ IF tok.type = "TOK_ID"
       THEN /\ pc' = "root_brace" /\ frames' = <<LoadFrame(tok.text)>> /\ heap' = heap + 1
            /\ UNCHANGED result
       ELSE Fail(0)

CallReadNode ==
  /\ Len(frames) < MaxDepth
  /\ pc' = "item" /\ frames' = Append(frames, NodeFrame) /\ heap' = heap + 1
  /\ UNCHANGED result

RootBrace(tok) ==
  /\ pc = "root_brace"
  /\ IF tok = Sym("{") THEN CallReadNode ELSE Fail(0)

(* read_node returns the node: to the node above, or to ts_text_load, which *)
(* frees the token.                                                         *)
ReturnNode ==
  LET caller == Below[Len(Below)]
      node == [name |-> caller.id, attrs |-> Top.attrs, kids |-> Top.kids]
  IN  IF caller.fn = "ts_text_load"
        THEN /\ pc' = "loaded" /\ frames' = <<>> /\ result' = node /\ heap' = heap - 1
        ELSE /\ frames' = OnTop(Below, [caller EXCEPT !.id = Null, !.kids = Append(@, node)])
             /\ UNCHANGED <<pc, result, heap>>

Item(tok) ==
  /\ pc = "item"
  /\ IF tok.type = "TOK_ID"
       THEN /\ pc' = "name" /\ frames' = OnTop(frames, [Top EXCEPT !.id = tok.text])
            /\ heap' = heap + 1
            /\ UNCHANGED result
       ELSE IF tok = Sym("}") THEN ReturnNode ELSE Fail(0)

AfterName(tok) ==
  /\ pc = "name"
  /\ IF tok = Sym("=")
       THEN /\ pc' = "value" /\ frames' = OnTop(frames, [Top EXCEPT !.attr_allocated = TRUE])
            /\ heap' = heap + 1
            /\ UNCHANGED result
       ELSE IF tok = Sym("{") THEN CallReadNode ELSE Fail(0)

(* A value v is complete: an attribute of the node or an element of the     *)
(* array that the calls in stack were reading, unless the array is full:    *)
(* then it is destroyed.                                                    *)
Stored_OneMore(values) == Len(values) <= MaxStored
Stored(values) == Len(values) < MaxStored
Deliver(stack, v) ==
  LET reader == stack[Len(stack)]
  IN  /\ IF reader.fn = "read_node"
           THEN /\ pc' = "item"
                /\ frames' = OnTop(stack, [reader EXCEPT
                     !.id = Null, !.attr_allocated = FALSE,
                     !.attrs = Append(@, [name |-> reader.id, val |-> v])])
           ELSE /\ pc' = "separator"
                /\ frames' = OnTop(stack, [reader EXCEPT
                     !.values = IF Stored(@) THEN Append(@, v) ELSE @])
      /\ UNCHANGED result

Kept_NotDestroyed(stack, v) == ValueBlocks[v]
Kept(stack, v) ==
  LET reader == stack[Len(stack)]
  IN  IF reader.fn = "read_array" /\ ~Stored(reader.values) THEN 0 ELSE ValueBlocks[v]

(* read_array after its loop: the values are copied, then destroyed. *)
ReturnArray ==
  LET values == Top.values
      held == Total(Each(ValueBlocks, values))
  IN  IF Len(values) < 2 THEN Fail(held)
      ELSE LET v == ts_set_value_arr(values) IN
           /\ Deliver(Below, v)
           /\ heap' = heap - held + Kept(Below, v)

(* read_value, called by read_node or read_array.  A symbol that cannot     *)
(* start a value leaves the value unset, which is no error.                 *)
read_value(tok) ==
  IF tok \in {Sym("["), Sym("{")}
    THEN /\ Len(frames) < MaxDepth
         /\ pc' = "element"
         /\ frames' = Append(frames, ArrayFrame(IF tok = Sym("[") THEN "]" ELSE "}"))
         /\ UNCHANGED <<heap, result>>
    ELSE LET v == CASE tok.type = "TOK_NUM" -> ts_set_valuef(tok.text)
                    [] tok.type = "TOK_SYM" -> Unset
                    [] OTHER -> ts_set_value_str(tok.text)
         IN  Deliver(frames, v) /\ heap' = heap + Kept(frames, v)

AttrValue(tok) ==
  /\ pc = "value"
  /\ IF tok = EOF THEN Fail(0) ELSE read_value(tok)

Element(tok) ==
  /\ pc = "element"
  /\ IF tok = EOF THEN ReturnArray ELSE read_value(tok)

Separator(tok) ==
  /\ pc = "separator"
  /\ IF tok = Sym(Top.endsym) THEN ReturnArray
     ELSE IF tok = Sym(",") THEN pc' = "element" /\ UNCHANGED <<frames, heap, result>>
     ELSE Fail(0)

(* ts_text_save, ts_free_tree, and ts_text_load of what was saved. *)
SaveAndReload ==
  /\ pc = "loaded" /\ original = Null
  /\ original' = result /\ file' = ts_text_save[result] /\ left' = 0
  /\ result' = Null /\ pc' = "root" /\ frames' = <<>>
  /\ heap' = heap - TreeBlocks[result] + 1

Next ==
  \/ \E tok \in Tokens \cup {EOF} :
       /\ next_token(tok) /\ UNCHANGED original
       /\ \/ RootName(tok) \/ RootBrace(tok) \/ Item(tok) \/ AfterName(tok)
          \/ AttrValue(tok) \/ Element(tok) \/ Separator(tok)
  \/ SaveAndReload

Spec == Init /\ [][Next]_vars

-----------------------------------------------------------------------------
(* A call that has room for d more above it: what it has read is well       *)
(* formed, and no array has more elements than there is room for.           *)
FrameOf(d) ==
  [fn : {"read_node"}, id : Words \cup {Null}, attr_allocated : BOOLEAN,
   attrs : Seq(Attr), kids : Seq(TreeOf[d])]
  \cup [fn : {"read_array"}, endsym : {"]", "}"},
        values : {seq \in Seq(ValueOf[d]) : Len(seq) <= MaxStored}]

TypeOK ==
  /\ left \in 0..MaxTokens /\ file \in Seq(Tokens) /\ heap \in Nat
  /\ pc \in {"root", "root_brace", "item", "name", "value", "element", "separator",
             "loaded", "failed"}
  /\ Len(frames) <= MaxDepth
  /\ \A i \in DOMAIN frames :
       IF i = 1 THEN frames[i] \in {LoadFrame(w) : w \in Words}
       ELSE frames[i] \in FrameOf(MaxDepth - i)
  /\ {result, original} \subseteq Tree \cup {Null}

(* Until an error, every block belongs to a call in progress or to the      *)
(* loaded tree: truncated and copied values included, loading a file that   *)
(* has no error leaves only the tree, and ts_free_tree frees all of it.     *)
Owned(frame) ==
  CASE frame.fn = "ts_text_load" -> 1
    [] frame.fn = "read_array" -> Total(Each(ValueBlocks, frame.values))
    [] frame.fn = "read_node" ->
         1 + One(frame.id # Null) + One(frame.attr_allocated)
           + Total(Each(AttrBlocks, frame.attrs)) + Total(Each(TreeBlocks, frame.kids))

NothingLost ==
  CASE pc = "failed" -> TRUE
    [] pc = "loaded" -> heap = TreeBlocks[result]
    [] OTHER -> heap = 1 + Total([i \in DOMAIN frames |-> Owned(frames[i])])

(* A saved tree is loaded as the same tree, provided that each of its       *)
(* numbers survives "%g", it has no value that was left unset, and it has   *)
(* no vector, whose vec_size nobody sets; and otherwise it never is.        *)
Printable[v \in Value] ==
  CASE v.type = "TS_STRING" -> v.text # Null
    [] v.type = "TS_NUMBER" -> Printed[v.text] = <<Num(v.text)>>
    [] v.type = "TS_VECTOR" -> FALSE
    [] v.type = "TS_ARRAY" -> \A i \in DOMAIN v.array : Printable[v.array[i]]
AllPrintable[t \in Tree] ==
  /\ \A i \in DOMAIN t.attrs : Printable[t.attrs[i].val]
  /\ \A i \in DOMAIN t.kids : AllPrintable[t.kids[i]]

RoundTrip ==
  original # Null /\ pc \in {"loaded", "failed"} =>
    (result = original <=> AllPrintable[original])

(* treestor.h of vec_size: "size of the vector (in elements), same as       *)
(* array_size".                                                             *)
VectorsSized[v \in Value] ==
  /\ v.type = "TS_VECTOR" => v.vec_size = Len(v.array)
  /\ \A i \in DOMAIN v.array : VectorsSized[v.array[i]]

VecSizeIsArraySize ==
  pc = "loaded" => \A i \in DOMAIN result.attrs : VectorsSized[result.attrs[i].val]
=============================================================================
