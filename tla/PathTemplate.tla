---------------------------- MODULE PathTemplate ----------------------------
(***************************************************************************)
(* Path templates of the api gateway: api/router/util/parse.go,            *)
(* compile.go and runtime.go.  A template is parsed into segments,         *)
(* compiled to a program for a small stack machine, checked, and run on    *)
(* the components of a request's path.                                     *)
(*                                                                         *)
(* The state is the list of tokens read so far; each step adds one that    *)
(* the tokenizer could yield next, so every template with up to            *)
(* PtMaxTokens tokens is reached.  The words "a" and "b" are literals and  *)
(* identifiers, "1" is a literal only.  A value of the machine, a string   *)
(* joined by "/", is the sequence of what was joined.                      *)
(***************************************************************************)
EXTENDS Naturals, Sequences, SequencesExt, FiniteSets

CONSTANT PtMaxTokens, PtMaxPath

VARIABLES ptTokens, ptMode
ptVars == <<ptTokens, ptMode>>

PtWords == {"*", "**", "a", "b", "1"}
PtLiterals == {"a", "b", "1", ".", "=", "*", "**"}
PtIdents == {"a", "b"}

PathTemplateInit == ptTokens = <<>> /\ ptMode = "init"

(* tokenize: "/" and "{" split outside of braces, ".", "=" and "}" in a    *)
(* field, "/" and "}" after its "="; between two of them is one word.      *)
PtSplits(mode) == CASE mode = "init"   -> {"/", "{"}
                    [] mode = "field"  -> {".", "=", "}"}
                    [] mode = "nested" -> {"/", "}"}

PtAfter(mode, t) == CASE t = "{" -> "field" [] t = "=" -> "nested"
                      [] t = "}" -> "init"  [] OTHER   -> mode

PtToken(t) ==
  /\ Len(ptTokens) < PtMaxTokens
  /\ t \in PtSplits(ptMode) \/ (t \in PtWords /\ (ptTokens # <<>> => Last(ptTokens) \notin PtWords))
  /\ ptTokens' = Append(ptTokens, t)
  /\ ptMode' = PtAfter(ptMode, t)

PathTemplateNext == \E t \in PtWords \cup {"/", "{", "}", ".", "="} : PtToken(t)

-----------------------------------------------------------------------------
(* The parser.  A result has the segments and the tokens left.             *)

PtFail == [ok |-> FALSE, segs |-> <<>>, rest |-> <<>>]
PtOk(segs, rest) == [ok |-> TRUE, segs |-> segs, rest |-> rest]

(* accept: a separator is accepted for itself, and "/" for any of them;    *)
(* the end of the tokens is no separator, word or identifier.              *)
PtAccepts(toks, term) == toks # <<>> /\ toks[1] \in {term, "/"}

(* fieldPath: identifiers with "." between them, here the path's length.   *)
RECURSIVE PtFieldPath(_)
PtFieldPath(toks) ==
  IF toks = <<>> \/ Head(toks) \notin PtIdents THEN PtFail
  ELSE IF ~PtAccepts(Tail(toks), ".") THEN PtOk(<<Head(toks)>>, Tail(toks))
  ELSE LET more == PtFieldPath(Tail(Tail(toks)))
       IN  IF more.ok THEN PtOk(<<Head(toks)>> \o more.segs, more.rest) ELSE PtFail

RECURSIVE PtSegments(_)

(* variable: a field path, its segments or one wildcard.                   *)
PtVariable(toks) ==
  LET path == IF PtAccepts(toks, "{") THEN PtFieldPath(Tail(toks)) ELSE PtFail
      segs == IF path.ok /\ PtAccepts(path.rest, "=") THEN PtSegments(Tail(path.rest))
              ELSE PtOk(<<[kind |-> "*"]>>, path.rest)
  IN  IF path.ok /\ segs.ok /\ PtAccepts(segs.rest, "}")
      THEN PtOk(<<[kind |-> "var", path |-> path.segs, segs |-> segs.segs]>>, Tail(segs.rest))
      ELSE PtFail

(* segment: a wildcard, a deep one, a literal or a variable, tried so.     *)
PtSegment(toks) ==
  IF PtAccepts(toks, "*") THEN PtOk(<<[kind |-> "*"]>>, Tail(toks))
  ELSE IF PtAccepts(toks, "**") THEN PtOk(<<[kind |-> "**"]>>, Tail(toks))
  ELSE IF toks # <<>> /\ toks[1] \in PtLiterals
  THEN PtOk(<<[kind |-> "lit", str |-> <<toks[1]>>]>>, Tail(toks))
  ELSE PtVariable(toks)

(* segments: segments with "/" between them.                               *)
PtSegments(toks) ==
  LET first == PtSegment(toks)
  IN  IF ~first.ok \/ ~PtAccepts(first.rest, "/") THEN first
      ELSE LET more == PtSegments(Tail(first.rest))
           IN  IF more.ok THEN PtOk(first.segs \o more.segs, more.rest) ELSE PtFail

(* Parse: segments up to the end.                                          *)
PtParse(toks) ==
  LET top == PtSegments(toks)
  IN  IF top.ok /\ top.rest = <<>> THEN top ELSE PtFail

-----------------------------------------------------------------------------
(* The compiler.                                                           *)

(* compile of a segment: operations with a string or a number.             *)
RECURSIVE PtOps(_)
PtOps(segs) ==
  IF segs = <<>> THEN <<>>
  ELSE LET s == Head(segs)
           ops == CASE s.kind = "*"   -> <<[code |-> "push", str |-> <<>>, n |-> 0]>>
                    [] s.kind = "**"  -> <<[code |-> "pushM", str |-> <<>>, n |-> 0]>>
                    [] s.kind = "lit" -> <<[code |-> "litPush", str |-> s.str, n |-> 0]>>
                    [] s.kind = "var" ->
                         PtOps(s.segs) \o <<[code |-> "concatN", str |-> <<>>, n |-> Len(s.segs)],
                                            [code |-> "capture", str |-> s.path, n |-> 0]>>
       IN  ops \o PtOps(Tail(segs))

(* Compile: every string once in the pool, operations with its index.      *)
PtCompile(segs) ==
  FoldLeft(LAMBDA t, op :
             LET pool == IF op.str = <<>> \/ Contains(t.pool, op.str) THEN t.pool
                         ELSE Append(t.pool, op.str)
                 n == IF op.str = <<>> THEN op.n
                      ELSE CHOOSE i \in DOMAIN pool : pool[i] = op.str
             IN  [ops |-> Append(t.ops, [code |-> op.code, n |-> n]), pool |-> pool],
           [ops |-> <<>>, pool |-> <<>>], PtOps(segs))


(* The components that a deep wildcard must leave for what follows it.     *)
PtTail(p, op) == p.tail + (IF p.seen /\ op.code \in {"push", "litPush"} THEN 1 ELSE 0)

(* NewPattern: check the program; the operand of a capture becomes the     *)
(* position of its variable.                                               *)
PtNewPattern(t) ==
  FoldLeft(LAMBDA p, op :
             LET stack == CASE op.code = "concatN" -> p.stack + 1 - op.n
                            [] op.code = "capture" -> p.stack - 1
                            [] OTHER               -> p.stack + 1
             IN  IF \/ ~p.ok
                    \/ op.code = "pushM" /\ p.seen
                    \/ op.code = "concatN" /\ (op.n = 0 \/ p.stack < op.n)
                    \/ op.code = "capture" /\ p.stack = 0
                 THEN [p EXCEPT !.ok = FALSE]
                 ELSE [ok |-> TRUE, stack |-> stack, seen |-> p.seen \/ op.code = "pushM",
                       tail |-> PtTail(p, op),
                       vars |-> IF op.code = "capture" THEN Append(p.vars, t.pool[op.n])
                                ELSE p.vars,
                       ops |-> Append(p.ops, IF op.code = "capture"
                                             THEN [op EXCEPT !.n = Len(p.vars) + 1] ELSE op)],
           [ok |-> TRUE, stack |-> 0, seen |-> FALSE, tail |-> 0, vars |-> <<>>, ops |-> <<>>],
           t.ops)

(* strings.Join of nothing is the empty string.                            *)
PtJoin(s) == IF s = <<>> THEN <<"">> ELSE s

(* Match: run the program over the components.                             *)
PtRun(p, pool, comps) ==
  FoldLeft(LAMBDA m, op :
             LET push(v, pos) == [m EXCEPT !.stack = Append(@, v), !.pos = pos]
                 depth == Len(m.stack)
             IN  CASE ~m.ok -> m
                   [] m.ok /\ op.code \in {"push", "litPush"} ->
                        IF \/ m.pos >= Len(comps)
                           \/ op.code = "litPush" /\ <<comps[m.pos + 1]>> # pool[op.n]
                        THEN [m EXCEPT !.ok = FALSE]
                        ELSE push(<<comps[m.pos + 1]>>, m.pos + 1)
                   [] m.ok /\ op.code = "pushM" ->
                        IF Len(comps) < m.pos + p.tail THEN [m EXCEPT !.ok = FALSE]
                        ELSE push(PtJoin(SubSeq(comps, m.pos + 1, Len(comps) - p.tail)),
                                  Len(comps) - p.tail)
                   [] m.ok /\ op.code = "concatN" ->
                        [m EXCEPT !.stack = Append(SubSeq(@, 1, depth - op.n),
                                              FlattenSeq(SubSeq(@, depth - op.n + 1, depth)))]
                   [] m.ok /\ op.code = "capture" ->
                        [m EXCEPT !.stack = Front(@), !.captured[op.n] = Last(m.stack)],
           [ok |-> TRUE, pos |-> 0, stack |-> <<>>,
            captured |-> [i \in DOMAIN p.vars |-> <<"">>]],
           p.ops)

PtMatch(p, pool, comps) ==
  LET m == PtRun(p, pool, comps)
      bound == Range(p.vars)
  IN  IF ~m.ok \/ m.pos < Len(comps) THEN [ok |-> FALSE, bindings |-> <<>>]
      ELSE [ok |-> TRUE,
            bindings |-> [v \in bound |-> m.captured[
              CHOOSE i \in DOMAIN p.vars :
                p.vars[i] = v /\ \A j \in DOMAIN p.vars : p.vars[j] = v => j <= i]]]

-----------------------------------------------------------------------------
(* The reference: the segments, those of variables in their place, share   *)
(* the components among them, one each and any number for a deep wildcard. *)

PtInner(s) == IF s.kind = "var" THEN s.segs ELSE <<s>>
PtFlat(segs) == FlattenSeq([i \in DOMAIN segs |-> PtInner(segs[i])])
PtOffset(segs, i) == Len(PtFlat(SubSeq(segs, 1, i - 1)))

PtDeep(flat) == {i \in DOMAIN flat : flat[i].kind = "**"}

(* The piece of each segment: with one deep wildcard at d, what the others *)
(* leave.                                                                  *)
PtPiece(flat, comps, i) ==
  LET before == PtDeep(flat) = {} \/ \A d \in PtDeep(flat) : i < d
      shift == Len(comps) - Len(flat)
  IN  IF i \in PtDeep(flat) THEN SubSeq(comps, i, i + shift)
      ELSE <<comps[IF before THEN i ELSE i + shift]>>

PtShares(flat, comps) ==
  /\ IF PtDeep(flat) = {} THEN Len(comps) = Len(flat) ELSE Len(comps) >= Len(flat) - 1
  /\ \A i \in DOMAIN flat : flat[i].kind = "lit" => PtPiece(flat, comps, i) = flat[i].str

PtCaptured(segs, comps, i) ==
  FlattenSeq([k \in DOMAIN segs[i].segs |->
                PtJoin(PtPiece(PtFlat(segs), comps, PtOffset(segs, i) + k))])

PtPaths == SeqOf({"a", "b"}, PtMaxPath)

(* The machine does what the template says.  Every template that parses    *)
(* and has at most one deep wildcard compiles to a valid program, and the  *)
(* program matches a path exactly if the segments can share its components *)
(* among them; a variable captures the components of its segments.         *)
PatternMatchesTemplate ==
  LET parsed == PtParse(ptTokens)
      segs == parsed.segs
      t == PtCompile(segs)
      p == PtNewPattern(t)
      flat == PtFlat(segs)
  IN  parsed.ok =>
        /\ p.ok <=> Cardinality(PtDeep(flat)) <= 1
        /\ p.ok =>
             \A comps \in PtPaths :
               LET m == PtMatch(p, t.pool, comps)
               IN  /\ m.ok <=> PtShares(flat, comps)
                   /\ m.ok => \A i \in DOMAIN segs :
                                /\ segs[i].kind = "var"
                                /\ ~\E j \in DOMAIN segs : /\ j > i /\ segs[j].kind = "var"
                                                           /\ segs[j].path = segs[i].path
                                => m.bindings[segs[i].path] = PtCaptured(segs, comps, i)

=============================================================================
