----------------------------- MODULE Declarator -----------------------------
(***************************************************************************)
(* The declaration functions of lib/parser/decl.cc: which tokens they take *)
(* and which they give back, the type they build, what they report and     *)
(* which names they declare.                                               *)
(*                                                                         *)
(* A declarator is the place of the name in the text, NullToken if there   *)
(* is none, and the type.  What works on a type has it in value.           *)
(***************************************************************************)
EXTENDS ExprParser

(* c_parser_type_qualifier_list(): ends with a token given back, so that   *)
(* there is no current one.                                                *)
Qualifies(p, frames, ty) == Leaves(NextToken(p), frames, "qualifiers", ty)

Qualifier ==
    /\ At("qualifiers") /\ Is(parser, "const")
    /\ Qualifies(parser, calls, TypeOver("const", value))

EndQualifiers ==
    /\ At("qualifiers") /\ ~Is(parser, "const")
    /\ Gives(PushBack(parser), value)

(* c_parser_declaration_specifiers(): the type specifiers look at the      *)
(* current token, which was given back and is none.  So it never comes to  *)
(* reading a type: it is reported that one is missing, and is int.  A      *)
(* declarator of that type follows.                                        *)
Specifies(p, frames) == Qualifies(p, Append(frames, [kind |-> "specifiers"]), NoType)

EndSpecifiers ==
    /\ Resumes("specifiers")
    /\ Leaves(Report(parser), Popped, "pointer", IntType)

(* c_parser_pointer(): stars, each with qualifiers after it, or else       *)
(* qualifiers; gives its last token back, and it is read again.            *)
Star ==
    /\ At("pointer") /\ Is(NextToken(parser), "*")
    /\ Qualifies(NextToken(parser), Append(calls, [kind |-> "star"]), TypeOver("pointer", value))

EndStar ==
    /\ Resumes("star")
    /\ Leaves(parser, Popped, "pointer", value)

QualifiedPointer ==
    /\ At("pointer") /\ Is(NextToken(parser), "const")
    /\ Qualifies(PushBack(NextToken(parser)), Append(calls, [kind |-> "pointed"]), value)

EndQualifiedPointer ==
    /\ Resumes("pointed")
    /\ Leaves(NextToken(parser), Popped, "direct", value)

EndPointer ==
    /\ At("pointer") /\ Cur(NextToken(parser)) \notin {"*", "const"}
    /\ Leaves(NextToken(PushBack(NextToken(parser))), calls, "direct", value)

-----------------------------------------------------------------------------
(* c_parser_direct_declarator().  Of the type of a bracketed declarator    *)
(* only the outermost operator is kept, over what follows the bracket.     *)
(* One without a name is read through a null pointer.                      *)
Found(name, ty) == [name |-> name, ty |-> ty]

Named ==
    /\ At("direct") /\ IsName(parser)
    /\ Leaves(NextToken(parser), Append(calls, [kind |-> "named", name |-> parser.cur]), "suffix", value)

EndNamed ==
    /\ Resumes("named")
    /\ Returns(parser, Found(Top.name, value))

Bracketed ==
    /\ At("direct") /\ Is(parser, "(")
    /\ Leaves(parser, Append(calls, [kind |-> "brackets", ty |-> value]), "pointer", value)

CloseBracketed ==
    /\ Resumes("brackets")
    /\ Leaves(NextToken(Need(parser, ")")),
              Append(Popped, [kind |-> "closing", name |-> value.name, op |-> value.ty.op]),
              "suffix", Top.ty)

EndBracketed ==
    /\ Resumes("closing")
    /\ Returns(IF Top.name = NullToken THEN Stop(parser, "undefined") ELSE parser,
               Found(Top.name, TypeOver(Top.op, value)))

NoDeclarator ==
    /\ At("direct") /\ ~IsName(parser) /\ ~Is(parser, "(")
    /\ Gives(parser, Found(NullToken, value))

(* c_parser_direct_declatator_opt(): dimensions, the last of which becomes *)
(* the outermost, or one list of parameters.                               *)
Dimension ==
    /\ At("suffix") /\ Is(parser, "[")
    /\ LET sized == NeedConstant(parser)
           over == IF IsConstant(sized) THEN ArrayType(value, Cur(sized)) ELSE value
       IN  Leaves(NextToken(Need(sized, "]")), calls, "suffix", over)

(* Mutant: a token that is no bracket is not given back.                   *)
NoSuffixTaking ==
    /\ At("suffix") /\ Cur(parser) \notin {"[", "("}
    /\ Gives(parser, value)

NoSuffix ==
    /\ At("suffix") /\ Cur(parser) \notin {"[", "("}
    /\ Gives(PushBack(parser), value)

(* c_parser_parameter_type_list(): () and (void), or parameters up to the  *)
(* closing bracket, or to what it cannot read.                             *)
NoParameters ==
    /\ At("suffix") /\ Is(parser, "(") /\ Cur(NextToken(parser)) \in {")", "void"}
    /\ LET p == NextToken(parser)
       IN  Gives(IF Is(p, ")") THEN p ELSE Need(p, ")"), NewType("function", value, <<VoidType>>))

Parameters ==
    /\ At("suffix") /\ Is(parser, "(") /\ Cur(NextToken(parser)) \notin {")", "void"}
    /\ Specifies(PushBack(NextToken(parser)),
                 Append(calls, [kind |-> "parameters", ty |-> value, list |-> <<>>]))

(* Mutant: the newest parameter becomes the first.                         *)
WithParameterFirst(list, d) ==
    LET para == Parameter(d.ty, parser.text[d.name])
    IN  IF d.name = NullToken THEN list
        ELSE IF list = <<>> THEN <<para>> ELSE NextPara(<<para>>, Head(list))

(* The list with one more: the first links to the newest.                  *)
WithParameter(list, d) ==
    LET para == Parameter(d.ty, parser.text[d.name])
    IN  IF d.name = NullToken THEN list
        ELSE IF list = <<>> THEN <<para>> ELSE NextPara(list, para)

AnotherParameter ==
    /\ Resumes("parameters") /\ Is(NextToken(parser), ",")
    /\ Specifies(NextToken(parser), Append(Popped, [Top EXCEPT !.list = WithParameter(@, value)]))

EndParameters ==
    /\ Resumes("parameters") /\ ~Is(NextToken(parser), ",")
    /\ LET p == NextToken(parser)
       IN  Returns(IF Is(p, "const") \/ IsBaseType(p) THEN Report(p) ELSE p,
                   NewType("function", Top.ty, WithParameter(Top.list, value)))

-----------------------------------------------------------------------------
(* c_parser_declaration(): declarators of the type specified, up to the    *)
(* semicolon or to the brace of a function; declared counts the names.     *)
Declaration ==
    Specifies(PushBack([parser EXCEPT !.isFinish = FALSE]),
              Append(calls, [kind |-> "declaration", ty |-> IntType, declared |-> 0]))

(* The loop it was called from, of the file or of a block, goes on with    *)
(* the next token.                                                         *)
Finished(p) == IF Running(p) THEN [p EXCEPT !.isFinish = TRUE] ELSE p
Caller == IF Popped = <<>> THEN "unit" ELSE "declarations"
EndsDeclaration(p) == Leaves(NextToken(Finished(p)), Popped, Caller, Nothing)

(* A declarator is declared if its type passes the check; else the check's *)
(* words are reported.                                                     *)
Accepts(d) == Check(parser.verdict, d.ty) = NoException
Verdict(d) ==
    LET te == Check(parser.verdict, d.ty)
        q == [parser EXCEPT !.verdict = te]
    IN  IF Accepts(d) THEN NewIdentifier(q, q.text[d.name], d.ty)
        ELSE IF Misprinted(te) THEN Misreport(q) ELSE Report(q)
Declared(d) == Top.declared + (IF Accepts(d) THEN 1 ELSE 0)

NotDeclared ==
    /\ Resumes("declaration") /\ value.name = NullToken
    /\ Stays(Misreport(parser))

DeclaredTo(token) ==
    Resumes("declaration") /\ value.name # NullToken /\ Cur(NextToken(Verdict(value))) = token

AnotherDeclarator ==
    /\ DeclaredTo(",")
    /\ Leaves(NextToken(Verdict(value)), Append(Popped, [Top EXCEPT !.declared = Declared(value)]),
              "pointer", Top.ty)

(* What follows a == is an expression that begins with it: its left side   *)
(* is missing, which stops the program before it returns.                  *)
Initializer ==
    /\ DeclaredTo("==")
    /\ Reads(NextToken(Verdict(value)), Popped \o <<[kind |-> "initializer"]>> \o Expressions)

(* Without a semicolon tokens are dropped until one or a type.             *)
EndDeclarator ==
    /\ Resumes("declaration") /\ value.name # NullToken
    /\ Cur(NextToken(Verdict(value))) \notin {",", "==", "{"}
    /\ LET p == Need(PushBack(NextToken(Verdict(value))), ";")
       IN  IF Is(p, ";") THEN EndsDeclaration(p) ELSE Leaves(NextToken(p), calls, "recover", Nothing)

Recover ==
    /\ At("recover")
    /\ IF Is(parser, ";") \/ IsBaseType(parser) THEN EndsDeclaration(parser) ELSE Stays(NextToken(parser))

(* c_parser_funtion_definition() up to its block: parseParameters()        *)
(* declares the parameters in the function's environment, and the type is  *)
(* printed.  A list has no more than two (NextPara).                       *)
ParseParameter(p, list, i) ==
    IF i \notin DOMAIN list \/ list[i].op = "void" THEN p
    ELSE NewIdentifier(p, list[i].sym, list[i].base)
ParseParameters(p, list) == ParseParameter(ParseParameter(p, list, 1), list, 2)

BeginFunction(p, ty) ==
    LET q == ParseParameters(EnterEnv(p), ty.list)
    IN  IF ty.prints THEN q ELSE Stop(q, "undefined")

(* At a brace there must be one name, of a function.                       *)
AtBrace(p, d) ==
    CASE Declared(d) # 1 -> Stop(Report(p), "assert")
      [] Declared(d) = 1 /\ ~Accepts(d) -> Stop(p, "undefined")
      [] Declared(d) = 1 /\ Accepts(d) /\ d.ty.op # "function" -> Stop(p, "assert")
      [] Declared(d) = 1 /\ Accepts(d) /\ d.ty.op = "function" -> BeginFunction(p, d.ty)

Declarators ==
    \/ Qualifier \/ EndQualifiers \/ EndSpecifiers
    \/ Star \/ EndStar \/ QualifiedPointer \/ EndQualifiedPointer \/ EndPointer
    \/ Named \/ EndNamed \/ Bracketed \/ CloseBracketed \/ EndBracketed \/ NoDeclarator
    \/ Dimension \/ NoSuffix \/ NoParameters \/ Parameters \/ AnotherParameter \/ EndParameters
    \/ NotDeclared \/ AnotherDeclarator \/ Initializer \/ EndDeclarator \/ Recover
=============================================================================
