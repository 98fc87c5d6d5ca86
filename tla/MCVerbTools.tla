----------------------------- MODULE MCVerbTools -----------------------------
EXTENDS VerbTools, MCVerbFormat, MCVerbRepl

\* Nested and broken comments, strings, numbers and names, and the rest.
Words(S, n) == UNION {[1 .. k -> S] : k \in 0 .. n}

const_Texts ==
  Words({"!", "?", "nl"}, 8)
    \cup Words({"quote", "\\", "n", "nl"}, 5)
    \cup Words({"1", ".", "n", "a"}, 5)
    \cup Words({"%", "nl", "-", ">", "(", "!"}, 4)

const_Suffix == <<".", "n">>

\* linux-x86 is a second spelling of linux-x86_64; odd is no target.
const_Targets == <<"linux-x86_64", "macos-arm64", "windows-arm64">>

const_Canonical ==
  [s \in {"linux-x86_64", "linux-x86", "macos-arm64"} |->
     IF s = "linux-x86" THEN "linux-x86_64" ELSE s]

const_LArguments == <<<<"", "libs">>, <<"linux-x86", "arm">>, <<"odd", "odd=dir">>>>

const_Subdirs == {<<"libs", "macos-arm64">>}

const_ChangeLists ==
  {<<>>, <<"two", "good">>, <<"good", "two">>} \cup {<<t>> : t \in DocTexts}

const_SyntaxErrors == [t \in DocTexts |-> IF t = "two" THEN 2 ELSE 0]
=============================================================================
