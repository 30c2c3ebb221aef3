------------------------------ MODULE MCStartup ------------------------------
(***************************************************************************)
(* Small configuration files for checking Startup.tla.                     *)
(***************************************************************************)
EXTENDS Startup, TLC

Named(name, pattern, discount) ==
    [name |-> name, namePattern |-> pattern, sizes |-> {}, maxPrice |-> 0,
     minDiscount |-> discount, compiled |-> NoRegex]

SmallRegex == ("socks" :> {"Socks", "Warm Socks"}) @@ ("(?i)linen" :> {"Linen Shirt"})

\* A rule that fits with and without a pattern, and one unfit in each way.
SmallRule == {Named("all", "", 100), Named("socks", "socks", 0), Named("linen", "(?i)linen", 1),
              Named("", "socks", 0), Named("open", "(unclosed", 0),
              Named("low", "socks", -1), Named("high", "", 101)}

ListsOfTwo == {<< >>} \cup {<<r>> : r \in SmallRule} \cup (SmallRule \X SmallRule)

NoneOrOne == {{}} \cup {{f} : f \in Field}

\* Unset, valid, and what nothing refuses.
AlikeNumbers == {[n \in DOMAIN Default |-> v] : v \in {-1, 0, 7}}

=============================================================================
