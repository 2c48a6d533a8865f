---- MODULE MCRoleReview ----
EXTENDS RoleReview, TLC

CONSTANTS a1, a2

Policy(name, actions, resource) ==
    [name |-> name, version |-> "v1", actions |-> actions, resource |-> resource]

Reviewable == [principal |-> "provider", claims |-> "workflow"]

\* The role as planned, with one inline policy and a boundary.
Planned ==
    [trust    |-> Reviewable,
     attached |-> <<Policy("tags", "write", "*"), Policy("state", "read", "bucket")>>,
     inline   |-> <<Policy("core", "read", "*")>>,
     boundary |-> <<Policy("edge", "write", "*")>>]

\* One resource renamed, and two inline policies, whose redacted names are the same.
Split ==
    [Planned EXCEPT !.attached[2].resource = "other-bucket",
                    !.inline = @ \o <<Policy("more", "write", "*")>>,
                    !.boundary[1].actions = "read"]

\* One of the two roles stays as it is.
MCRoleStates == a1 :> {Planned, Split} @@ a2 :> {Planned}

MCSymmetry == Permutations(Captures)

====
