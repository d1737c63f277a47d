------------------------------ MODULE MCPlaces ------------------------------
(* "sun" and "sunr" are typed; the model offers the Sunset, a payee already, *)
(* with or without "Sunrise, Lakeview" beside it, of which only the          *)
(* latter fits "sunr"; a search finds that branch.                           *)
EXTENDS Places, TLC
CONSTANTS sun, sunr, sunset, lake, place
MCFits == (sunset :> {sun}) @@ (lake :> {sun, sunr})
MCKeyOf == (sunset :> NoKey) @@ (lake :> place)
MCKeyTyped == (sun :> NoKey) @@ (sunr :> place)
MCBranches == (place :> {lake})
MCRaw == {{lake, sunset}, {sunset}}
=============================================================================
