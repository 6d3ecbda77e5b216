----------------------------- MODULE MCJWKParams -----------------------------
(***************************************************************************)
(* Values of JWKParams' constants for model checking: octets of four bits, *)
(* two curves with coordinates that have leading zeros, small RSA keys.    *)
(***************************************************************************)
EXTENDS JWKParams

MCCurves    == {"P-256", "P-521"}
MCCoordSize == [c \in MCCurves |-> IF c = "P-256" THEN 2 ELSE 3]
MCOrder     == [c \in MCCurves |-> IF c = "P-256" THEN 5 ELSE 3]
MCPoint(crv, d) ==
    IF crv = "P-256" THEN <<<<9, 200>>, <<77, 3>>, <<77, 178>>, <<9, 55>>>>[d]
    ELSE <<<<77, 3>>, <<1234, 0>>>>[d]

\* Two private keys with one public key, as "clamping" makes them.
MCEd25519Public(d) == (d * 13 + 2) % 256
MCX25519Public(d)  == ((d \div 4) * 44 + 2) % 256

RSA55   == rsaPrivate(55, 3, 7, <<5, 11>>, TRUE)
RSA85   == rsaPrivate(85, 3, 11, <<5, 17>>, FALSE)
Primes3 == rsaPrivate(935, 3, 27, <<5, 11, 17>>, TRUE)

MCGoKeys ==
    {RSA55, RSA85, Primes3, PublicHalf(RSA55),
     ecdsaPrivate("P-256", 9, 200, 1), ecdsaPublic("P-256", 77, 3),
     ecdsaPublic("P-224", 77, 3), ecdhPrivate("P-521", 1), ecdhPublic("P-521", <<1234, 0>>),
     ed25519Private(octets(0, 2)), ed25519Public(octets(2, 3)), ed25519Public(octets(171, 2)),
     ecdhPrivate("X25519", 1), ecdhPublic("X25519", octets(171, 2)),
     secret(octets(7, 1)), secret(octets(0, 0))}

MCTexts == {NotB64, Text(octets(0, 1)), Text(octets(2, 1)), Text(octets(21, 2))}

MCPasted == {{"crv"}, {"kty", "crv"}, {"d"}, {"k"}, {"x", "y"}, {"n", "e"}, {"d", "p", "q"},
             {"dp", "dq", "qi"}, {"kty", "crv", "x", "y"}}
=============================================================================
