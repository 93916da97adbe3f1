---------------------------- MODULE MCLangRouter ----------------------------
(* Instances of LangRouter for TLC. *)
EXTENDS LangRouter

Row(uid, topic, regions, orig, fixed) ==
    [uid |-> uid, topics |-> <<topic>>, regions |-> regions, orig |-> orig, fixed |-> fixed]

\* Two prompts of two and three rollouts, mixed in the batch; a batch of
\* translations, whose language is fixed; and a batch of one prompt without region.
Mixed ==
    LET p == Row("p", "regional", <<"jp">>, "ja", NoLang)
        g == Row("g", "general", <<>>, "en", NoLang)
    IN  <<p, g, p, p, g>>
Translations ==
    LET t == Row("t", "translation", <<>>, "ja", "ja")
        g == Row("g", "general", <<>>, "en", NoLang)
    IN  <<t, g, t, g, t>>
Plain == LET g == Row("g", "general", <<>>, "en", NoLang) IN <<g, g, g, g, g>>
RoutingBatches == {Mixed, Translations, Plain}

\* One prompt the label of which names two regions, two prompts about one region, and
\* two translations, beside a prompt without any label and beside a regional one.
TwoRegions == LET p == Row("p", "regional", <<"jp", "sa">>, "ja", NoLang) IN <<p, p>>
Japanese   == Row("j", "regional", <<"jp">>, "ja", NoLang)
English    == Row("e", "regional", <<"jp">>, "en", NoLang)
Unlabelled == [Row("u", "translation", <<>>, "zh", NoLang) EXCEPT !.topics = <<>>]
Translation(uid, lang) == Row(uid, "translation", <<>>, lang, lang)
UpdateBatches ==
    {TwoRegions, <<Japanese, English>>, <<Translation("t", "en"), Unlabelled>>,
     <<Translation("v", "zh"), English>>}

\* 192 is 12 * 2^4: means of up to four rewards in up to three languages and four moves
\* of an arm are exact.
NoRewards  == {0}
TwoRewards == {0, 192}
FlatPrior  == [k \in Keys |-> [l \in Langs |-> 0]]
TiltedPrior == [k \in Keys |-> [l \in Langs |-> IF l = "en" \/ k = None THEN 0 ELSE -192]]
=============================================================================
