------------------------- MODULE MCProvisionerForm -------------------------
(* Two provisioners as in provisioners/main.go: a form of one field and a  *)
(* form of two.  Of the texts, lines is one that PrepareSave of textarea   *)
(* changes and that of sitemap refuses.                                    *)
EXTENDS ProvisionerForm, TLC

CONSTANTS textarea, sitemap, TextAreaData, SiteMapUrl1, SiteMapUrl2, url, lines

MCTypeOf == (TextAreaData :> textarea) @@ (SiteMapUrl1 :> sitemap)
            @@ (SiteMapUrl2 :> sitemap)
MCFiled == (TextAreaData :> url) @@ (SiteMapUrl1 :> url) @@ (SiteMapUrl2 :> Empty)
MCText == {Empty, url, lines}
MCPrepare == [t \in FormType |-> [v \in Text |-> IF v = lines THEN url ELSE v]]
MCRefused == (textarea :> {}) @@ (sitemap :> {lines})
=============================================================================
