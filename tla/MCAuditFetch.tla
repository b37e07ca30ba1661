---------------------------- MODULE MCAuditFetch ----------------------------
(* AuditFetch for TLC: robots.txt, the sitemap and the homepage. *)
EXTENDS AuditFetch, TLC

MCResources == <<"robots_txt", "sitemap", "homepage">>
MCUrls == {"/robots.txt", "/sitemap.xml", "/", "blocked"}
MCDefaultUrl == "robots_txt" :> "/robots.txt" @@ "sitemap" :> "/sitemap.xml" @@ "homepage" :> "/"
=============================================================================
